SPECIFICATION FairSpec
CONSTANTS
  Steps = {1, 2}
  Later = {2}
  Synced = {1, 2}
  Jobs = {1, 2, 3}
  Clicks = {c1}
  Resyncs = {r1}
  MaxFaults = 1
  None = None
CHECK_DEADLOCK FALSE
INVARIANTS TypeOK DuplicatesExplained SentWasSent PendingHasJob AllSentCompletes
PROPERTIES SettledStays DueSettles
