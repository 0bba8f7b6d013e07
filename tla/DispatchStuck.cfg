SPECIFICATION Spec
CONSTANTS
  Steps = {1}
  Later = {}
  Synced = {1}
  Jobs = {1}
  Clicks = {c1}
  Resyncs = {}
  MaxFaults = 0
  None = None
CHECK_DEADLOCK FALSE
INVARIANTS NeverStuck
