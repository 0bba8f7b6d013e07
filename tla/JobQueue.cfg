SPECIFICATION FairSpec
CONSTANTS
  Subs = {1, 2, 3}
  Workers = {w1, w2}
  Admins = {a1}
  MaxRetries = 2
  MaxConcurrency = 1
  MaxStops = 1
CHECK_DEADLOCK FALSE
INVARIANTS TypeOK Conserved AttemptsCount
PROPERTIES Settles KeepsPromise
