SPECIFICATION FairSpec
CONSTANTS
  Sales = {s1}
  Kinds = {"activated", "added"}
  Requests = {r1, r2}
  Admins = {a1}
  Flows = {f1}
  Welcome = TRUE
  MaxRetries = 2
  MaxFaults = 1
  MaxJobs = 3
  MaxExpiries = 1
  MaxChanges = 1
  None = None
CHECK_DEADLOCK FALSE
INVARIANTS TypeOK PendingIsNewer PurchaseOnce
PROPERTIES AcceptedArrives
