SPECIFICATION Spec
CONSTANTS
  Sales = {s1}
  Kinds = {"activated"}
  Requests = {r1}
  Admins = {a1}
  Flows = {f1}
  Welcome = TRUE
  MaxRetries = 2
  MaxFaults = 0
  MaxJobs = 2
  MaxExpiries = 0
  MaxChanges = 1
  None = None
CHECK_DEADLOCK FALSE
INVARIANTS ReprocessWorks
