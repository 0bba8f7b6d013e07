SPECIFICATION Spec
CONSTANTS
  StepIds = {1, 2}
  Delays = {1, 2}
  Contents = {"a", "b"}
  Positions = {1}
  FirstFlow <- MCOneStep
  Enrollers = {e1}
  Resyncs = {r1, r2}
  Outcomes = {"sent", "failed"}
  MaxEdits = 2
  Null = Null
CHECK_DEADLOCK FALSE
INVARIANTS TypeOK EditArrives
