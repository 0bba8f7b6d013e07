SPECIFICATION Spec
CONSTANTS
  Names = {welcome, tips}
  Langs = {pt, en}
  Steps = {s1}
  Contents = {logo}
  Requests = {r1, r2}
  Pasts <- MCPasts
  PageSize = 1
  MaxRequests = 2
  MaxOutside = 1
  MaxFaults = 1
  NoName = NoName
  Gone = Gone
SYMMETRY MCSymmetry
CHECK_DEADLOCK FALSE
INVARIANTS TypeOK RowsStand StepsSend
