SPECIFICATION Spec
CONSTANTS
  p1 = p1 p2 = p2 c1 = c1 c2 = c2 c3 = c3 n1 = n1 f1 = f1 s1 = s1 s2 = s2 w1 = w1 w2 = w2
  Products = {p1, p2}
  Names = {n1}
  Codes = {c1, c2, c3}
  Flows = {f1}
  Sales = {s1, s2}
  Payloads <- MCPayloads
  Catalogs <- MCCatalogs
  Filters <- MCFilters
  Workers = {w1, w2}
  MaxRuns = 2
  MaxFaults = 1
  MaxEdits = 1
  MaxLoads = 2
  None = None
SYMMETRY Workmen
CHECK_DEADLOCK FALSE
INVARIANTS TypeOK ShownExplained LeadTells RightCourse
