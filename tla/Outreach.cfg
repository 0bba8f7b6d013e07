SPECIFICATION Spec
CONSTANTS
  b1 = b1 b2 = b2 nome = nome produto = produto w = w
  ana = ana curso = curso fone = fone oi = oi
  Alphabet <- MCAlphabet
  Convention <- MCConvention
  Word = w
  MaxChars = 6
  MinChars = 3
  None = None
  Buyers = {b1, b2}
  Requests <- MCRequests
  Drafts <- MCDrafts
  Synced <- MCSynced
  Contexts <- MCContexts
  Agents = {"a1"}
  Contacts <- MCContacts
  Buffering = {TRUE, FALSE}
  MaxRuns = 2
  MaxBusy = 2
  MaxFaults = 1
  MaxChanges = 1
CHECK_DEADLOCK FALSE
INVARIANTS TypeOK RightContact OneConversation SentWhole ParametersMatch
