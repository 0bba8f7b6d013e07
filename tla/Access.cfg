SPECIFICATION Spec
CONSTANTS
  Accounts = {"first", "second"}
  DefaultAccount = "first"
  Emails = {"ana", "caio", "bia", "eva", "dora", "Dora"}
  Lower <- MCLower
  Changes <- MCChanges
  Grants = {{"users.manage"}, {"leads.view", "profiles.manage"}}
  Founders <- MCFounders
  LegacyTables <- MCLegacyTables
  Profiles = {"Admin", "Operador", "Vendas"}
  Keys = {"users.manage", "profiles.manage", "leads.view"}
  AdminOnlyKeys = {"users.manage", "profiles.manage"}
  Requests = {r1, r2}
  MaxMails = 2
  MaxRequests = 2
  MaxSessions = 2
  MaxFaults = 1
  None = None
SYMMETRY MCSymmetry
CHECK_DEADLOCK FALSE
INVARIANTS TypeOK AdminRemains MailedWorks ProfilesGrant 
