SPECIFICATION EnrollmentSpec
CONSTANTS
  a1 = a1
  a2 = a2
  a3 = a3
  adm = adm
  h1 = h1
  h2 = h2
  Tenants = {h1, h2}
  Servers = {}
  Methods = {}
  Tokens <- MCTokens
  AdminToken = adm
  RuleNames = {}
  Star = Star
  None = None
  Agents <- MCAgents
  IPs = {i1, i2}
  TenantOf <- MCTenantOf
  PostedRows <- MCPostedRows
  Limit = 2
  Window = 2
  MaxTime = 2
  MaxBoots = 1
CHECK_DEADLOCK FALSE
SYMMETRY Symmetry
INVARIANTS
  EnrollmentTypeOK
  OrphansOnlyFromCrash
  WindowExact
