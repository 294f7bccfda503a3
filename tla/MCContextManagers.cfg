CONSTANTS
  Tenants = {t1, t2}
  TenantContextIds = {c1, c2, c3}
  TenantRequests = {r1, r2}
  MaxContexts = 3
  MaxMemory = 2
  Workers = 1
  Contexts = {c1}
  Requests = {r1, r2, r3}
SPECIFICATION FairSpec
INVARIANTS
  ContextsTypeOK
  CountersExact
  UnfinishedHasOwner
  InferenceIsExclusive
PROPERTY
  InferencesEnd
CHECK_DEADLOCK FALSE
