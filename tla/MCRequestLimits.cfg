SPECIFICATION FairSpec
CONSTANTS
  Requests = {r1, r2, r3}
  Tenants = {t1}
  Values <- MCValues
  Limit = 2
  Contexts = 5
  Window = 1
  MaxTime = 3
  None = None
CHECK_DEADLOCK FALSE
INVARIANTS
  LimitsTypeOK
  RateHolds
  CountExact
PROPERTIES
  ReportsAreAlerted
