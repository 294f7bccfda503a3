CONSTANTS
  Models = {m1, m2}
  TableModels = {m1}
  Versions = {1, 2}
  Requests = {r1, r2}
  MaxLoaded = 1
  None = None
SPECIFICATION LoadersFairSpec
INVARIANTS
  LoadersTypeOK
  ActiveServed
  ActiveIsLoaded
  InfoTellsObject
PROPERTY
  LoaderCallsEnd
CHECK_DEADLOCK FALSE
