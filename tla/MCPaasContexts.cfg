SPECIFICATION FairSpec
CONSTANTS
  Contexts = {c1, c2}
  Tenants = {a, b}
  MaxUsage = 1
  None = None
INVARIANTS
  UnlistedAreLoaded
PROPERTIES
  OnlyLoadsBringBack
  ExpiredAreCollected
