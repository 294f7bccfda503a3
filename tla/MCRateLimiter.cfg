SPECIFICATION Spec
CONSTANTS
  r1 = r1
  r2 = r2
  p1 = p1
  p2 = p2
  k1 = k1
  Procs = {p1, p2}
  Requests = {r1, r2}
  Home <- MCHome
  Keys = {k1}
  Limit <- MCLimit
  Burst <- MCBurst
  Window = 2
  MaxTime = 3
  None = None
SYMMETRY Alike
CHECK_DEADLOCK FALSE
INVARIANTS
  LimiterTypeOK
  OverrunBounded
  KeysOutliveTheirWindow
