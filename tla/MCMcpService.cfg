SPECIFICATION Spec
CONSTANTS
  Contexts = {c1}
  Tenants = {t1}
  Configs = {x, y}
  Requests = {r1, r2}
  MaxBoots = 1
  None = None
SYMMETRY Symmetry
INVARIANTS
  McpTypeOK
  
  UnfinishedHasWriter
PROPERTIES
  OnlyLoadsRevive
