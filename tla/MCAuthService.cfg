SPECIFICATION Spec
CONSTANTS
  small = small
  large = large
  UserIds = {u1, u2, u3}
  TenantIds = {t1, t2}
  Emails = {e1, e2, e3}
  Names = {n1, n2}
  Plans = {small, large}
  MaxUsers <- MCMaxUsers
  RolesInUse = {"ADMIN", "MANAGER"}
  None = None
SYMMETRY Symmetry
INVARIANTS
  TenantsKeepAdmins
  UserLimit
