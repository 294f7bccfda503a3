----------------------------- MODULE AuthService ----------------------------
(***************************************************************************)
(* The tenant auth service (services/auth.py): tenants, their users and the*)
(* users' roles, in four dictionaries of one process. Its methods are plain*)
(* synchronous functions, one step each; a call that raises changes nothing*)
(* and is a stuttering step, as are login, validate_token and              *)
(* check_permission, which change no more than last_login. So is           *)
(* reactivate_tenant: the file stops after its checks.                     *)
(*                                                                         *)
(* The caller of a managing method is a User object. It is the object in   *)
(* `users', so its roles are those of now; whether it is still active is   *)
(* not asked.                                                              *)
(***************************************************************************)
EXTENDS Integers, FiniteSets

CONSTANTS
  UserIds, TenantIds,   \* what uuid4 may return
  Emails, Names,        \* of users and tenants
  Plans, MaxUsers,      \* plan types, and the max_users each gives
  RolesInUse,           \* the roles that callers assign and remove
  None

VARIABLES
  users,       \* user id -> row, or None
  tenants,     \* tenant id -> row, or None
  emailIndex,  \* user_email_index: (tenant id, email) -> user id, or None
  nameIndex    \* tenant_name_index: name -> tenant id, or None

authVars == <<users, tenants, emailIndex, nameIndex>>
directory == <<emailIndex, nameIndex>>

Permissions == {"READ_CONTEXTS", "CREATE_CONTEXT", "DELETE_CONTEXT", "RUN_INFERENCE",
                "MANAGE_USERS", "MANAGE_ROLES", "MANAGE_TENANT", "VIEW_METRICS"}

ROLE_PERMISSIONS ==
  [ADMIN   |-> Permissions,
   MANAGER |-> Permissions \ {"MANAGE_ROLES", "MANAGE_TENANT"},
   USER    |-> {"READ_CONTEXTS", "CREATE_CONTEXT", "RUN_INFERENCE"},
   VIEWER  |-> {"READ_CONTEXTS", "VIEW_METRICS"}]

Roles == {"ADMIN", "MANAGER", "USER", "VIEWER"}

UserRow == [tenant : TenantIds, email : Emails, roles : SUBSET Roles, active : BOOLEAN]

TenantRow == [name : Names, plan : Plans, active : BOOLEAN]

ASSUME AuthAssumption ==
  /\ MaxUsers \in [Plans -> Nat \ {0}]
  /\ RolesInUse \subseteq Roles
  /\ None \notin UserIds \cup TenantIds \cup UserRow \cup TenantRow

AuthTypeOK ==
  /\ users \in [UserIds -> UserRow \cup {None}]
  /\ tenants \in [TenantIds -> TenantRow \cup {None}]
  /\ emailIndex \in [TenantIds \X Emails -> UserIds \cup {None}]
  /\ nameIndex \in [Names -> TenantIds \cup {None}]

Init ==
  /\ users = [u \in UserIds |-> None]
  /\ tenants = [t \in TenantIds |-> None]
  /\ emailIndex = [x \in TenantIds \X Emails |-> None]
  /\ nameIndex = [n \in Names |-> None]

-----------------------------------------------------------------------------
Members(t) == {u \in UserIds : users[u] # None /\ users[u].tenant = t}

ActiveAdmins(t) == {u \in Members(t) : "ADMIN" \in users[u].roles /\ users[u].active}

\* User.has_permission
HasPermission(u, p) == \E r \in users[u].roles : p \in ROLE_PERMISSIONS[r]

\* check_permission: nobody of a deactivated tenant may do anything.
CheckPermission(u, p) ==
  /\ users[u] # None /\ users[u].active
  /\ tenants[users[u].tenant] # None /\ tenants[users[u].tenant].active
  /\ HasPermission(u, p)

\* The checks every managing method of users begins with.
MayManage(by, u, p) ==
  /\ users[by] # None /\ users[u] # None
  /\ HasPermission(by, p)
  /\ users[by].tenant = users[u].tenant

\* Faulty guard: the administrators that are not active count too.
HasSomeAdminLeft(t) == Cardinality({u \in Members(t) : "ADMIN" \in users[u].roles}) > 1

\* The tenant has an active administrator to spare.
HasSpareAdmin(t) == Cardinality(ActiveAdmins(t)) > 1

\* The check of reactivate_user, which counts the active users only: too weak a
\* check for register_user.
HasActiveSeat(t) ==
  Cardinality({u \in Members(t) : users[u].active}) < MaxUsers[tenants[t].plan]

HasSeat(t) == Cardinality(Members(t)) < MaxUsers[tenants[t].plan]

EmailFree(t, email) == emailIndex[<<t, email>>] = None

AddUser(u, t, email, role) ==
  /\ users' = [users EXCEPT ![u] =
       [tenant |-> t, email |-> email, roles |-> {role}, active |-> TRUE]]
  /\ emailIndex' = [emailIndex EXCEPT ![<<t, email>>] = u]

\* register_tenant; t and u are fresh.
RegisterTenant(t, name, plan, u, email) ==
  /\ tenants[t] = None /\ users[u] = None
  /\ nameIndex[name] = None
  /\ tenants' = [tenants EXCEPT ![t] = [name |-> name, plan |-> plan, active |-> TRUE]]
  /\ nameIndex' = [nameIndex EXCEPT ![name] = t]
  /\ AddUser(u, t, email, "ADMIN")

\* register_user; u is fresh. The tenant need not be active.
RegisterUser(t, u, email) ==
  /\ users[u] = None
  /\ tenants[t] # None
  /\ EmailFree(t, email)
  /\ HasSeat(t)
  /\ AddUser(u, t, email, "USER")
  /\ UNCHANGED <<tenants, nameIndex>>

AssignRole(by, u, role) ==
  /\ MayManage(by, u, "MANAGE_ROLES")
  /\ users' = [users EXCEPT ![u].roles = @ \cup {role}]
  /\ UNCHANGED <<tenants, directory>>

RemoveRole(by, u, role) ==
  /\ MayManage(by, u, "MANAGE_ROLES")
  /\ role = "ADMIN" /\ role \in users[u].roles => HasSpareAdmin(users[u].tenant)
  /\ users' = [users EXCEPT ![u].roles = @ \ {role}]
  /\ UNCHANGED <<tenants, directory>>

DeactivateUser(by, u) ==
  /\ MayManage(by, u, "MANAGE_USERS")
  /\ "ADMIN" \in users[u].roles => HasSpareAdmin(users[u].tenant)
  /\ users' = [users EXCEPT ![u].active = FALSE]
  /\ UNCHANGED <<tenants, directory>>

ReactivateUser(by, u) ==
  /\ MayManage(by, u, "MANAGE_USERS")
  /\ ~users[u].active => HasActiveSeat(users[u].tenant)
  /\ users' = [users EXCEPT ![u].active = TRUE]
  /\ UNCHANGED <<tenants, directory>>

\* The checks of deactivate_tenant; an administrator of any tenant passes.
MayManageTenant(by, t) ==
  /\ users[by] # None /\ tenants[t] # None
  /\ HasPermission(by, "MANAGE_TENANT")
  /\ users[by].tenant = t \/ "ADMIN" \in users[by].roles

\* deactivate_tenant switches the row of the tenant and none of its users.
DeactivateTenant(by, t) ==
  /\ MayManageTenant(by, t)
  /\ tenants' = [tenants EXCEPT ![t].active = FALSE]
  /\ UNCHANGED <<users, directory>>

Next ==
  \/ \E t \in TenantIds, u \in UserIds, email \in Emails :
       \/ \E name \in Names, plan \in Plans : RegisterTenant(t, name, plan, u, email)
       \/ RegisterUser(t, u, email)
  \/ \E by, u \in UserIds :
       \/ \E role \in RolesInUse : AssignRole(by, u, role) \/ RemoveRole(by, u, role)
       \/ DeactivateUser(by, u)
       \/ ReactivateUser(by, u)
  \/ \E by \in UserIds, t \in TenantIds : DeactivateTenant(by, t)

Spec == Init /\ [][Next]_authVars

-----------------------------------------------------------------------------
(* Properties                                                              *)

\* No order of role changes and deactivations of users, by whichever users, takes
\* the last active administrator of a tenant away, and while the tenant is active
\* check_permission grants that user everything. A deactivated tenant keeps its
\* administrators too, but they may do nothing: deactivate_tenant switches the
\* tenant only, and check_permission refuses its users.
TenantsKeepAdmins ==
  \A t \in TenantIds : tenants[t] # None =>
    \E u \in Members(t) :
      /\ users[u].active /\ "ADMIN" \in users[u].roles
      /\ \A p \in Permissions : CheckPermission(u, p) <=> tenants[t].active

\* No tenant has more users than its plan allows, the deactivated ones counted
\* in: deactivating, registering and reactivating cannot get around the limit.
UserLimit ==
  \A t \in TenantIds : tenants[t] # None =>
    Cardinality(Members(t)) <= MaxUsers[tenants[t].plan]

\* The e-mail index and the users agree both ways, so login finds the one user
\* of an address, and an address is used once in a tenant.
EmailIndexExact ==
  \A t \in TenantIds, email \in Emails, u \in UserIds :
    emailIndex[<<t, email>>] = u <=>
      users[u] # None /\ users[u].tenant = t /\ users[u].email = email
=============================================================================
