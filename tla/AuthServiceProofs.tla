-------------------------- MODULE AuthServiceProofs -------------------------
(***************************************************************************)
(* Theorems about the tenant auth service, for any users, tenants, names,  *)
(* addresses, plans and limits.                                            *)
(*                                                                         *)
(* The steps fall into three classes: a user is added, a user's row is     *)
(* rewritten with its tenant and address kept, or a tenant is switched.    *)
(* Lemma Steps classifies the actions; each conjunct of the invariant is   *)
(* then kept class by class. Only the last administrator needs the actions *)
(* themselves, because the guards differ.                                  *)
(***************************************************************************)
EXTENDS AuthService, FiniteSetTheorems, TLAPS

\* Every user belongs to a registered tenant.
Housed == \A u \in UserIds : users[u] # None => tenants[users[u].tenant] # None

MembersFinite == \A t \in TenantIds : IsFiniteSet(Members(t))

\* Every tenant has an active administrator.
AdminRemains ==
  \A t \in TenantIds : tenants[t] # None =>
    \E u \in UserIds : /\ users[u] # None /\ users[u].tenant = t
                       /\ users[u].active /\ "ADMIN" \in users[u].roles

Invariant ==
  /\ AuthTypeOK
  /\ Housed
  /\ MembersFinite
  /\ EmailIndexExact
  /\ UserLimit
  /\ AdminRemains

NewUser(t, email, role) ==
  [tenant |-> t, email |-> email, roles |-> {role}, active |-> TRUE]

\* A user is added to a tenant that has a seat and knows no such address.
UserAdded(t, u, email, role) ==
  /\ users[u] = None
  /\ tenants'[t] # None
  /\ \A s \in TenantIds : s # t => tenants'[s] = tenants[s]
  /\ tenants[t] # None => /\ tenants' = tenants
                          /\ EmailFree(t, email) /\ HasSeat(t)
  /\ tenants[t] = None => role = "ADMIN"
  /\ tenants' \in [TenantIds -> TenantRow \cup {None}]
  /\ nameIndex' \in [Names -> TenantIds \cup {None}]
  /\ users' = [users EXCEPT ![u] = NewUser(t, email, role)]
  /\ emailIndex' = [emailIndex EXCEPT ![<<t, email>>] = u]

\* The row of one user is rewritten; tenant and address stay.
UserEdited(u, row) ==
  /\ users[u] # None
  /\ row.tenant = users[u].tenant /\ row.email = users[u].email
  /\ users' = [users EXCEPT ![u] = row]
  /\ tenants' = tenants /\ emailIndex' = emailIndex
  /\ nameIndex' = nameIndex

\* Rows of tenants change in nothing but their switch; users stay.
TenantSwitched ==
  /\ users' = users /\ emailIndex' = emailIndex /\ nameIndex' = nameIndex
  /\ tenants' \in [TenantIds -> TenantRow \cup {None}]
  /\ \A t \in TenantIds : /\ tenants'[t] = None <=> tenants[t] = None
                          /\ tenants[t] # None => tenants'[t].plan = tenants[t].plan

-----------------------------------------------------------------------------
(* The classes of steps                                                    *)

\* register_tenant and register_user add a user.
LEMMA RegistrationsAddUsers ==
  ASSUME AuthTypeOK, NEW t \in TenantIds, NEW u \in UserIds, NEW email \in Emails
  PROVE  /\ \A name \in Names, plan \in Plans :
              RegisterTenant(t, name, plan, u, email) => UserAdded(t, u, email, "ADMIN")
         /\ RegisterUser(t, u, email) => UserAdded(t, u, email, "USER")
<1>1. ASSUME NEW name \in Names, NEW plan \in Plans, RegisterTenant(t, name, plan, u, email)
      PROVE  UserAdded(t, u, email, "ADMIN")
  <2> DEFINE row == [name |-> name, plan |-> plan, active |-> TRUE]
  <2>1. row \in TenantRow /\ row # None
    <3>1. row \in TenantRow
      BY DEF TenantRow
    <3>2. QED
      BY <3>1, AuthAssumption
  <2>2. tenants' = [tenants EXCEPT ![t] = row]
    BY <1>1 DEF RegisterTenant
  <2>3. tenants[t] = None
    BY <1>1 DEF RegisterTenant
  <2> HIDE DEF row
  <2>4. /\ tenants' \in [TenantIds -> TenantRow \cup {None}]
        /\ tenants'[t] # None
        /\ \A s \in TenantIds : s # t => tenants'[s] = tenants[s]
    BY <2>1, <2>2 DEF AuthTypeOK
  <2>5. nameIndex' \in [Names -> TenantIds \cup {None}]
    BY <1>1 DEF RegisterTenant, AuthTypeOK
  <2>6. QED
    BY <1>1, <2>3, <2>4, <2>5 DEF UserAdded, RegisterTenant, AddUser, NewUser
<1>2. ASSUME RegisterUser(t, u, email) PROVE UserAdded(t, u, email, "USER")
  BY <1>2 DEF RegisterUser, UserAdded, AddUser, NewUser, AuthTypeOK
<1>3. QED
  BY <1>1, <1>2

\* The four methods on a user rewrite one row.
LEMMA MethodsEditUsers ==
  ASSUME AuthTypeOK, NEW by \in UserIds, NEW u \in UserIds
  PROVE  /\ \A role \in RolesInUse :
              AssignRole(by, u, role) \/ RemoveRole(by, u, role)
                => \E row \in UserRow : UserEdited(u, row)
         /\ DeactivateUser(by, u) \/ ReactivateUser(by, u)
              => \E row \in UserRow : UserEdited(u, row)
<1>1. ASSUME users[u] # None PROVE users[u] \in UserRow
  BY <1>1 DEF AuthTypeOK
<1>2. ASSUME NEW role \in RolesInUse, AssignRole(by, u, role)
      PROVE  \E row \in UserRow : UserEdited(u, row)
  <2>1. users[u] # None /\ users[u] \in UserRow
    BY <1>1, <1>2 DEF AssignRole, MayManage
  <2>2. [users[u] EXCEPT !.roles = @ \cup {role}] \in UserRow
    BY <2>1, AuthAssumption DEF UserRow
  <2>3. UserEdited(u, [users[u] EXCEPT !.roles = @ \cup {role}])
    BY <1>2, <2>1 DEF AssignRole, UserEdited, directory, UserRow
  <2>4. QED
    BY <2>2, <2>3
<1>3. ASSUME NEW role \in RolesInUse, RemoveRole(by, u, role)
      PROVE  \E row \in UserRow : UserEdited(u, row)
  <2>1. users[u] # None /\ users[u] \in UserRow
    BY <1>1, <1>3 DEF RemoveRole, MayManage
  <2>2. [users[u] EXCEPT !.roles = @ \ {role}] \in UserRow
    BY <2>1 DEF UserRow
  <2>3. UserEdited(u, [users[u] EXCEPT !.roles = @ \ {role}])
    BY <1>3, <2>1 DEF RemoveRole, UserEdited, directory, UserRow
  <2>4. QED
    BY <2>2, <2>3
<1>4. ASSUME DeactivateUser(by, u)
      PROVE  \E row \in UserRow : UserEdited(u, row)
  <2>1. users[u] # None /\ users[u] \in UserRow
    BY <1>1, <1>4 DEF DeactivateUser, MayManage
  <2>2. [users[u] EXCEPT !.active = FALSE] \in UserRow
    BY <2>1 DEF UserRow
  <2>3. UserEdited(u, [users[u] EXCEPT !.active = FALSE])
    BY <1>4, <2>1 DEF DeactivateUser, UserEdited, directory, UserRow
  <2>4. QED
    BY <2>2, <2>3
<1>5. ASSUME ReactivateUser(by, u)
      PROVE  \E row \in UserRow : UserEdited(u, row)
  <2>1. users[u] # None /\ users[u] \in UserRow
    BY <1>1, <1>5 DEF ReactivateUser, MayManage
  <2>2. [users[u] EXCEPT !.active = TRUE] \in UserRow
    BY <2>1 DEF UserRow
  <2>3. UserEdited(u, [users[u] EXCEPT !.active = TRUE])
    BY <1>5, <2>1 DEF ReactivateUser, UserEdited, directory, UserRow
  <2>4. QED
    BY <2>2, <2>3
<1>6. QED
  BY <1>2, <1>3, <1>4, <1>5

\* deactivate_tenant switches a tenant.
LEMMA MethodsSwitchTenants ==
  ASSUME AuthTypeOK, NEW by \in UserIds, NEW t \in TenantIds, DeactivateTenant(by, t)
  PROVE  TenantSwitched
<1> DEFINE row == [tenants[t] EXCEPT !.active = FALSE]
<1>1. tenants[t] # None /\ tenants[t] \in TenantRow
  BY DEF DeactivateTenant, MayManageTenant, AuthTypeOK
<1>2. row \in TenantRow /\ row.plan = tenants[t].plan
  BY <1>1 DEF TenantRow
<1>3. row # None
  BY <1>2, AuthAssumption
<1>4. tenants' = [tenants EXCEPT ![t] = row]
  BY DEF DeactivateTenant
<1> HIDE DEF row
<1>5. QED
  BY <1>1, <1>2, <1>3, <1>4 DEF DeactivateTenant, TenantSwitched, AuthTypeOK, directory

\* Every step is of one of the three classes, or changes nothing.
LEMMA Steps ==
  ASSUME AuthTypeOK, [Next]_authVars
  PROVE  \/ \E t \in TenantIds, u \in UserIds, email \in Emails, role \in Roles :
              UserAdded(t, u, email, role)
         \/ \E u \in UserIds, row \in UserRow : UserEdited(u, row)
         \/ TenantSwitched
<1>1. CASE \E t \in TenantIds, u \in UserIds, email \in Emails :
             \/ \E name \in Names, plan \in Plans : RegisterTenant(t, name, plan, u, email)
             \/ RegisterUser(t, u, email)
  <2>1. "ADMIN" \in Roles /\ "USER" \in Roles
    BY DEF Roles
  <2>2. QED
    BY <1>1, <2>1, RegistrationsAddUsers
<1>2. CASE \E by, u \in UserIds :
             \/ \E role \in RolesInUse : AssignRole(by, u, role) \/ RemoveRole(by, u, role)
             \/ DeactivateUser(by, u)
             \/ ReactivateUser(by, u)
  BY <1>2, MethodsEditUsers
<1>3. CASE \E by \in UserIds, t \in TenantIds : DeactivateTenant(by, t)
  BY <1>3, MethodsSwitchTenants
<1>4. CASE UNCHANGED authVars
  BY <1>4 DEF authVars, TenantSwitched, AuthTypeOK
<1>5. QED
  BY <1>1, <1>2, <1>3, <1>4 DEF Next

-----------------------------------------------------------------------------
(* What the classes keep                                                   *)

\* An added user is the one new member of its tenant and breaks neither the
\* index nor the limit.
LEMMA AddingKeeps ==
  ASSUME AuthTypeOK, Housed, MembersFinite, EmailIndexExact, UserLimit,
         NEW t \in TenantIds, NEW u \in UserIds, NEW email \in Emails, NEW role \in Roles,
         UserAdded(t, u, email, role)
  PROVE  AuthTypeOK' /\ Housed' /\ MembersFinite' /\ EmailIndexExact' /\ UserLimit'
<1> DEFINE row == NewUser(t, email, role)
<1>1. row \in UserRow /\ row # None
  <2>1. row \in UserRow
    BY DEF NewUser, UserRow
  <2>2. QED
    BY <2>1, AuthAssumption
<1>2. row.tenant = t /\ row.email = email
  BY DEF NewUser
<1>3. users' = [users EXCEPT ![u] = row] /\ users[u] = None
  BY DEF UserAdded
<1> HIDE DEF row
<1>4. /\ users' \in [UserIds -> UserRow \cup {None}]
      /\ users'[u] = row
      /\ \A v \in UserIds : v # u => users'[v] = users[v]
  BY <1>1, <1>3 DEF AuthTypeOK
<1>5. AuthTypeOK'
  <2>1. emailIndex' \in [TenantIds \X Emails -> UserIds \cup {None}]
    BY DEF UserAdded, AuthTypeOK
  <2>2. QED
    BY <1>4, <2>1 DEF UserAdded, AuthTypeOK
<1>6. \A s \in TenantIds : tenants[s] # None => tenants'[s] = tenants[s]
  BY DEF UserAdded
<1>7. Housed'
  <2> SUFFICES ASSUME NEW v \in UserIds, users'[v] # None
               PROVE  tenants'[users'[v].tenant] # None
    BY DEF Housed
  <2>1. CASE v = u
    BY <1>2, <1>4, <2>1 DEF UserAdded
  <2>2. CASE v # u
    <3>1. users[v] # None /\ users[v] \in UserRow /\ users'[v] = users[v]
      BY <1>4, <2>2 DEF AuthTypeOK
    <3>2. tenants[users[v].tenant] # None /\ users[v].tenant \in TenantIds
      BY <3>1 DEF Housed, UserRow
    <3>3. QED
      BY <1>6, <3>1, <3>2
  <2>3. QED
    BY <2>1, <2>2
<1>8. Members(t)' = Members(t) \cup {u} /\ u \notin Members(t)
  BY <1>1, <1>2, <1>3, <1>4 DEF Members
<1>9. \A s \in TenantIds : s # t => Members(s)' = Members(s)
  BY <1>2, <1>3, <1>4 DEF Members
<1>10. /\ IsFiniteSet(Members(t)')
       /\ Cardinality(Members(t)') = Cardinality(Members(t)) + 1
  BY <1>8, FS_AddElement DEF MembersFinite
<1>11. MembersFinite'
  BY <1>9, <1>10 DEF MembersFinite
<1>12. tenants[t] = None => Members(t) = {}
  BY DEF Housed, Members
<1>13. EmailIndexExact'
  <2>1. EmailFree(t, email)
    <3>1. CASE tenants[t] = None
      <4>1. \A v \in UserIds : ~(users[v] # None /\ users[v].tenant = t)
        BY <1>12, <3>1 DEF Members
      <4>2. \A v \in UserIds : emailIndex[<<t, email>>] # v
        BY <4>1 DEF EmailIndexExact
      <4>3. emailIndex[<<t, email>>] \in UserIds \cup {None}
        BY DEF AuthTypeOK
      <4>4. QED
        BY <4>2, <4>3 DEF EmailFree
    <3>2. QED
      BY <3>1 DEF UserAdded
  <2>2. u # None
    BY AuthAssumption
  <2> SUFFICES ASSUME NEW s \in TenantIds, NEW e \in Emails, NEW v \in UserIds
               PROVE  emailIndex'[<<s, e>>] = v <=>
                        users'[v] # None /\ users'[v].tenant = s /\ users'[v].email = e
    BY DEF EmailIndexExact
  <2>3. emailIndex[<<s, e>>] = v <=>
          users[v] # None /\ users[v].tenant = s /\ users[v].email = e
    BY DEF EmailIndexExact
  <2>4. CASE s = t /\ e = email
    <3>1. emailIndex'[<<s, e>>] = u
      BY <2>4 DEF UserAdded, AuthTypeOK
    <3>2. ~(users[v] # None /\ users[v].tenant = s /\ users[v].email = e)
      BY <2>1, <2>3, <2>4, AuthAssumption DEF EmailFree
    <3>3. QED
      BY <1>1, <1>2, <1>4, <2>4, <3>1, <3>2
  <2>5. CASE ~(s = t /\ e = email)
    <3>1. <<s, e>> # <<t, email>>
      BY <2>5
    <3>2. emailIndex'[<<s, e>>] = emailIndex[<<s, e>>]
      BY <3>1 DEF UserAdded, AuthTypeOK
    <3>3. QED
      BY <1>2, <1>3, <1>4, <2>3, <2>5, <3>2
  <2>6. QED
    BY <2>4, <2>5
<1>14. UserLimit'
  <2> SUFFICES ASSUME NEW s \in TenantIds, tenants'[s] # None
               PROVE  Cardinality(Members(s)') <= MaxUsers[tenants'[s].plan]
    BY DEF UserLimit
  <2>1. CASE s # t
    BY <1>9, <2>1 DEF UserAdded, UserLimit
  <2>2. CASE s = t /\ tenants[t] = None
    <3>1. Cardinality(Members(t)) = 0
      BY <1>12, <2>2, FS_EmptySet
    <3>2. tenants'[t].plan \in Plans
      BY <2>2 DEF UserAdded, TenantRow
    <3>3. MaxUsers[tenants'[t].plan] \in Nat \ {0}
      BY <3>2, AuthAssumption
    <3>4. QED
      BY <1>10, <2>2, <3>1, <3>3
  <2>3. CASE s = t /\ tenants[t] # None
    <3>1. Cardinality(Members(t)) < MaxUsers[tenants[t].plan] /\ tenants' = tenants
      BY <2>3 DEF UserAdded, HasSeat
    <3>2. tenants[t].plan \in Plans
      BY <2>3 DEF AuthTypeOK, TenantRow
    <3>3. MaxUsers[tenants[t].plan] \in Nat
      BY <3>2, AuthAssumption
    <3>4. Cardinality(Members(t)) \in Nat
      BY FS_CardinalityType DEF MembersFinite
    <3>5. QED
      BY <1>10, <2>3, <3>1, <3>3, <3>4
  <2>4. QED
    BY <2>1, <2>2, <2>3
<1>15. QED
  BY <1>5, <1>7, <1>11, <1>13, <1>14

\* Rewriting a row leaves members, index and limit as they were.
LEMMA EditingKeeps ==
  ASSUME AuthTypeOK, Housed, MembersFinite, EmailIndexExact, UserLimit,
         NEW u \in UserIds, NEW row \in UserRow, UserEdited(u, row)
  PROVE  AuthTypeOK' /\ Housed' /\ MembersFinite' /\ EmailIndexExact' /\ UserLimit'
<1>1. row # None
  BY AuthAssumption
<1>2. \A v \in UserIds : /\ users'[v] = None <=> users[v] = None
                         /\ users'[v].tenant = users[v].tenant
                         /\ users'[v].email = users[v].email
  BY <1>1 DEF UserEdited, AuthTypeOK
<1>3. AuthTypeOK'
  BY DEF UserEdited, AuthTypeOK
<1>4. \A t \in TenantIds : Members(t)' = Members(t)
  BY <1>2 DEF Members
<1>5. Housed'
  BY <1>2 DEF Housed, UserEdited
<1>6. EmailIndexExact'
  <2> SUFFICES ASSUME NEW t \in TenantIds, NEW email \in Emails, NEW v \in UserIds
               PROVE  emailIndex'[<<t, email>>] = v <=>
                        users'[v] # None /\ users'[v].tenant = t /\ users'[v].email = email
    BY DEF EmailIndexExact
  <2>1. emailIndex[<<t, email>>] = v <=>
          users[v] # None /\ users[v].tenant = t /\ users[v].email = email
    BY DEF EmailIndexExact
  <2>2. emailIndex' = emailIndex
    BY DEF UserEdited
  <2>3. QED
    BY <1>2, <2>1, <2>2
<1>7. MembersFinite' /\ UserLimit'
  BY <1>4 DEF MembersFinite, UserLimit, UserEdited
<1>8. QED
  BY <1>3, <1>5, <1>6, <1>7

\* Switching a tenant disturbs none of them.
LEMMA SwitchingKeeps ==
  ASSUME Invariant, TenantSwitched
  PROVE  Invariant'
<1>1. AuthTypeOK'
  BY DEF Invariant, TenantSwitched, AuthTypeOK
<1>2. \A t \in TenantIds : Members(t)' = Members(t)
  BY DEF Members, TenantSwitched
<1>3. Housed'
  <2> SUFFICES ASSUME NEW u \in UserIds, users[u] # None
               PROVE  tenants'[users[u].tenant] # None
    BY DEF Housed, TenantSwitched
  <2>1. users[u].tenant \in TenantIds /\ tenants[users[u].tenant] # None
    BY DEF Invariant, AuthTypeOK, UserRow, Housed
  <2>2. QED
    BY <2>1 DEF TenantSwitched
<1>4. MembersFinite' /\ EmailIndexExact'
  BY <1>2 DEF Invariant, MembersFinite, EmailIndexExact, TenantSwitched
<1>5. UserLimit'
  BY <1>2 DEF Invariant, UserLimit, TenantSwitched
<1>6. AdminRemains'
  BY DEF Invariant, AdminRemains, TenantSwitched
<1>7. QED
  BY <1>1, <1>3, <1>4, <1>5, <1>6 DEF Invariant

-----------------------------------------------------------------------------
(* The last administrator                                                  *)

\* With an administrator to spare, there is one besides any given user.
LEMMA SpareAdminIsAnother ==
  ASSUME NEW t \in TenantIds, NEW u \in UserIds, HasSpareAdmin(t)
  PROVE  \E v \in ActiveAdmins(t) : v # u
<1> SUFFICES ASSUME ActiveAdmins(t) \subseteq {u} PROVE FALSE
  OBVIOUS
<1>1. IsFiniteSet({u}) /\ Cardinality({u}) = 1
  BY FS_Singleton
<1>2. Cardinality(ActiveAdmins(t)) <= 1 /\ Cardinality(ActiveAdmins(t)) \in Nat
  BY <1>1, FS_Subset, FS_CardinalityType
<1>3. QED
  BY <1>2 DEF HasSpareAdmin

\* No action takes the last active administrator of a tenant.
LEMMA AdminsStay ==
  ASSUME Invariant, Next
  PROVE  AdminRemains'
<1> DEFINE Admin(v, t) == /\ users[v] # None /\ users[v].tenant = t
                          /\ users[v].active /\ "ADMIN" \in users[v].roles
<1>0. \A t \in TenantIds : tenants[t] # None => \E v \in UserIds : Admin(v, t)
  BY DEF Invariant, AdminRemains
<1>1. ASSUME NEW t \in TenantIds, NEW u \in UserIds, NEW email \in Emails, NEW role \in Roles,
             UserAdded(t, u, email, role)
      PROVE  AdminRemains'
  <2> SUFFICES ASSUME NEW s \in TenantIds, tenants'[s] # None
               PROVE  \E v \in UserIds : Admin(v, s)'
    BY DEF AdminRemains
  <2>1. users' \in [UserIds -> UserRow \cup {None}] /\ users[u] = None
        /\ users' = [users EXCEPT ![u] = NewUser(t, email, role)]
    BY <1>1, AddingKeeps DEF UserAdded, Invariant, AuthTypeOK
  <2>2. CASE tenants[s] # None
    <3>1. PICK v \in UserIds : Admin(v, s)
      BY <1>0, <2>2
    <3>2. v # u /\ users'[v] = users[v]
      BY <2>1, <3>1 DEF Invariant, AuthTypeOK
    <3>3. QED
      BY <3>1, <3>2
  <2>3. CASE tenants[s] = None
    <3>1. s = t /\ role = "ADMIN"
      BY <1>1, <2>3 DEF UserAdded
    <3>2. users'[u] = NewUser(t, email, "ADMIN") /\ NewUser(t, email, "ADMIN") # None
      <4>1. NewUser(t, email, "ADMIN") \in UserRow
        BY DEF NewUser, UserRow, Roles
      <4>2. users'[u] = NewUser(t, email, "ADMIN")
        BY <2>1, <3>1 DEF Invariant, AuthTypeOK
      <4>3. QED
        BY <4>1, <4>2, AuthAssumption
    <3>3. QED
      BY <3>1, <3>2 DEF NewUser
  <2>4. QED
    BY <2>2, <2>3
<1>2. ASSUME NEW u \in UserIds, users[u] # None,
             NEW row \in UserRow, UserEdited(u, row),
             \/ Admin(u, users[u].tenant) => row.active /\ "ADMIN" \in row.roles
             \/ HasSpareAdmin(users[u].tenant)
      PROVE  AdminRemains'
  <2> SUFFICES ASSUME NEW t \in TenantIds, tenants[t] # None
               PROVE  \E v \in UserIds : Admin(v, t)'
    BY <1>2 DEF AdminRemains, UserEdited
  <2>1. /\ users'[u] = row /\ row.tenant = users[u].tenant /\ row # None
        /\ \A v \in UserIds : v # u => users'[v] = users[v]
    BY <1>2, AuthAssumption DEF UserEdited, Invariant, AuthTypeOK
  <2>2. CASE \E v \in UserIds : Admin(v, t) /\ v # u
    <3>1. PICK v \in UserIds : Admin(v, t) /\ v # u
      BY <2>2
    <3>2. Admin(v, t)'
      BY <2>1, <3>1
    <3>3. QED
      BY <3>2
  <2>3. CASE \A v \in UserIds : Admin(v, t) => v = u
    <3>1. Admin(u, t)
      BY <1>0, <2>3
    <3>2. ~HasSpareAdmin(t)
      <4>1. SUFFICES ASSUME HasSpareAdmin(t) PROVE FALSE
        OBVIOUS
      <4>2. PICK v \in ActiveAdmins(t) : v # u
        BY <4>1, SpareAdminIsAnother
      <4>3. v \in UserIds /\ Admin(v, t)
        BY <4>2 DEF ActiveAdmins, Members
      <4>4. QED
        BY <2>3, <4>2, <4>3
    <3>3. row.active /\ "ADMIN" \in row.roles
      BY <1>2, <3>1, <3>2
    <3>4. Admin(u, t)'
      BY <2>1, <3>1, <3>3
    <3>5. QED
      BY <3>4
  <2>4. QED
    BY <2>2, <2>3
<1>3. CASE \E t \in TenantIds, u \in UserIds, email \in Emails :
             \/ \E name \in Names, plan \in Plans : RegisterTenant(t, name, plan, u, email)
             \/ RegisterUser(t, u, email)
  <2>1. "ADMIN" \in Roles /\ "USER" \in Roles
    BY DEF Roles
  <2>2. QED
    BY <1>1, <1>3, <2>1, RegistrationsAddUsers DEF Invariant
<1>4. ASSUME NEW by \in UserIds, NEW u \in UserIds, NEW role \in RolesInUse,
             AssignRole(by, u, role)
      PROVE  AdminRemains'
  <2> DEFINE row == [users[u] EXCEPT !.roles = @ \cup {role}]
  <2>1. users[u] # None /\ users[u] \in UserRow
    BY <1>4 DEF AssignRole, MayManage, Invariant, AuthTypeOK
  <2>2. row \in UserRow
    BY <2>1, AuthAssumption DEF UserRow
  <2>3. UserEdited(u, row)
    BY <1>4, <2>1 DEF AssignRole, UserEdited, directory, UserRow
  <2>4. row.active = users[u].active /\ users[u].roles \subseteq row.roles
    BY <2>1 DEF UserRow
  <2> HIDE DEF row
  <2>5. QED
    BY <1>2, <2>1, <2>2, <2>3, <2>4
<1>5. ASSUME NEW by \in UserIds, NEW u \in UserIds, NEW role \in RolesInUse,
             RemoveRole(by, u, role)
      PROVE  AdminRemains'
  <2> DEFINE row == [users[u] EXCEPT !.roles = @ \ {role}]
  <2>1. users[u] # None /\ users[u] \in UserRow
    BY <1>5 DEF RemoveRole, MayManage, Invariant, AuthTypeOK
  <2>2. row \in UserRow
    BY <2>1 DEF UserRow
  <2>3. UserEdited(u, row)
    BY <1>5, <2>1 DEF RemoveRole, UserEdited, directory, UserRow
  <2>4. row.active = users[u].active /\ row.roles = users[u].roles \ {role}
    BY <2>1 DEF UserRow
  <2>5. role = "ADMIN" /\ role \in users[u].roles => HasSpareAdmin(users[u].tenant)
    BY <1>5 DEF RemoveRole
  <2> HIDE DEF row
  <2>6. QED
    BY <1>2, <2>1, <2>2, <2>3, <2>4, <2>5
<1>6. ASSUME NEW by \in UserIds, NEW u \in UserIds, DeactivateUser(by, u)
      PROVE  AdminRemains'
  <2> DEFINE row == [users[u] EXCEPT !.active = FALSE]
  <2>1. users[u] # None /\ users[u] \in UserRow
    BY <1>6 DEF DeactivateUser, MayManage, Invariant, AuthTypeOK
  <2>2. row \in UserRow
    BY <2>1 DEF UserRow
  <2>3. UserEdited(u, row)
    BY <1>6, <2>1 DEF DeactivateUser, UserEdited, directory, UserRow
  <2>4. "ADMIN" \in users[u].roles => HasSpareAdmin(users[u].tenant)
    BY <1>6 DEF DeactivateUser
  <2> HIDE DEF row
  <2>5. QED
    BY <1>2, <2>1, <2>2, <2>3, <2>4
<1>7. ASSUME NEW by \in UserIds, NEW u \in UserIds, ReactivateUser(by, u)
      PROVE  AdminRemains'
  <2> DEFINE row == [users[u] EXCEPT !.active = TRUE]
  <2>1. users[u] # None /\ users[u] \in UserRow
    BY <1>7 DEF ReactivateUser, MayManage, Invariant, AuthTypeOK
  <2>2. row \in UserRow
    BY <2>1 DEF UserRow
  <2>3. UserEdited(u, row)
    BY <1>7, <2>1 DEF ReactivateUser, UserEdited, directory, UserRow
  <2>4. row.active /\ row.roles = users[u].roles
    BY <2>1 DEF UserRow
  <2> HIDE DEF row
  <2>5. QED
    BY <1>2, <2>1, <2>2, <2>3, <2>4
<1>8. CASE \E by \in UserIds, t \in TenantIds : DeactivateTenant(by, t)
  BY <1>8, MethodsSwitchTenants, SwitchingKeeps DEF Invariant
<1>9. QED
  BY <1>3, <1>4, <1>5, <1>6, <1>7, <1>8 DEF Next

-----------------------------------------------------------------------------
(* The theorems                                                            *)

\* The empty service satisfies the invariant.
LEMMA InitInvariant == Init => Invariant
<1> SUFFICES ASSUME Init PROVE Invariant
  OBVIOUS
<1>1. AuthTypeOK
  BY DEF Init, AuthTypeOK
<1>2. \A t \in TenantIds : Members(t) = {}
  BY DEF Init, Members
<1>3. MembersFinite
  BY <1>2, FS_EmptySet DEF MembersFinite
<1>4. Housed /\ UserLimit /\ AdminRemains
  BY DEF Init, Housed, UserLimit, AdminRemains
<1>5. EmailIndexExact
  BY AuthAssumption DEF Init, EmailIndexExact
<1>6. QED
  BY <1>1, <1>3, <1>4, <1>5 DEF Invariant

\* Every step keeps the invariant.
LEMMA StepInvariant == Invariant /\ [Next]_authVars => Invariant'
<1> SUFFICES ASSUME Invariant, [Next]_authVars PROVE Invariant'
  OBVIOUS
<1>1. AdminRemains'
  BY AdminsStay DEF Invariant, AdminRemains, authVars
<1>2. CASE TenantSwitched
  BY <1>2, SwitchingKeeps
<1>3. CASE \E t \in TenantIds, u \in UserIds, email \in Emails, role \in Roles :
             UserAdded(t, u, email, role)
  BY <1>1, <1>3, AddingKeeps DEF Invariant
<1>4. CASE \E u \in UserIds, row \in UserRow : UserEdited(u, row)
  BY <1>1, <1>4, EditingKeeps DEF Invariant
<1>5. QED
  BY <1>2, <1>3, <1>4, Steps DEF Invariant

\* The invariant of the auth service.
LEMMA AuthInvariant == Spec => []Invariant
BY InitInvariant, StepInvariant, PTL DEF Spec

\* The four dictionaries hold what their declarations say.
THEOREM AuthTypeCorrect == Spec => []AuthTypeOK
<1>1. Invariant => AuthTypeOK
  BY DEF Invariant
<1>2. QED
  BY <1>1, AuthInvariant, PTL

\* Every tenant keeps an active administrator, whatever role changes and
\* deactivations its users order (remove_role, deactivate_user), and
\* check_permission grants that user every permission while the tenant is active
\* and none afterwards (deactivate_tenant).
THEOREM TenantsAlwaysKeepAdmins == Spec => []TenantsKeepAdmins
<1>1. Invariant => TenantsKeepAdmins
  <2> SUFFICES ASSUME Invariant, NEW t \in TenantIds, tenants[t] # None
               PROVE  \E u \in Members(t) :
                        /\ users[u].active /\ "ADMIN" \in users[u].roles
                        /\ \A p \in Permissions : CheckPermission(u, p) <=> tenants[t].active
    BY DEF TenantsKeepAdmins
  <2>1. PICK u \in UserIds : /\ users[u] # None /\ users[u].tenant = t
                             /\ users[u].active /\ "ADMIN" \in users[u].roles
    BY DEF Invariant, AdminRemains
  <2>2. ASSUME NEW p \in Permissions PROVE HasPermission(u, p)
    <3>1. ROLE_PERMISSIONS["ADMIN"] = Permissions
      BY DEF ROLE_PERMISSIONS
    <3>2. QED
      BY <2>1, <2>2, <3>1 DEF HasPermission
  <2>3. \A p \in Permissions : CheckPermission(u, p) <=> tenants[t].active
    BY <2>1, <2>2 DEF CheckPermission
  <2>4. QED
    BY <2>1, <2>3 DEF Members
<1>2. QED
  BY <1>1, AuthInvariant, PTL

\* No tenant has more users than its plan allows.
THEOREM UserLimitHolds == Spec => []UserLimit
<1>1. Invariant => UserLimit
  BY DEF Invariant
<1>2. QED
  BY <1>1, AuthInvariant, PTL

\* The e-mail index and the users agree both ways.
THEOREM EmailIndexIsExact == Spec => []EmailIndexExact
<1>1. Invariant => EmailIndexExact
  BY DEF Invariant
<1>2. QED
  BY <1>1, AuthInvariant, PTL
=============================================================================
