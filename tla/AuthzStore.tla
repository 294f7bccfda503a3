----------------------------- MODULE AuthzStore -----------------------------
(***************************************************************************)
(* Access tokens: the table gateway_access_tokens and the checks every     *)
(* authenticated handler runs on the row it reads (authz.py, api.py).      *)
(* A storage call is one SQL statement under one lock, hence one step.     *)
(***************************************************************************)
EXTENDS GatewayTypes

VARIABLE tokens   \* token -> row, None when the table has no such row

Roles == {"admin", "tenant-operator", "reader"}

Scopes == {"gateway:read", "gateway:write", "gateway:plan", "gateway:execute",
           "gateway:policy:write", "gateway:codemode:search", "gateway:codemode:execute",
           "gateway:*"}

\* expires_at: NULL, a time that is still ahead, or a time that has passed.
Expiries == {"never", "ahead", "passed"}

TokenRow == [tenant  : Tenants \cup {None},
             role    : Roles,
             scopes  : SUBSET Scopes,
             enabled : BOOLEAN,
             expiry  : Expiries,
             revoked : BOOLEAN]

TokensTypeOK == tokens \in [Tokens -> TokenRow \cup {None}]

-----------------------------------------------------------------------------
\* The row _bootstrap_access_tokens writes each time the module is loaded.
BootstrapRow == [tenant |-> None, role |-> "admin", scopes |-> {"gateway:*"},
                 enabled |-> TRUE, expiry |-> "never", revoked |-> FALSE]

\* Loading the module on an empty database.
AuthzInit == tokens = [t \in Tokens |-> IF t = AdminToken THEN BootstrapRow ELSE None]

\* INSERT ... ON CONFLICT(token) DO UPDATE: every column takes the new value,
\* enabled and revoked_at included.
UpsertToken(t, row) == tokens' = [tokens EXCEPT ![t] = row]

\* The row stays; enabled is cleared and revoked_at set. No row: nothing (404).
RevokeToken(t) ==
  /\ tokens[t] # None
  /\ tokens' = [tokens EXCEPT ![t].enabled = FALSE, ![t].revoked = TRUE]

\* The wall clock passes the expires_at of a token.
ExpireToken(t) ==
  /\ tokens[t] # None
  /\ tokens[t].expiry = "ahead"
  /\ tokens' = [tokens EXCEPT ![t].expiry = "passed"]

-----------------------------------------------------------------------------
\* _require_actor: a row exists, is enabled and has not expired.
Authenticated(t) ==
  /\ tokens[t] # None
  /\ tokens[t].enabled
  /\ tokens[t].expiry # "passed"

\* require_scope; it repeats the checks on the row before role, scope and
\* tenant. A tenant of None skips the tenant check.
InScope(t, scope, tenant) ==
  LET row == tokens[t] IN
  /\ row.enabled
  /\ ~row.revoked
  /\ row.expiry # "passed"
  /\ \/ row.role = "admin"
     \/ /\ {scope, "gateway:*"} \cap row.scopes # {}
        /\ tenant = None \/ row.tenant \in {None, tenant}

Permitted(t, scope, tenant) == Authenticated(t) /\ InScope(t, scope, tenant)

\* The admin-only handlers test the role and run no scope check.
IsAdmin(t) == Authenticated(t) /\ tokens[t].role = "admin"
=============================================================================
