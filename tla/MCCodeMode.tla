----------------------------- MODULE MCCodeMode -----------------------------
(* Two submissions against one server. Three rules that overlap on part of   *)
(* the requests, so that order, overwriting and removal matter: an allow     *)
(* rule of the tenant, a deny rule, and an approval rule, for every action,  *)
(* that an admin may turn over at any time.                                  *)
EXTENDS CodeMode, TLC

CONSTANTS a, run, other, op, adm, ok, no, ask

MCServers == {1}

MCTokenRows ==
  {[tenant |-> a, role |-> "tenant-operator", scopes |-> {"gateway:codemode:search", "gateway:codemode:execute"},
    enabled |-> TRUE, expiry |-> "never", revoked |-> FALSE]}

MCRule(name, effect, action, tenant) ==
  [name |-> name, effect |-> effect, actions |-> {action},
   resources |-> {Star}, tenants |-> {tenant}]

MCRules ==
  {MCRule(ok, "allow", CodeExecute, a), MCRule(no, "deny", CodeExecute, Star),
   MCRule(ask, "allow", Star, Star), MCRule(ask, "deny", Star, Star)}

Symmetry == Permutations(Events)
=============================================================================
