------------------------------ MODULE MCGateway -----------------------------
(* The gateway on small tables. MCGateway.cfg: two requests on one server   *)
(* id, which two tenants register in turn. MCRoutes.cfg: one request, two   *)
(* server ids, every selection strategy.                                    *)
EXTENDS Gateway, TLC

CONSTANTS a, b, op, m1, r1, r2, cmd, web, sock

Operator(expiry) ==
           [tenant |-> a, role |-> "tenant-operator",
             scopes |-> {"gateway:plan", "gateway:execute", "gateway:write"},
             enabled |-> TRUE, expiry |-> expiry, revoked |-> FALSE]

MCTokens == {Operator("never")}
MCExpiringTokens == {Operator("ahead")}

MCScheme == [e \in {cmd, web, sock} |->
               IF e = cmd THEN "command" ELSE IF e = web THEN "http" ELSE "ws"]

Server(tenant, transport, e, priority) ==
  [tenant |-> tenant, transport |-> transport, endpoint |-> e,
   health |-> "up", priority |-> priority]

Allow(name, tenants) ==
  [name |-> name, effect |-> "allow", actions |-> {m1}, resources |-> {Star},
   tenants |-> tenants]

Deny(name, tenants) == [Allow(name, tenants) EXCEPT !.effect = "deny"]

\* One server id, registered by tenant a over stdio and by tenant b over http.
OneId == {1}
OneIdRows == {Server(a, "stdio", cmd, 1), Server(b, "streamable-http", web, 1)}
MCRules == {Allow(r1, {}), Deny(r1, {a})}

Symmetry == Permutations(Requests)

\* Two server ids of tenant a, with different priorities, and a ws server.
TwoIds == {1, 2}
TwoIdRows == {Server(a, "sse", web, 1), Server(a, "stdio", cmd, 2), Server(b, "ws", sock, 1),
              Server(a, "stdio", web, 1)}
MCRouteRules == {Allow(r1, {a, b}), Deny(r2, {a})}
=============================================================================
