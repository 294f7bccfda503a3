--------------------------- MODULE GatewayRegistry --------------------------
(***************************************************************************)
(* The server registry (registry.py): the table gateway_servers and the    *)
(* route selection that dry-run planning uses. Weights are abstracted: a   *)
(* weighted draw may land on any candidate, each weight being at least 1.  *)
(***************************************************************************)
EXTENDS GatewayTypes

CONSTANTS
  Endpoints,   \* endpoint strings
  Scheme,      \* endpoint -> "command", "http" or "ws" (urlparse of the string)
  Priorities   \* priorities a registration may carry

VARIABLE servers   \* server_id -> row, None when the table has no such row

Transports == {"stdio", "sse", "streamable-http", "ws"}

Health == {"up", "down"}   \* the column healthy

Strategies == {"preferred", "weighted", "failover"}

ServerRow == [tenant    : Tenants,
              transport : Transports,
              endpoint  : Endpoints,
              health    : Health,
              priority  : Priorities]

ServersTypeOK == servers \in [Servers -> ServerRow \cup {None}]

ASSUME RegistryAssumption ==
  /\ Scheme \in [Endpoints -> {"command", "http", "ws"}]
  /\ Priorities \subseteq Nat

-----------------------------------------------------------------------------
\* validate_transport_endpoint accepts the pair.
ValidEndpoint(transport, e) ==
  \/ transport = "stdio" /\ Scheme[e] = "command"
  \/ transport \in {"sse", "streamable-http"} /\ Scheme[e] = "http"
  \/ transport = "ws" /\ Scheme[e] = "ws"

RegistryInit == servers = [s \in Servers |-> None]

\* GatewayRegistry.register: an upsert of every column. RegisteredServer is
\* built with healthy = True, so registering again also marks it healthy.
Register(s, row) == servers' = [servers EXCEPT ![s] = [row EXCEPT !.health = "up"]]

\* GatewayRegistry.set_health: UPDATE ... WHERE server_id = ?.
SetHealth(s, health) ==
  servers' = [servers EXCEPT ![s] = IF @ = None THEN None
                                    ELSE [@ EXCEPT !.health = health]]

-----------------------------------------------------------------------------
\* list_servers(tenant_id), then the healthy ones.
Candidates(tenant) ==
  {s \in Servers : servers[s] # None /\ servers[s].tenant = tenant /\ servers[s].health = "up"}

\* (priority, server_id) in the order sorted() gives.
Before(a, b) == \/ servers[a].priority < servers[b].priority
                \/ servers[a].priority = servers[b].priority /\ a <= b

\* Faulty selection: the preferred server is taken before the health filter.
PickPreferredFirst(tenant, strategy, preferred) ==
  IF preferred # None /\ servers[preferred] # None /\ servers[preferred].tenant = tenant
    THEN {preferred}
    ELSE {s \in Candidates(tenant) : \A c \in Candidates(tenant) : Before(s, c)}

\* pick_server(tenant, strategy, preferred): the servers it may return, none
\* when it returns None.
PickServer(tenant, strategy, preferred) ==
  LET cands == Candidates(tenant) IN
  CASE preferred \in cands      -> {preferred}
    [] preferred \notin cands /\ strategy = "weighted" -> cands
    [] preferred \notin cands /\ strategy = "failover" ->
         {s \in cands : \A c \in cands : Before(s, c)}
    [] preferred \notin cands /\ strategy = "preferred" ->
         {s \in cands : \A c \in cands : s <= c}
=============================================================================
