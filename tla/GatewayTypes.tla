---------------------------- MODULE GatewayTypes ----------------------------
(***************************************************************************)
(* The vocabulary shared by the modules of the AgentGate gateway           *)
(* (src/src/mcp_gateway): the identifiers that appear in its tables and    *)
(* requests, and the markers the code writes as None and "*".              *)
(***************************************************************************)
EXTENDS Integers, Sequences

CONSTANTS
  Tenants,     \* tenant_id strings
  Servers,     \* server_id strings; numbers, compared the way the ids sort
  Methods,     \* method / action strings ("tools/call", "codemode:execute", ...)
  Tokens,      \* bearer values, primary keys of gateway_access_tokens
  AdminToken,  \* the value of MCP_GATEWAY_ADMIN_TOKEN
  RuleNames,   \* primary keys of gateway_policy_rules
  Star,        \* the wildcard "*"
  None         \* NULL / None

ASSUME VocabularyAssumption ==
  /\ Servers \subseteq Nat
  /\ AdminToken \in Tokens
  /\ None \notin Tenants \cup Servers \cup Methods \cup Tokens \cup RuleNames
  /\ Star \notin Tenants \cup Servers \cup Methods
=============================================================================
