--------------------------- MODULE AgentEnrollment --------------------------
(***************************************************************************)
(* Self-registration of agents (POST /agents/register, api.py): a sliding  *)
(* window per client IP kept in memory, then a row in gateway_access_tokens*)
(* and a row in registered_agents, each its own transaction. The handler   *)
(* does not await, so nothing runs between the two rows, but the process   *)
(* may die there. An agent is identified with the token made up for it.    *)
(* An admin manages the same table meanwhile: POST /access/tokens writes   *)
(* the whole row of any token it knows, /revoke switches one off.          *)
(***************************************************************************)
EXTENDS AuthzStore, FiniteSets

CONSTANTS
  Agents,     \* api tokens that secrets.token_urlsafe may return
  IPs,        \* client addresses
  TenantOf,   \* agent -> tenant id, eight hex digits of a hash of the agent id
  PostedRows, \* rows an AccessTokenCreate asks for
  Limit,      \* _AGENT_REGISTER_LIMIT
  Window,     \* _AGENT_REGISTER_WINDOW
  MaxTime,    \* bound on the clock
  MaxBoots    \* bound on the number of starts

VARIABLES
  clock,      \* time.monotonic()
  boot,       \* how many times the process has started
  stamps,     \* _agent_register_timestamps, in memory: who was let through when
  enrolling,  \* the agent whose token is stored and whose row is not, or None
  agents,     \* registered_agents
  grants,     \* history: each registration let through, with when and where
  reposted    \* history: the agents whose token an admin posted once more

enrollmentVars == <<tokens, clock, boot, stamps, enrolling, agents, grants, reposted>>

ASSUME EnrollmentAssumption ==
  /\ Agents \subseteq Tokens \ {AdminToken}
  /\ TenantOf \in [Agents -> Tenants]
  /\ None \notin TokenRow
  /\ PostedRows \subseteq {row \in TokenRow : ~row.revoked}
  /\ Limit \in Nat /\ Window \in Nat /\ MaxTime \in Nat /\ MaxBoots \in Nat

AgentRow(a) ==
  [tenant |-> TenantOf[a], role |-> "tenant-operator",
   scopes |-> {"gateway:read", "gateway:write", "gateway:plan", "gateway:execute"},
   enabled |-> TRUE, expiry |-> "never", revoked |-> FALSE]

\* Of the list of a client the code asks the length and what is recent: a set
\* of times, each told from an equal one by the agent that it let through.
Stamp == [agent : Agents, at : 0..MaxTime]

Grant == [agent : Agents, ip : IPs, at : 0..MaxTime, boot : 0..MaxBoots]

EnrollmentTypeOK ==
  /\ TokensTypeOK
  /\ clock \in 0..MaxTime
  /\ boot \in 0..MaxBoots
  /\ stamps \in [IPs -> SUBSET Stamp]
  /\ enrolling \in Agents \cup {None}
  /\ agents \subseteq Agents
  /\ grants \subseteq Grant
  /\ reposted \subseteq Agents

EnrollmentInit ==
  /\ AuthzInit
  /\ clock = 0
  /\ boot = 0
  /\ stamps = [ip \in IPs |-> {}]
  /\ enrolling = None
  /\ agents = {}
  /\ grants = {}
  /\ reposted = {}

-----------------------------------------------------------------------------
\* The timestamps the list comprehension keeps.
Recent(ip) == {t \in stamps[ip] : clock - t.at < Window}

\* Faulty check: the pruned list is stored, the new timestamp goes to a copy.
RateCheckForgetful(a, ip) ==
  /\ Cardinality(Recent(ip)) < Limit
  /\ stamps' = [stamps EXCEPT ![ip] = Recent(ip)]

\* _check_agent_register_rate lets the client through.
RateCheck(a, ip) ==
  /\ Cardinality(Recent(ip)) < Limit
  /\ stamps' = [stamps EXCEPT ![ip] = Recent(ip) \cup {[agent |-> a, at |-> clock]}]

\* _register_agent_impl up to the token; a is fresh.
Enrol(a, ip) ==
  /\ enrolling = None
  /\ tokens[a] = None
  /\ RateCheck(a, ip)
  /\ UpsertToken(a, AgentRow(a))
  /\ enrolling' = a
  /\ grants' = grants \cup {[agent |-> a, ip |-> ip, at |-> clock, boot |-> boot]}
  /\ UNCHANGED <<clock, boot, agents, reposted>>

\* Faulty insert: it also runs when nothing is being enrolled.
StoreUnguarded ==
  /\ agents' = agents \cup {enrolling}
  /\ enrolling' = None
  /\ UNCHANGED <<tokens, clock, boot, stamps, grants, reposted>>

\* The rest of it: INSERT INTO registered_agents.
StoreAgent ==
  /\ enrolling # None
  /\ agents' = agents \cup {enrolling}
  /\ enrolling' = None
  /\ UNCHANGED <<tokens, clock, boot, stamps, grants, reposted>>

\* Faulty refusal: the token was stored before the window was looked at.
RefuseLate(a, ip) ==
  /\ enrolling = None
  /\ tokens[a] = None
  /\ Cardinality(Recent(ip)) >= Limit
  /\ UpsertToken(a, AgentRow(a))
  /\ stamps' = [stamps EXCEPT ![ip] = Recent(ip)]
  /\ UNCHANGED <<clock, boot, enrolling, agents, grants, reposted>>

\* 429: the pruned window is stored, nothing else.
RefuseAgent(a, ip) ==
  /\ enrolling = None
  /\ Cardinality(Recent(ip)) >= Limit
  /\ stamps' = [stamps EXCEPT ![ip] = Recent(ip)]
  /\ UNCHANGED <<tokens, clock, boot, enrolling, agents, grants, reposted>>

\* The handler is free and the caller's token is an admin's.
AdminCalls == enrolling = None /\ \E by \in Tokens : IsAdmin(by)

\* create_access_token: whatever the row of that token was, it is the posted
\* one now. Nobody posts a secret that has not been made up yet.
PostToken(t, row) ==
  /\ AdminCalls
  /\ t \in Agents => tokens[t] # None
  /\ UpsertToken(t, row)
  /\ reposted' = reposted \cup ({t} \cap Agents)
  /\ UNCHANGED <<clock, boot, stamps, enrolling, agents, grants>>

\* revoke_access_token: the row stays.
RevokeAccess(t) ==
  /\ AdminCalls
  /\ RevokeToken(t)
  /\ UNCHANGED <<clock, boot, stamps, enrolling, agents, grants, reposted>>

\* A posted expires_at passes.
AccessExpires(t) ==
  /\ ExpireToken(t)
  /\ UNCHANGED <<clock, boot, stamps, enrolling, agents, grants, reposted>>

Tick ==
  /\ clock < MaxTime
  /\ clock' = clock + 1
  /\ UNCHANGED <<tokens, boot, stamps, enrolling, agents, grants, reposted>>

\* The process dies and is started again: the tables stay, memory does not.
EnrollmentCrash ==
  /\ boot < MaxBoots
  /\ boot' = boot + 1
  /\ stamps' = [ip \in IPs |-> {}]
  /\ enrolling' = None
  /\ UpsertToken(AdminToken, BootstrapRow)
  /\ UNCHANGED <<clock, agents, grants, reposted>>

EnrollmentNext ==
  \/ \E a \in Agents, ip \in IPs : Enrol(a, ip) \/ RefuseAgent(a, ip)
  \/ \E t \in Tokens : \/ \E row \in PostedRows : PostToken(t, row)
                       \/ RevokeAccess(t)
                       \/ AccessExpires(t)
  \/ StoreAgent
  \/ Tick
  \/ EnrollmentCrash

EnrollmentSpec == EnrollmentInit /\ [][EnrollmentNext]_enrollmentVars

-----------------------------------------------------------------------------
(* Properties                                                              *)

RevokedRow(a) == [AgentRow(a) EXCEPT !.enabled = FALSE, !.revoked = TRUE]

\* Every agent of the directory has its token in the table, and the row is the
\* one its registration wrote, bound to its own tenant, or that row revoked:
\* only an admin who posts the same token again can make it anything else.
AgentsHoldTokens ==
  \A a \in agents :
    /\ tokens[a] # None
    /\ a \in reposted \/ tokens[a] \in {AgentRow(a), RevokedRow(a)}

\* A token without an agent row comes from a crash between the two rows, never
\* from a refused registration or from one that came to its end.
OrphansOnlyFromCrash ==
  \A a \in Agents : tokens[a] # None /\ a \notin agents /\ enrolling # a =>
    \E g \in grants : g.agent = a /\ g.boot < boot

GrantsInWindow(ip) == {g \in grants : g.ip = ip /\ clock - g.at < Window}

\* The pruned list counts exactly the registrations this process let through
\* in the last window: no more than Limit of them, and nobody is refused while
\* there are fewer.
WindowExact ==
  \A ip \in IPs :
    /\ Cardinality(Recent(ip)) = Cardinality({g \in GrantsInWindow(ip) : g.boot = boot})
    /\ Cardinality(Recent(ip)) <= Limit
=============================================================================
