------------------------------ MODULE Gateway -------------------------------
(***************************************************************************)
(* The AgentGate gateway: the handlers of api.py over the three stores.    *)
(*                                                                         *)
(* The handlers are coroutines on one event loop and every storage call is *)
(* synchronous, so a handler is one step - except POST /routes/execute,    *)
(* which awaits the transport adapter. Between Execute and AdapterReturns  *)
(* any other handler may run, tokens may expire and the process may die;   *)
(* the handler then goes on with the actor, the server row and the policy  *)
(* evaluation it read before the await: `decided' and `route' hold them.   *)
(*                                                                         *)
(* A management request that fails a check (401, 403, 404, 400) changes    *)
(* nothing and is a stuttering step. A dry-run or execute request that     *)
(* fails one is shown, because it leaves no audit row.                     *)
(***************************************************************************)
EXTENDS AuthzStore, PolicyEngine, GatewayRegistry

CONSTANTS
  Requests,        \* dry-run and execute requests; also their event_id
  TokenPayloads,   \* rows posted to POST /access/tokens
  ServerPayloads   \* rows posted to POST /servers

VARIABLES
  stage,     \* request -> where its handler stands
  decided,   \* request -> the verdict its handler reached, or None
  route,     \* request -> [transport, endpoint] the adapter was called with, or None
  audit      \* gateway_audit_log

vars == <<tokens, rules, servers, stage, decided, route, audit>>
stores == <<tokens, rules, servers>>
handlers == <<stage, decided, route, audit>>

Stages == {"idle", "refused", "calling", "answered", "lost"}

Verdict == [actor    : Tokens,
            tenant   : Tenants,
            action   : Methods,
            server   : Servers \cup {None},
            health   : Health \cup {None},
            decision : Effects,
            rule     : RuleNames \cup {None}]

Route == [transport : Transports, endpoint : Endpoints]

AuditRow == [event : Requests, verdict : Verdict,
             status : {"planned", "denied", "allowed", "error"}]

TypeOK ==
  /\ TokensTypeOK
  /\ RulesTypeOK
  /\ ServersTypeOK
  /\ stage \in [Requests -> Stages]
  /\ decided \in [Requests -> Verdict \cup {None}]
  /\ route \in [Requests -> Route \cup {None}]
  /\ audit \subseteq AuditRow

ASSUME GatewayAssumption ==
  /\ TokenPayloads \subseteq TokenRow
  /\ \A row \in TokenPayloads : ~row.revoked
  /\ ServerPayloads \subseteq ServerRow
  /\ None \notin TokenRow \cup ServerRow \cup Verdict \cup Route

Init ==
  /\ AuthzInit
  /\ PolicyInit
  /\ RegistryInit
  /\ stage = [r \in Requests |-> "idle"]
  /\ decided = [r \in Requests |-> None]
  /\ route = [r \in Requests |-> None]
  /\ audit = {}

-----------------------------------------------------------------------------
(* Management handlers                                                     *)

\* POST /access/tokens
CreateAccessToken(by, t, row) ==
  /\ IsAdmin(by)
  /\ UpsertToken(t, row)
  /\ UNCHANGED <<rules, servers, handlers>>

\* POST /access/tokens/{token}/revoke
RevokeAccessToken(by, t) ==
  /\ IsAdmin(by)
  /\ RevokeToken(t)
  /\ UNCHANGED <<rules, servers, handlers>>

\* POST /servers: only the tenant of the payload is checked, not the owner of
\* a row already there.
RegisterServer(by, s, row) ==
  /\ Permitted(by, "gateway:write", row.tenant)
  /\ ValidEndpoint(row.transport, row.endpoint)
  /\ Register(s, row)
  /\ UNCHANGED <<tokens, rules, handlers>>

\* POST /servers/{server_id}/health
SetServerHealth(by, s, health) ==
  /\ Authenticated(by)
  /\ servers[s] # None
  /\ InScope(by, "gateway:write", servers[s].tenant)
  /\ SetHealth(s, health)
  /\ UNCHANGED <<tokens, rules, handlers>>

\* A posted tenant list that is empty is stored as NULL: every tenant.
Posted(rule) == [rule EXCEPT !.tenants = IF @ = {} THEN {Star} ELSE @]

\* POST /policy/rules
CreatePolicyRule(by, rule) ==
  /\ Permitted(by, "gateway:policy:write", None)
  /\ AddRule(Posted(rule))
  /\ UNCHANGED <<tokens, servers, handlers>>

\* DELETE /policy/rules/{name}
DeletePolicyRule(by, name) ==
  /\ Permitted(by, "gateway:policy:write", None)
  /\ RemoveRule(name)
  /\ UNCHANGED <<tokens, servers, handlers>>

-----------------------------------------------------------------------------
(* Requests                                                                *)

\* A 401, 403 or 404: the handler raises before anything is stored.
Refuse(r) ==
  /\ stage[r] = "idle"
  /\ stage' = [stage EXCEPT ![r] = "refused"]
  /\ UNCHANGED <<stores, decided, route, audit>>

\* _store_audit_entry / _store_execute_audit, and the response.
Answer(r, v, status) ==
  /\ stage' = [stage EXCEPT ![r] = "answered"]
  /\ decided' = [decided EXCEPT ![r] = v]
  /\ audit' = audit \cup {[event |-> r, verdict |-> v, status |-> status]}
  /\ UNCHANGED <<stores, route>>

VerdictOf(t, tenant, m, s, health, evaluation) ==
  [actor |-> t, tenant |-> tenant, action |-> m, server |-> s, health |-> health,
   decision |-> evaluation.decision, rule |-> evaluation.rule]

Denied == [decision |-> "deny", rule |-> None]

\* Faulty route_dry_run: any matching allow rule is enough.
PlanAnyAllow(t, tenant, m, s) ==
  LET q == [action |-> m, resource |-> s, tenant |-> tenant]
      allows == {i \in Matching(rules, q) : rules[i].effect = "allow"}
  IN IF servers[s] = None \/ allows = {} THEN VerdictOf(t, tenant, m, s, None, Denied)
     ELSE VerdictOf(t, tenant, m, s, servers[s].health,
            [decision |-> "allow", rule |-> rules[Least(allows)].name])

\* route_dry_run once a server is named: not registered, unhealthy, or
\* evaluated for the tenant of the request.
PlanAt(t, tenant, m, s) ==
  IF servers[s] = None THEN VerdictOf(t, tenant, m, None, None, Denied)
  ELSE IF servers[s].health = "down" THEN VerdictOf(t, tenant, m, s, "down", Denied)
  ELSE VerdictOf(t, tenant, m, s, servers[s].health,
         Evaluate(rules, [action |-> m, resource |-> s, tenant |-> tenant]))

\* route_dry_run: the target if one is named, else what pick_server may return.
Plans(t, tenant, m, target, strategy, preferred) ==
  LET picks == IF target # None THEN {target}
               ELSE PickServer(tenant, strategy, preferred)
  IN IF picks = {} THEN {VerdictOf(t, tenant, m, None, None, Denied)}
     ELSE {PlanAt(t, tenant, m, s) : s \in picks}

\* POST /routes/dry-run
DryRun(r, t, tenant, m, target, strategy, preferred) ==
  /\ stage[r] = "idle"
  /\ Permitted(t, "gateway:plan", tenant)
  /\ \E v \in Plans(t, tenant, m, target, strategy, preferred) : Answer(r, v, "planned")

DryRunRefused(r, t, tenant) ==
  /\ ~Permitted(t, "gateway:plan", tenant)
  /\ Refuse(r)

\* route_execute up to the evaluation: the request is for the tenant the
\* server is registered under; its health is recorded and not tested.
ExecuteVerdict(t, s, m) ==
  LET row == servers[s] IN
  VerdictOf(t, row.tenant, m, s, row.health,
    Evaluate(rules, [action |-> m, resource |-> s, tenant |-> row.tenant]))

MayExecute(t, s) ==
  /\ Authenticated(t)
  /\ servers[s] # None
  /\ InScope(t, "gateway:execute", servers[s].tenant)

\* The adapter is called with the row's transport and endpoint; the handler
\* awaits it.
Send(r, v) ==
  /\ stage' = [stage EXCEPT ![r] = "calling"]
  /\ decided' = [decided EXCEPT ![r] = v]
  /\ route' = [route EXCEPT ![r] = [transport |-> servers[v.server].transport,
                                    endpoint |-> servers[v.server].endpoint]]
  /\ UNCHANGED <<stores, audit>>

\* POST /routes/execute up to its await; "ws" has no adapter.
Execute(r, t, s, m, dry) ==
  /\ stage[r] = "idle"
  /\ MayExecute(t, s)
  /\ LET v == ExecuteVerdict(t, s, m) IN
     \/ v.decision = "deny" /\ Answer(r, v, "denied")
     \/ v.decision = "allow" /\ dry /\ Answer(r, v, "allowed")
     \/ v.decision = "allow" /\ ~dry /\ servers[s].transport = "ws" /\ Answer(r, v, "error")
     \/ v.decision = "allow" /\ ~dry /\ servers[s].transport # "ws" /\ Send(r, v)

ExecuteRefused(r, t, s) ==
  /\ ~MayExecute(t, s)
  /\ Refuse(r)

\* Faulty endings: an audit row built from the tables as they are after the
\* await; no audit row when the adapter failed.
ConcludeReread(r, status) ==
  /\ stage[r] = "calling"
  /\ stage' = [stage EXCEPT ![r] = "answered"]
  /\ audit' = audit \cup
       {[event |-> r, status |-> status,
         verdict |-> ExecuteVerdict(decided[r].actor, decided[r].server, decided[r].action)]}
  /\ UNCHANGED <<stores, decided, route>>

ConcludeQuietly(r, status) ==
  /\ stage[r] = "calling"
  /\ stage' = [stage EXCEPT ![r] = "answered"]
  /\ audit' = IF status = "error" THEN audit
              ELSE audit \cup {[event |-> r, verdict |-> decided[r], status |-> status]}
  /\ UNCHANGED <<stores, decided, route>>

\* The rest of route_execute: the audit row is written from what was read
\* before the await.
Conclude(r, status) == stage[r] = "calling" /\ Answer(r, decided[r], status)

\* The adapter returns a result or maps a failure to an error.
AdapterReturns(r, status) == Conclude(r, status)

\* Faulty timeouts: a status of its own; none around a subprocess.
TimesOutAsTimeout(r) == Conclude(r, "timeout")

TimesOutUnlessStdio(r) ==
  /\ stage[r] = "calling"
  /\ route[r].transport # "stdio"
  /\ Answer(r, decided[r], "error")

\* The adapter gives up on a silent server: asyncio.wait_for around the
\* subprocess for stdio, httpx's timeout for the others.
AdapterTimesOut(r) == Conclude(r, "error")

-----------------------------------------------------------------------------
(* The process dies: the awaiting handlers are gone and the tables stay.   *)
(* Loading the module again upserts the bootstrap token. (CrashAndResend   *)
(* is a faulty restart that takes up the calls again.)                     *)
CrashAndResend ==
  /\ stage' = [r \in Requests |-> IF stage[r] = "calling" THEN "idle" ELSE stage[r]]
  /\ UpsertToken(AdminToken, BootstrapRow)
  /\ UNCHANGED <<rules, servers, decided, route, audit>>

CrashAndRestart ==
  /\ stage' = [r \in Requests |-> IF stage[r] = "calling" THEN "lost" ELSE stage[r]]
  /\ UpsertToken(AdminToken, BootstrapRow)
  /\ UNCHANGED <<rules, servers, decided, route, audit>>

Management(by) ==
  \/ \E t \in Tokens : \/ \E row \in TokenPayloads : CreateAccessToken(by, t, row)
                       \/ RevokeAccessToken(by, t)
  \/ \E s \in Servers : \/ \E row \in ServerPayloads : RegisterServer(by, s, row)
                        \/ \E health \in Health : SetServerHealth(by, s, health)
  \/ \E rule \in RulePayloads : CreatePolicyRule(by, rule)
  \/ \E name \in RuleNames : DeletePolicyRule(by, name)

Request(r, t) ==
  \/ \E tenant \in Tenants :
       \/ DryRunRefused(r, t, tenant)
       \/ \E m \in Methods, target, preferred \in Servers \cup {None}, strategy \in Strategies :
            DryRun(r, t, tenant, m, target, strategy, preferred)
  \/ \E s \in Servers :
       \/ ExecuteRefused(r, t, s)
       \/ \E m \in Methods, dry \in BOOLEAN : Execute(r, t, s, m, dry)

Next ==
  \/ \E t \in Tokens : \/ Management(t)
                       \/ ExpireToken(t) /\ UNCHANGED <<rules, servers, handlers>>
                       \/ \E r \in Requests : Request(r, t)
  \/ \E r \in Requests : \/ \E status \in {"allowed", "error"} : AdapterReturns(r, status)
                         \/ AdapterTimesOut(r)
  \/ CrashAndRestart

Spec == Init /\ [][Next]_vars

\* asyncio.wait_for bounds a stdio call; httpx's timeout bounds only the gap
\* between two chunks, so nothing bounds an http or sse call that trickles.
StdioTimesOut(r) == route[r] # None /\ route[r].transport = "stdio" /\ AdapterTimesOut(r)

FairSpec == Spec /\ \A r \in Requests : WF_vars(StdioTimesOut(r))

-----------------------------------------------------------------------------
(* Properties                                                              *)

\* Every answered request has one audit row and no other request has any: an
\* execute that is refused, still out, or cut off by a crash left none.
RecordedExactlyOnce ==
  /\ \A a, b \in audit : a.event = b.event => a = b
  /\ \A r \in Requests : stage[r] = "answered" <=> \E a \in audit : a.event = r

\* A call is out only for a request decided "allow", with its adapter chosen; a
\* request that is waiting or was refused carries no decision.
HandlersOK ==
  \A r \in Requests :
    /\ stage[r] \in {"idle", "refused"} => decided[r] = None /\ route[r] = None
    /\ stage[r] \notin {"idle", "refused"} => decided[r] \in Verdict
    /\ stage[r] = "calling" => route[r] # None
    /\ route[r] # None => decided[r].decision = "allow"

\* An audit row tells what the request was decided on - tenant, health and
\* rule as read before the await - whatever re-registrations, rule edits and
\* token changes happened while the call was out.
RecordsCarryDecision == \A a \in audit : a.verdict = decided[a.event]

\* The authentication check (enabled) and the scope check (revoked_at) never
\* disagree: no sequence of creations and revocations leaves a token that
\* authenticates and is then refused as revoked.
StatusCoherent == \A t \in Tokens : Authenticated(t) => ~tokens[t].revoked

\* A request is decided only for a token that is in force at that moment; the
\* requests that were out when it expired or was revoked still conclude.
OnlyTokensInForceDecide ==
  [][\A r \in Requests :
       stage[r] = "idle" /\ decided'[r] # None =>
         LET row == tokens[decided'[r].actor] IN
         row # None /\ ~row.revoked /\ row.expiry # "passed"]_vars

\* Selection answers whenever the tenant has a healthy server, and only with
\* such servers; only the weighted strategy has a choice.
SelectionSound ==
  \A tenant \in Tenants, strategy \in Strategies, preferred \in Servers \cup {None} :
    LET picks == PickServer(tenant, strategy, preferred) IN
    /\ picks \subseteq Candidates(tenant)
    /\ picks = {} <=> Candidates(tenant) = {}
    /\ strategy # "weighted" => \A s, u \in picks : s = u

\* What dry-run plans for a named server, asked for the server's own tenant,
\* holds when it allows: execute then takes the same rule and is not denied.
PlanPredictsExecute ==
  \A t \in Tokens, s \in Servers, m \in Methods :
    servers[s] # None =>
      LET plan == PlanAt(t, servers[s].tenant, m, s) IN
      plan.decision = "allow" => ExecuteVerdict(t, s, m) = plan

\* A call over stdio always ends in an audit row, unless the process dies.
StdioCallsConclude ==
  \A r \in Requests :
    stage[r] = "calling" /\ route[r].transport = "stdio" ~> stage[r] \in {"answered", "lost"}

\* The gateway implements the Gatekeeper: see there for the promise.
Phase == [idle |-> "new", refused |-> "refused", calling |-> "forwarded",
          answered |-> "closed", lost |-> "lost"]

Promise == INSTANCE Gatekeeper WITH
  Verdicts  <- Verdict,
  Allowing  <- {v \in Verdict : v.decision = "allow"},
  NoVerdict <- None,
  phase     <- [r \in Requests |-> Phase[stage[r]]],
  verdict   <- decided,
  ledger    <- {<<a.event, a.verdict>> : a \in audit}

KeepsPromise == Promise!Spec

(* Claims of the documentation that the code does not keep                 *)

\* docs/auth-lifecycle.md: "Revocation is permanent".
RevocationIsPermanent ==
  [][\A t \in Tokens : tokens[t] # None /\ tokens[t].revoked => ~Authenticated(t)']_vars
=============================================================================
