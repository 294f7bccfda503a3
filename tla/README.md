# AgentGate in TLA+

Specifications, model-checking configurations and proofs for the programs of
this repository. The main program is **AgentGate**, a policy-first gateway
between agents and MCP servers (`src/src/mcp_gateway`); around it stand an older
multi-tenant "MCP PaaS" in several generations and a monitoring server. Paths
below are relative to `src/`.

## 1. The system

### 1.1 Components, their state and their operations

| Component | State | Operations | What makes it correct |
|---|---|---|---|
| Token store, `src/mcp_gateway/authz.py` | table `gateway_access_tokens` | upsert, revoke, look-up; checks in `_require_actor` and `require_scope` | only tokens in force decide requests; the two checks agree; revocation lasts |
| Policy engine, `policy.py` | table `gateway_policy_rules`, read in rowid order | add (upsert), remove, evaluate | one rule per name; first match decides; edits do not disturb other verdicts; default deny |
| Server registry, `registry.py`, `transports.py` | table `gateway_servers` | register (upsert), set health, select | selection offers healthy servers of the tenant, and some server whenever there is one |
| Gateway routes, `api.py` | table `gateway_audit_log`; local variables of handlers across one `await` | token, server, policy management; dry-run; execute; read-only listings | a call goes out only on an allow; every answered request has exactly one faithful row; a plan predicts execution |
| Transport adapters, `transport_adapters.py` | none | call over stdio, sse, streamable-http | every call ends, with a result or an error |
| Agent enrollment, `api.py` 111-142, 386-443 | in-memory window per IP; tables of tokens and `registered_agents` | self-registration | at most N per window; every directory row has its token |
| Code mode, `codemode*.py`, `api_codemode.py`, `audit.py` | table `codemode_audit` | search, execute, approve | code runs only behind its gate, is recorded, and a record is final |
| Storage, `storage.py` | one SQLite file, one lock | execute, query | each statement is atomic and durable |
| Metrics, `observability.py` | counters | increment | - |
| Gateway client and QuickBooks, `claude_integration.py`, `integrations/` | an HTTP client | requests to other services | - |
| Monitoring server, `server.py` | request timestamps, usage numbers per tenant | middleware, usage report, background check | limit per window; the concurrency number equals the requests under way |
| Rate limiter library, `utils/rate_limiter.py` | windows or buckets, local under a lock or in Redis | check, configure, clean up, close | limit per window; calls return |
| Auth service, `services/auth.py` | tenants, users, roles, in memory | register, log in, assign and remove roles, (de)activate | every tenant keeps an active admin; user limits; one user per email |
| Tenant context manager, `services/context_manager.py`, two classes | contexts in a database and in memory, a status each, a lock per context; or contexts and usage per tenant, a thread pool | create, get, infer, delete, clean up | one inference at a time on a context, and every inference is answered; no context stays half-way; usage equals what the live contexts use |
| PaaS context manager, `mcp_paas/services/context_manager.py` | contexts, index by tenant | create, initialise in background, delete, expire | a deleted context stays deleted; index and table agree |
| PaaS server and helpers, `mcp_paas/` | token buckets, tenants, sessions | middleware, routes | requests are limited |
| Model registry and loader, `mcp_paas/models/`, five loader classes | models and versions; loaded versions, the active one, locks | register; load, unload, switch version, background cleanup | what is called active is what is loaded; calls return |
| MCP service tree, `src/mcp/` | contexts in a database and a cache; tenants and quotas | create, initialise, update, delete | cache and database agree; what is unfinished has somebody who finishes it; a terminated context stays terminated |

### 1.2 How they interact

Everything runs in one process: `server.py` starts one uvicorn worker whose
event loop runs all handlers. Gateway handlers are `async def` functions that
call the stores synchronously, by method call; the stores share one SQLite file
and `GatewayStorage` commits each statement under a lock. Code mode shares the
token store and the policy engine with the gateway routes, and enrollment writes
into the token store. Only `route_execute` awaits (api.py:681): while its adapter
talks to a server, other handlers run. Importing `api.py` upserts the admin token.
The monitoring server's middleware wraps every request of the process, the
gateway's too. The rate limiter library runs in each of several processes that
share a Redis. The PaaS generations are programs of their own: their managers,
loaders and limiters are called by routes, and by background tasks on the same
event loop; the MCP service tree and one tenant context manager share a database
with whatever else writes to it through the same session.

### 1.3 What is hard

- **Interleaving at one await.** `route_execute` reads actor, server and verdict,
  awaits, and then writes its audit row from what it read; in between everything
  may be rewritten.
- **Background tasks that hold what they read.** In the PaaS a load task keeps a
  context across its sleep, while deletion, expiry and shutdown take it away.
- **Guards that count.** The last-admin guard and the user limit of the auth
  service must hold whatever order management calls come in.
- **Crashes.** Tables survive, memory does not: awaited calls, the registration
  window, running code. Several operations are two transactions.
- **Two paths that must agree.** Dry-run and execute; `enabled` and `revoked_at`.
- **Order in a table.** First-match evaluation rests on rowids under upserts.
- **Time-outs** that bound some calls and not others.
- **Locks that a call asks for twice.** The rate limiter's thread lock and the
  loaders' `asyncio.Lock`s are not reentrant, and some calls take them again.
- **One session for everybody.** In a tenant context manager all calls share one
  `AsyncSession`: a commit writes, and a rollback takes back, what others changed.
- **A cache over a database**, written by calls that are suspended in between.
- **Counting over a network.** A limit kept by separate Redis commands of several
  processes, on keys that expire.

`PROJECT.json` lists each hazard at its line, with the property that covers it
or the reason why none does.

## 2. Modules

| Module | Models | Uses |
|---|---|---|
| `GatewayTypes` | the vocabulary: tenants, servers, methods, tokens, rule names | |
| `AuthzStore` | token rows, upsert, revoke, expiry, both checks | GatewayTypes |
| `PolicyEngine` | the rule table, its edits, evaluation; also a specification of its own | GatewayTypes |
| `GatewayRegistry` | server rows, registration, health, selection | GatewayTypes |
| `Gateway` | the handlers over the three stores, the await, crashes | the three stores, `Gatekeeper` |
| `Gatekeeper` | abstract: what the gateway promises about one request | |
| `AgentEnrollment` | registration window, token row, directory row; an admin's posts and revocations of tokens | AuthzStore |
| `CodeMode` | submission, gate, approval, run, record | AuthzStore, PolicyEngine |
| `AuthService` | tenants, users, roles, activation | |
| `PaasContexts` | contexts of the PaaS, their load tasks, expiry, shutdown | |
| `RateLimiter` | `utils/rate_limiter.py`: both strategies, over Redis command by command and locally under its lock | |
| `RequestLimits` | `server.py`: the middleware in two halves, usage reports and their checks | |
| `McpService` | `src/mcp/services/context_manager.py` and `tenant.py`: rows, cache, load tasks, restarts | |
| `TenantContexts`, `InferenceContexts` | the second and the first class of `services/context_manager.py` | |
| `SingleLockLoader`, `VersionTableLoader`, `ModelInfoLoader` | the first, the fourth and the last class of `mcp_paas/models/loader.py` | |
| `GatewayProofs` | theorems and proofs of the rule table, the gateway, code mode and enrollment, which share store lemmas | Gateway, CodeMode, AgentEnrollment |
| `AuthServiceProofs`, `PaasContextsProofs`, `RateLimiterProofs`, `RequestLimitsProofs`, `McpServiceProofs` | theorems and proofs | the module named |
| `ContextManagersProofs`, `ModelLoadersProofs` | theorems and proofs | MCContextManagers, MCModelLoaders |
| `MCContextManagers`, `MCModelLoaders` | the choice of one class among those a file holds, and its run | the classes' modules |
| other `MC*` | small instances for TLC | |

### 2.1 How state and actions correspond to the code

A table is a function from its primary key to a row, with `None` for no row;
`rules` is a sequence because its order matters. A handler without an `await` is
one action: its guard is the conjunction of the checks it runs before it stores
anything. `route_execute` is `Execute` up to the await and `AdapterReturns` or
`AdapterTimesOut` after it; `decided` and `route` hold the local variables it
carries across. Enrollment is two actions because a crash may separate its two
transactions, and `enrolling` blocks every other handler in between, because the
handler does not await there. Code that runs is `running`, with the same effect.
In `PaasContexts` the sections under the lock await nothing, so each method is one
action; `load` says where a context's background task stands, and `rows` keeps the
object that the task holds when `table` has lost it.

In the modules whose calls are suspended several times (`RateLimiter`,
`McpService`, the context managers, the loaders) `call`, or `task`, says where each
call stands and what it has read, and every stretch of code between two awaits
that really suspend is one action. An `asyncio.Lock` serves its waiters in order:
`queue` is the sequence of the calls whose head holds the lock. A call that waits
for a lock it holds is `stuck` or the `holder`, and moves no more.
`services/context_manager.py` and `loader.py` hold several classes of one name,
pasted one after the other; a process has one of them, so `MCContextManagers` and
`MCModelLoaders` choose one in the initial state and leave the variables of the
others alone. `GatewayProofs` extends three modules, so their actions have names
of their own (`CodeNext`, `EnrollmentNext`).

Abstractions, all deliberate:

- A management request that fails a check changes nothing and is a stuttering
  step. Refused dry-runs and executes are shown, since the absence of their
  audit row is a property.
- `tenants = {Star}` stands for a NULL tenant list. `expiry = "passed"` also
  stands for a timestamp that cannot be parsed: either way no request succeeds.
- A weighted draw may return any candidate (weights are at least 1).
- Payloads, reasons, timestamps in rows and metrics are left out; endpoints are
  told apart by what `urlparse` finds in them.
- The code submitted in code mode is abstract: it ends, with a value that can be
  logged or with one that cannot, or the process dies.
- Errors of the database are not modelled in the gateway; they are in
  `McpService` and `InferenceContexts`, where the code handles them.
- In `RateLimiter` the strategy is chosen once and limit and burst are constants,
  since no caller changes them after the start; time is counted in ticks and a token
  is refilled each tick. A Redis command takes effect or raises. Two histories, `cut`
  and `late`, tell which keys the code leaves with a shorter life than it means to.
- A usage report stores any number, so `RequestLimits` takes its values from the
  integers, below zero too.
- `InferenceContexts` takes SQLAlchemy's session to keep attributes after a commit
  and to expire what a rollback took back. `VersionTableLoader` takes its registry
  to be any service that answers which versions there are.
- The list of times that a client has in the enrollment window is the set of the
  agents that it registered with the time of each, since an agent registers once;
  the monitoring server's list of times is a sequence, as in the code.
- Methods that are called and not in the files are taken by what their callers
  expect. Of the MCP service tree they are six: `check_permission` and
  `_check_resource_limits` may refuse; `_update_tenant_resources` counts, under the
  manager's lock, may be suspended and may raise; `_cleanup_context_resources`
  forgets the cache entry; `_setup_default_quotas` and `_update_quotas_for_tier`
  write quotas, and the first may raise. Of the fourth loader class they are four:
  `_load_model_from_path` and `_validate_model` may be suspended and may raise, and
  the tasks `_periodic_cleanup` and `_periodic_health_check` do nothing.
- In the auth service a refused call and the read-only calls are stuttering
  steps; passwords and JWTs are left out. `uuid4` never repeats a value.

Operators whose comment begins with "Faulty" are not part of any specification.
Each is a plausible mistake in the operator that follows it, kept to show which
property notices.

## 3. Runs

| Configuration | Question | Bounds |
|---|---|---|
| `MCGateway` | Are requests recorded exactly once and faithfully while tables change under them? Does `Gateway` implement `Gatekeeper`? | two requests, one server id that two tenants register over different transports, rules that are rewritten |
| `MCRoutes` | Do selection, planning and authorisation agree with execution? Do stdio calls end? | one request, two server ids, three strategies, deny rules, expiring tokens |
| `MCAgentEnrollment` | Do directory, tokens and window agree across crashes? | three agents (two share a tenant id), two clients, limit 2 per 2 ticks, clock to 2, one restart, a posted row of another tenant that expires |
| `MCCodeMode` | Does the gate hold while rules and tokens change and runs are cut off? Do edits keep the key and the order of the rule table? | two submissions, two runs each; three rule names whose rules overlap, one of which asks for approval |
| `MCAuthService` | Do admins, seats and addresses survive every order of management calls? | three users, two tenants, plans of two and of three seats, two roles |
| `MCPaasContexts` (of `PaasContexts`) | Do table and lists agree while loads, deletions, expiry and shutdown interleave? Do loads end, are expired contexts collected? | two contexts, two tenants, one usage report each |
| `MCRateLimiter` | By how much can concurrent checks overrun a window? Does a key outlive what it counts? | two processes with a check each, one key, limit 1, burst 2, window 2, four instants |
| `MCRequestLimits` | Does the rate hold in every window? Is the concurrency number exact, and is high use alerted about? | three requests of one tenant, limit 2, window 1, four instants, reports of -1, 3 and 4 where 5 contexts are the limit |
| `MCMcpService` | When may cache and database disagree? Is what is unfinished finished by somebody? | one context, one tenant, two configurations, two calls and a load task, one restart |
| `MCModelLoaders` | Is what the tables call active or current what is loaded? Do calls end? | two models (one with version tables), two versions, two calls, at most one model loaded in the first class |
| `MCContextManagers` | Are a tenant's counters exact? Are inferences answered, and exclusive? Who answers for a context that is unfinished? | two tenants, three contexts, two inferences, one thread; for the class over a session one context and three calls |
| `MCRevocation` | "Revocation is permanent" | violated |

Two requests on one server id are enough for every order of two awaits; two
tenants for every re-registration that changes the owner; three names in the
rule table for a rule before, at and after the one that is edited. In the
enrollment run the clock exceeds the window, so a window fills, refuses, slides
and fills again. In the code-mode run two starts per submission allow a run cut
off and its repetition. In the auth service three users let two admins of one
tenant act on each other and a third user compete for the last seat; managers
may deactivate but not change roles, which is the difference between the two
roles that the guards see. Symmetry is used on requests, submissions, clients,
users, tenants and names, which no definition orders, on the two processes of
the rate limiter together with their checks, and never in a run with a liveness
property. `MCRoutes` needs no second request: what ends a call is its own
adapter. Two contexts are enough for a list with two entries and for one context
that comes back beside one that does not. In the rate limiter a limit of 1 with
two checks reaches the bound of the overrun; a burst of 2 lets one check
overtake another with a token less, and four instants let a window, the deadline
of a bucket and a refill pass. A sorted set there loses its entries by trimming
only. Three requests under a limit of 2 fill a window and meet a refusal; 4 of 5
contexts is the alert threshold itself. In `McpService` two calls and the load
are three writers of one context, and contexts do not touch each other; three
calls of `InferenceContexts` are an inference, the one it excludes, and a
deletion or a rollback under both. What calls on two contexts do to each other
through the session is not in this run: with two contexts and two calls TLC
agrees too, on 1.9 million states, but takes over five minutes, and the theorems
of section 5 hold for any number of both. A loader with two models has an unload
of all that waits for one lock while it is past the other. In the first loader
class nothing is suspended under the lock except a call that waits for itself;
the second call is the one that comes after it.

Deadlock is checked except in `MCRateLimiter`, `MCRequestLimits` and
`MCAgentEnrollment`, where the clock is bounded (in the last one the admin may also
have revoked its own token), in `MCModelLoaders`, where calls may hang, and in
`MCContextManagers`, where a session may be used up and a pool shut.

### 3.1 What the violated run shows

`MCRevocation`: `upsert_token` overwrites `enabled` and `revoked_at`. Posting a
revoked token's value again, or restarting in the case of the admin token, puts it
back in force; docs/auth-lifecycle.md:93 calls revocation permanent.

### 3.2 Other disagreements met

Each is in the models as the code has it; the property named states what does hold.

- The audit row of an execute is written after the adapter returned (api.py:681,
  706); README.md:5 says calls are logged before. `RecordedExactlyOnce`: every
  answered request has exactly one row, and one that a crash cut off has none.
- Dry-run denies an unhealthy server (api.py:544); execute does not look at health.
  `PlanPredictsExecute`: what a plan allows, execute allows.
- The "5 registrations per hour per IP" (api.py:345) are counted in memory.
  `WindowExact`: within one life of the process the count is exact.
- Code runs before it is logged, and a result that JSON cannot express, or a crash,
  loses the entry of the "full audit trail" (docs/codemode-quickstart.md:5).
  `RunsOncePerRecord`: no record is run twice, and a run without one was cut off.
- A deleted PaaS context is live again, unlisted and uncounted, when its load ends
  (mcp_paas/services/context_manager.py:94). `OnlyLoadsBringBack`,
  `UnlistedAreLoaded`. `McpService` has the same race on the row of a context:
  `OnlyLoadsRevive`.
- `deactivate_tenant` says "Deactivate a tenant and all its users"
  (services/auth.py:742) and switches only the tenant (:772): its users stay active in
  the table, and nobody of them may do anything, since `check_permission` asks for the
  tenant first (:639). `TenantsKeepAdmins`: a tenant keeps an administrator who is
  active, and who has every permission if the tenant is active and none if not.
- "Set expiry based on how long until bucket is full again" (utils/rate_limiter.py:557)
  is done from the tokens that the check itself had left, so the expire of a check that
  was overtaken (:559) shortens a later deadline, and the bucket comes back full before
  its time. A check that fails before its expire leaves what it stored to an older
  deadline or to none. `KeysOutliveTheirWindow` says what holds in each case.
- A usage report may be negative (server.py:488), for concurrent requests too.
  `LimitsTypeOK`: the count is below zero only after such a report, and then not
  below what was reported.
- With `max_models_loaded` 0 the first loader class loads one model all the same
  (loader.py:205, 551). `ActiveServed`: one model at most is loaded then.
- `_check_local_rate_limit` holds a `threading.Lock` and calls a method that takes
  it (utils/rate_limiter.py:457-459), so the first request it allows stops the
  event loop, although the class is called a "Thread-safe implementation with
  asyncio support" (:264). Over Redis it does not happen, unless a command fails.
- Loads that must unload, and switches, wait for their own lock in the first
  loader class (loader.py:192, 205, 391), and a switch to a version that is not
  loaded in the fourth (loader.py:1597). Of the fourth and the last class
  `LoaderCallsEnd` says that this is the only call that does not end; of the first,
  `ActiveServed` says what the calls that wait leave behind.
- `services/auth.py` ends inside `reactivate_tenant`, after its checks, so a
  deactivated tenant stays so; its `validate_token` compares a time that has a zone
  with one that has none (:429), which raises.
- `mcp_paas/server.py:103` tests a tuple for truth, so its limiter refuses nobody.
- A rule posted with an empty tenant list is stored as NULL and holds for all
  (api.py:276); an `expires_at` that is no date fails every request (api.py:71).

## 4. Fairness

`FairSpec` of `Gateway` assumes weak fairness of the time-out of a stdio call.
`StdioAdapter.call` wraps the subprocess in `asyncio.wait_for`, so the event loop
will end the call. Nothing of the kind is assumed for http and sse: httpx's
time-out bounds the gap between two chunks and not the whole call.

`FairSpec` of `PaasContexts` assumes that the event loop runs what is ready: load
tasks, whose only wait is a sleep, the periodic cleanup, which sleeps 60 seconds
and catches every error, and the end of a shutdown that has begun.

`FairSpec` of `RequestLimits` assumes the same of the check that a report
schedules and of the periodic check; handlers need not end. `MCModelLoaders`
assumes that the event loop runs every call of the two later classes that can go
on, and that what a load awaits ends. `MCContextManagers` assumes that a thread
ends its task, that the loop hands out results, and that a pool with nothing left
shuts; a queued task is started under strong fairness, because
`ThreadPoolExecutor` takes its queue in order and so cannot pass one over for ever.

No caller, crash, clock, agent or Redis server is assumed to act.

## 5. Proofs

TLAPS proves, for every vocabulary, any number of requests, servers, tokens and
rules, and any payloads that satisfy the named assumptions:

| Theorem | States |
|---|---|
| `PolicyTableIsKeyed`, `EditsRankLast`, `RemovalsAreLocal` (GatewayProofs) | the table keeps its key; an edit that leaves every rule standing changes no decided verdict; a removal changes no verdict but the removed rule's |
| `GatewayTypeCorrect` | `TypeOK` |
| `GatewayCallsOnAllow` | a call is out only on an allow |
| `GatewayRecordsOnce`, `GatewayRecordsFaithfully` | one audit row per answered request, carrying the decision made before the await |
| `GatewayStatusCoherent` | the two checks of a token's standing agree |
| `GatewayDecidesInForce` | requests are decided for tokens in force only |
| `GatewaySelectsSoundly` | selection offers a healthy server of the tenant whenever there is one, and has no choice unless the strategy is weighted |
| `GatewayPlansSoundly` | what a plan allows for a named server, execute allows |
| `GatewayKeepsPromise` | `Gateway` implements `Gatekeeper` |
| `CodeTypeCorrect`, `CodeRunsBehindItsGate`, `CodeRunsOncePerRecord`, `ClosedRecordsAreFinal` (GatewayProofs) | code runs on an allow and an approval only; it starts once more than it was cut off, at most; closed records stay |
| `EnrollmentTypeCorrect`, `EnrolledAgentsHoldTokens`, `OrphansComeFromCrashes`, `WindowCountsExactly` (GatewayProofs) | a directory row has the token row that its registration wrote, or that row revoked, unless an admin posted the token again; a token without a row is of an earlier life of the process; the pruned window of a client is, one for one, what this process let through in it, and within the limit |
| `AuthTypeCorrect`, `TenantsAlwaysKeepAdmins`, `UserLimitHolds`, `EmailIndexIsExact` (AuthServiceProofs) | the four invariants of the auth service: among them, a tenant keeps an active admin, who may act while the tenant is active |
| `PaasTypeCorrect`, `TenantsSeeLiveContexts`, `UnlistedContextsCameBack`, `DeletionIsFinalAfterLoad` (PaasContextsProofs) | lists show live contexts of the tenant; an unlisted one was deleted and loaded; only a load brings a context back |
| `LimiterTypeCorrect`, `WindowOverrunBounded`, `KeysAlwaysOutlive` (RateLimiterProofs) | tokens stay within their limits, in Redis and locally; a Redis window holds less than its limit and the number of requests together; what a finished check stored has a deadline: after two windows in a sorted set, after more than one in a hash, and not before the bucket is full unless a check that was overtaken gave it |
| `LimitsTypeCorrect`, `RateAlwaysHolds`, `CountAlwaysExact` (RequestLimitsProofs) | no window of any length, wherever it begins, holds more requests of a tenant than the limit; the concurrency number is the number of requests under way, and negative only where a report made it so |
| `McpTypeCorrect`, `QuietContextsAlwaysAgree`, `UnfinishedAlwaysHasWriter`, `OnlyLoadsEverRevive` (McpServiceProofs) | cache and row of a context agree when nobody writes it, no two writers of it ever overlapped and no commit failed; what is unfinished is being written or was cut short; only its own load revives a terminated context |
| `ContextsTypeCorrect`, `CountersAlwaysExact`, `UnfinishedAlwaysHasOwner`, `InferenceAlwaysExclusive` (ContextManagersProofs) | a tenant's counters count its contexts and keep the limits; a row that says initializing or running has its call unless that failed or was rolled back; one inference at a time on a context that was not deleted |
| `LoadersTypeCorrect`, `ActiveAlwaysServed`, `ActiveAlwaysLoaded`, `InfoAlwaysTells` (ModelLoadersProofs) | what the tables of three loader classes call active, current or loaded is loaded, within the limit of loaded models (or one, where that is 0), and a load returns what it was asked for |

Some of these state properties that no run checks any more, because the proof
covers every instance: `HandlersOK` (GatewayCallsOnAllow), `StatusCoherent`,
`UniqueNames`, `OnlyTokensInForceDecide`, `RemovalIsLocal`, `ClosedEventsStayClosed`,
`AgentsHoldTokens`, `AuthTypeOK`, `EmailIndexExact`, `PaasTypeOK` and `ListedAreLive`.

The argument: `Invariant` of `GatewayProofs` is the conjunction of `TypeOK`,
`UniqueNames`, `HandlersOK`, `RecordedExactlyOnce`, `RecordsCarryDecision` and
`StatusCoherent`. None of the record properties is inductive alone: that an
answer adds the first row of its request needs "no row before it was answered",
and that the row is faithful needs the shape of the handler variables. Every
step is seen twice: by what it does to the stores (`StoreStep`) and by what it
does to one handler (`RequestStep`). Lemma `Steps` classifies all actions once,
and the preservation of each conjunct is proved over the few classes instead of
the many actions. Facts about first-match evaluation rest on lemmas on the least
element of a set of positions and on what an edit leaves at each position.
Selection rests on one fact of the two orders it sorts by: a finite set of servers
that is not empty has a first element, and exactly one.

Code mode and enrollment reuse the store lemmas. Their invariants couple the
history of an event (how often it ran, how often it was cut off) with its row,
and the agent under way with the two tables it writes; what a revocation makes of the
row of an agent is fixed, so only a post of the same token can make it another. For the window the
invariant says which stamps a client's set holds: grants of this life of the process
only, and all of them that are within the window (`StampsMatch`); and that those within
the window are no more than the limit (`WindowsBounded`). An agent is granted
once, because it holds its token from then on, so a stamp tells its grant.

In the auth service the limit and the index are inductive only together with
`Housed` (a user's tenant exists), since registering a tenant must find its new
id without members. That an admin remains rests on one fact of finite sets: a
set with more than one element has an element besides any given one.

For the PaaS contexts the invariant adds what became of contexts outside the
table: they existed and were deleted. With it, the end of a load is either that
of a listed context or that of a deleted one.

In the rate limiter the entries of a window alone are not bounded by any step: the
invariant counts them together with the checks that have counted and not yet added
(`Crowd`). A count lets a check through only below the limit, and at most all the
requests have been let through by then; every other step leaves the sum as it is
or lowers it. For the lifetime of keys the invariant says that a strategy fills its
own tables only and that no entry is of the future, so that the deadline a check
sets, two windows from now, is later than two windows after any entry; and that a
check which stores a bucket has spent a token, so that its deadline is more than a
window away. Any other step keeps what is stored or leaves its check unfinished.

In the monitoring server only a window that ends now or later gains a request, and
what it holds by then is within the window that the middleware counts, because no
request was admitted in the future: with fewer than the limit before, it holds the
limit at most. That the times shown to a tenant, which include times older
than a window, stay within the limit needs one fact more: no request was admitted
later than a window after the oldest time kept. The concurrency number of a tenant
that does not report it is the cardinality of the requests between the two halves
of the middleware, so taking one away never meets zero; after a report, giving
requests back raises a negative number to zero and lowers none below it.

In the MCP service tree the invariant says, for a context whose writers never
overlapped and whose commits passed, that it has one writer at most, and at each
place where that writer may be suspended how far the cache is ahead of the row or behind it (`CallApart`,
`LoadApart`). Two calls that overlap mark the context as mixed at the moment the
second begins, which is what makes the rest inductive. Reviving needs only that a
load under way outlives the deletion and that no load outlives a restart.

For the first context manager the hard part is the session. A commit by any call
writes what every call has set, so an owner is needed for the status in the object
as well as for the one in the row (`StatusOwned`), and a row that a rollback brings
back must be owned by the call that wrote it. The proof found that the creation of
a context that fails in its own first commit, after somebody else's commit wrote its
row, leaves a row that says initializing; the history `undone` says so. Exclusion
needs that a context that is not deleted keeps its lock from the first inference on,
that no two calls are inside with one context and one lock, and that a new lock is
one no call holds, which exists because the calls are finitely many. For the second
manager the invariant couples each counter with the cardinality of the table, and a removal with
what leaves the table; the tables are finite and hold only identifiers that were
given, so that a new one adds one.

For the first loader class `lastUsed` is a sequence without repetitions whose
elements are the loaded models, so its length counts them: below the limit before a
load, or zero, and a clean-up shortens it by what it unloads. A call that waits for
itself holds the lock, so nobody else changes what it waits for. For the fourth class a call
past the lock of a model is the head of that model's line, what it is about to store
or has taken out is not in the table (`WorkOK`), and the tables of a model agree
unless an unload of the whole model is under way or has failed (`TablesAgree`).

For the last loader class the invariant says who may write a model's info: a call
that loads is the head of its model's queue, a queue has no call twice, and a call
is in the queue of its model only. While a load is suspended, nobody else touches
the status, the version or the object; a call that waits is served with the version
it read when it came, which it writes when it starts and not before.

Assumptions: `VocabularyAssumption`, `PayloadAssumption`, `RegistryAssumption`
and `GatewayAssumption` for the gateway, `CodeAssumption`, `EnrollmentAssumption`,
`AuthAssumption`, `PaasAssumption`, `LimiterAssumption`, `LimitsAssumption`,
`McpAssumption`, `ManagersAssumption`, `LoadersAssumption` and `ModelInfoAssumption` for
the others; TLC evaluates each in every run of its module.

Model-checked only: liveness (`StdioCallsConclude`, `ExpiredAreCollected`,
`ReportsAreAlerted`, `LoaderCallsEnd`, `InferencesEnd`), which TLAPS does not reach.
Every invariant and every action property of the passing runs is a theorem. Models
that are proved about avoid `SelectSeq` and other recursive operators, whose facts
need an induction that the provers cannot instantiate: the loaders remove from a
sequence by cutting it at a position, and the enrollment window is a set.

## 6. Not modelled

- Metrics, the HTTP clients, scripts, migrations and demos: no state with a
  property. The syntax filter of code mode and the wire formats of the adapters.
- `mcp_paas/models/registry.py`: its registrations raise TypeError, since they pass
  columns that its table lacks, and its synchronous methods are awaited by the
  loaders, so no state of it is ever reached. Of `loader.py` the second class
  (756-903) and the third (993-1245) break off before a load of theirs ends.
- `src/mcp/services/tenant.py`, `services/context_manager.py` and `loader.py` do not
  parse. They are modelled as they read; code after the point where a class breaks
  off is not guessed, beyond what 2.1 says of the ten methods that are missing.
- `mcp_paas/server.py` and its middleware: glue over the other parts;
  `mcp_paas/services/auth.py` reads tenants and stamps the last use of a key;
  `mcp_paas/utils/rate_limiter.py` is a token bucket in one step, whose answer its
  caller does not use.
- `src/mcp/main.py` and its endpoints import modules that do not exist.
- Errors of the gateway's database, and the process that a timed-out stdio call
  leaves behind: its effects are on the far side.
- Listings that no property is about.
