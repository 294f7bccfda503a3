------------------------------ MODULE McpService ----------------------------
(***************************************************************************)
(* The context manager and the tenant service of the MCP service tree      *)
(* (src/mcp/services/context_manager.py, tenant.py), over one database.    *)
(*                                                                         *)
(* Each transaction on the database is one step. A handler of the context  *)
(* manager writes the row of a context and then its cache entry, and is    *)
(* suspended before each: other handlers and the task that loads the model *)
(* interleave there. The process may end anywhere; the rows survive.       *)
(*                                                                         *)
(* Six methods that these files call are not in them. They are taken to do *)
(* what their callers expect of them, and to raise at any time:            *)
(*   check_permission, _check_resource_limits   refuse or let through;     *)
(*   _update_tenant_resources    counts, and may be suspended doing so;    *)
(*   _cleanup_context_resources  "clean up resources and remove from       *)
(*                               cache";                                   *)
(*   _setup_default_quotas, _update_quotas_for_tier   write quotas.        *)
(***************************************************************************)
EXTENDS Integers

CONSTANTS
  Contexts,   \* what uuid4 may return
  Tenants,    \* what their ids may be
  Configs,
  Requests,   \* calls of the context manager that can be under way at once
  MaxBoots,   \* bound on restarts
  None

VARIABLES
  tenants,    \* the rows of the tenants: is_active, or why there is none
  quotas,     \* tenants with rows in resource_quota
  creating,   \* tenants whose create_tenant is between its two commits
  rows,       \* the rows of the contexts
  used,       \* history: contexts that had a row
  cache,      \* contexts, of the running process
  load,       \* where the task _initialize_context of each context stands
  call,       \* where each call stands
  boots,      \* restarts so far
  mixed,      \* history: contexts with two writers at once, or a failed commit
  orphaned    \* history: contexts and tenants whose writer a crash or an error ended

tenantVars == <<tenants, quotas, creating>>
mcpVars == <<tenantVars, rows, used, cache, load, call, boots, mixed, orphaned>>

State == {"initializing", "ready", "error", "terminated"}

Row == [tenant : Tenants, state : State, config : Configs]

ASSUME McpAssumption == MaxBoots \in Nat /\ None \notin Contexts \cup Row

Idle == [at |-> "idle"]

Call == [at : {"read", "caching", "row", "entry", "counting"}, kind : {"create", "get", "update", "delete"},
         c : Contexts, row : Row \cup {None}, config : Configs \cup {None}]

McpTypeOK ==
  /\ tenants \in [Tenants -> {"none", "active", "inactive", "deleted"}]
  /\ quotas \subseteq Tenants
  /\ creating \subseteq Tenants
  /\ rows \in [Contexts -> Row \cup {None}]
  /\ used \subseteq Contexts
  /\ cache \in [Contexts -> Row \cup {None}]
  /\ load \in [Contexts -> {"none", "loading", "saving", "failing", "done"}]
  /\ call \in [Requests -> Call \cup {Idle}]
  /\ boots \in 0..MaxBoots
  /\ mixed \subseteq Contexts
  /\ orphaned \subseteq Contexts \cup Tenants

Init ==
  /\ tenants = [t \in Tenants |-> "none"]
  /\ quotas = {}
  /\ creating = {}
  /\ rows = [c \in Contexts |-> None]
  /\ used = {}
  /\ cache = [c \in Contexts |-> None]
  /\ load = [c \in Contexts |-> "none"]
  /\ call = [r \in Requests |-> Idle]
  /\ boots = 0
  /\ mixed = {}
  /\ orphaned = {}

-----------------------------------------------------------------------------
(* Tenants                                                                 *)

Exists(t) == tenants[t] \in {"active", "inactive"}

\* create_tenant up to its first commit.
CreateTenant(t) ==
  /\ tenants[t] = "none"
  /\ tenants' = [tenants EXCEPT ![t] = "active"]
  /\ creating' = creating \cup {t}
  /\ UNCHANGED <<quotas, rows, used, cache, load, call, boots, mixed, orphaned>>

\* The rest of create_tenant, the call of _setup_default_quotas: it writes the
\* quotas, or raises, which rolls back no more than them.
SetupQuotas(t) ==
  /\ t \in creating
  /\ creating' = creating \ {t}
  /\ \/ /\ Exists(t)
        /\ quotas' = quotas \cup {t}
        /\ UNCHANGED orphaned
     \/ orphaned' = orphaned \cup {t} /\ UNCHANGED quotas
  /\ UNCHANGED <<tenants, rows, used, cache, load, call, boots, mixed>>

\* update_tenant with is_active, which may give a tier, and so quotas, as well.
UpdateTenant(t) ==
  /\ Exists(t)
  /\ \E status \in {"active", "inactive"} : tenants' = [tenants EXCEPT ![t] = status]
  /\ quotas' \in {quotas, quotas \cup {t}}
  /\ UNCHANGED <<creating, rows, used, cache, load, call, boots, mixed, orphaned>>

\* set_resource_quota
SetQuota(t) ==
  /\ Exists(t)
  /\ quotas' = quotas \cup {t}
  /\ UNCHANGED <<tenants, creating, rows, used, cache, load, call, boots, mixed, orphaned>>

\* delete_tenant: the rows of its contexts are deleted with it. The context
\* manager is not told.
DeleteTenant(t) ==
  /\ Exists(t)
  /\ tenants' = [tenants EXCEPT ![t] = "deleted"]
  /\ quotas' = quotas \ {t}
  /\ rows' = [c \in Contexts |-> IF rows[c] # None /\ rows[c].tenant = t THEN None ELSE rows[c]]
  /\ UNCHANGED <<creating, used, cache, load, call, boots, mixed, orphaned>>

-----------------------------------------------------------------------------
(* Contexts                                                                *)

Writes(r, c) == call[r] # Idle /\ call[r].c = c

Loading(c) == load[c] \in {"loading", "saving", "failing"}

\* A call on c begins: c is mixed when it has another writer.
Begin(r, kind, c, at, row, config) ==
  /\ call' = [call EXCEPT ![r] =
       [at |-> at, kind |-> kind, c |-> c, row |-> row, config |-> config]]
  /\ mixed' = IF Loading(c) \/ \E q \in Requests : Writes(q, c) THEN mixed \cup {c} ELSE mixed

At(r, at, kinds) == call[r] # Idle /\ call[r].at = at /\ call[r].kind \in kinds

Goto(r, at) == call' = [call EXCEPT ![r].at = at]

End(r) == call' = [call EXCEPT ![r] = Idle]

\* self._lock: create_context keeps it while it counts the new context.
LockFree == \A r \in Requests : ~At(r, "counting", {"create"})

\* create_context up to its commit, once it is permitted and within the limits.
CreateRow(r, c, t, config) ==
  LET row == [tenant |-> t, state |-> "initializing", config |-> config]
  IN  /\ call[r] = Idle
      /\ c \notin used
      /\ Exists(t)
      /\ rows' = [rows EXCEPT ![c] = row]
      /\ used' = used \cup {c}
      /\ Begin(r, "create", c, "entry", row, config)
      /\ UNCHANGED <<tenantVars, cache, load, boots, orphaned>>

\* create_context: the entry.
CreateEntry(r) ==
  /\ At(r, "entry", {"create"}) /\ LockFree
  /\ cache' = [cache EXCEPT ![call[r].c] = call[r].row]
  /\ Goto(r, "counting")
  /\ UNCHANGED <<tenantVars, rows, used, load, boots, mixed, orphaned>>

\* The rest of create_context: the task that loads the model is created after
\* _update_tenant_resources, and not at all when that raises.
CountCreated(r) ==
  /\ At(r, "counting", {"create"})
  /\ End(r)
  /\ \/ load' = [load EXCEPT ![call[r].c] = "loading"] /\ UNCHANGED orphaned
     \/ orphaned' = orphaned \cup {call[r].c} /\ UNCHANGED load
  /\ UNCHANGED <<tenantVars, rows, used, cache, boots, mixed>>

\* get_context, which the other calls begin with: a context that is not in the
\* cache is read from its row. One that is needs nothing but a permission.
Get(r, c, kind, config) ==
  /\ call[r] = Idle /\ LockFree
  /\ IF cache[c] = None THEN Begin(r, kind, c, "read", None, config)
     ELSE kind # "get" /\ Begin(r, kind, c, "row", None, config)
  /\ UNCHANGED <<tenantVars, rows, used, cache, load, boots, orphaned>>

\* get_context: the row is read, whatever its state; without one it raises.
ReadRow(r) ==
  /\ At(r, "read", {"get", "update", "delete"})
  /\ call' = [call EXCEPT ![r] =
       IF rows[@.c] = None THEN Idle
       ELSE [call[r] EXCEPT !.at = "caching", !.row = rows[call[r].c]]]
  /\ UNCHANGED <<tenantVars, rows, used, cache, load, boots, mixed, orphaned>>

\* get_context: what was read is cached.
CacheRow(r) ==
  /\ At(r, "caching", {"get", "update", "delete"}) /\ LockFree
  /\ cache' = [cache EXCEPT ![call[r].c] = call[r].row]
  /\ IF call[r].kind = "get" THEN End(r) ELSE Goto(r, "row")
  /\ UNCHANGED <<tenantVars, rows, used, load, boots, mixed, orphaned>>

\* A permission is refused, or the database raises: nothing is written.
Raise(r) ==
  /\ At(r, "read", {"get", "update", "delete"}) \/ At(r, "row", {"update", "delete"})
  /\ End(r)
  /\ UNCHANGED <<tenantVars, rows, used, cache, load, boots, mixed, orphaned>>

SetRow(c, change) == rows' = [rows EXCEPT ![c] = IF @ = None THEN None ELSE change]

SetEntry(c, change) == cache' = [cache EXCEPT ![c] = IF @ = None THEN None ELSE change]

\* Faulty update: the whole row is written from what the cache holds.
UpdateRowWhole(r) ==
  /\ At(r, "row", {"update"})
  /\ LET entry == cache[call[r].c]
     IN  SetRow(call[r].c, [IF entry = None THEN rows[call[r].c] ELSE entry
                            EXCEPT !.config = call[r].config])
  /\ Goto(r, "entry")
  /\ UNCHANGED <<tenantVars, used, cache, load, boots, mixed, orphaned>>

\* update_context: the UPDATE of the row, which finds none if it is gone.
UpdateRow(r) ==
  /\ At(r, "row", {"update"})
  /\ SetRow(call[r].c, [rows[call[r].c] EXCEPT !.config = call[r].config])
  /\ Goto(r, "entry")
  /\ UNCHANGED <<tenantVars, used, cache, load, boots, mixed, orphaned>>

\* Faulty update: the entry is left to the next reader.
UpdateEntryLater(r) ==
  /\ At(r, "entry", {"update"})
  /\ End(r)
  /\ UNCHANGED <<tenantVars, rows, used, cache, load, boots, mixed, orphaned>>

\* update_context: the entry if there is one, and get_context for the answer.
UpdateEntry(r) ==
  /\ At(r, "entry", {"update"}) /\ LockFree
  /\ SetEntry(call[r].c, [cache[call[r].c] EXCEPT !.config = call[r].config])
  /\ IF cache[call[r].c] = None
     THEN call' = [call EXCEPT ![r].at = "read", ![r].kind = "get"]
     ELSE End(r)
  /\ UNCHANGED <<tenantVars, rows, used, load, boots, mixed, orphaned>>

\* delete_context: the row stays, terminated.
DeleteRow(r) ==
  /\ At(r, "row", {"delete"})
  /\ SetRow(call[r].c, [rows[call[r].c] EXCEPT !.state = "terminated"])
  /\ Goto(r, "entry")
  /\ UNCHANGED <<tenantVars, used, cache, load, boots, mixed, orphaned>>

\* _cleanup_context_resources
DeleteEntry(r) ==
  /\ At(r, "entry", {"delete"})
  /\ cache' = [cache EXCEPT ![call[r].c] = None]
  /\ End(r)
  /\ UNCHANGED <<tenantVars, rows, used, load, boots, mixed, orphaned>>

-----------------------------------------------------------------------------
(* The task that loads the model, and the process                          *)

\* Faulty load: a state that the rows never have.
LoadEntryRunning(c) ==
  /\ load[c] = "loading"
  /\ SetEntry(c, [cache[c] EXCEPT !.state = "running"])
  /\ load' = [load EXCEPT ![c] = "saving"]
  /\ UNCHANGED <<tenantVars, rows, used, call, boots, mixed, orphaned>>

\* _initialize_context after its sleep.
LoadEntry(c) ==
  /\ load[c] = "loading" /\ LockFree
  /\ SetEntry(c, [cache[c] EXCEPT !.state = "ready"])
  /\ load' = [load EXCEPT ![c] = "saving"]
  /\ UNCHANGED <<tenantVars, rows, used, call, boots, mixed, orphaned>>

\* Faulty load: the row is left as it is.
LoadRowNever(c) ==
  /\ load[c] = "saving"
  /\ load' = [load EXCEPT ![c] = "done"]
  /\ UNCHANGED <<tenantVars, rows, used, cache, call, boots, mixed, orphaned>>

\* _initialize_context: the row, whatever its state is by now.
LoadRow(c) ==
  /\ load[c] = "saving"
  /\ SetRow(c, [rows[c] EXCEPT !.state = "ready"])
  /\ load' = [load EXCEPT ![c] = "done"]
  /\ UNCHANGED <<tenantVars, used, cache, call, boots, mixed, orphaned>>

\* _initialize_context: the database raised, and the entry is marked.
LoadFails(c) ==
  /\ load[c] = "saving" /\ LockFree
  /\ SetEntry(c, [cache[c] EXCEPT !.state = "error"])
  /\ load' = [load EXCEPT ![c] = "failing"]
  /\ UNCHANGED <<tenantVars, rows, used, call, boots, mixed, orphaned>>

\* _initialize_context: the row is marked, unless the database raises again,
\* which ends the task.
MarkRow(c) ==
  /\ load[c] = "failing"
  /\ load' = [load EXCEPT ![c] = "done"]
  /\ \/ /\ SetRow(c, [rows[c] EXCEPT !.state = "error"])
        /\ UNCHANGED <<mixed, orphaned>>
     \/ /\ mixed' = mixed \cup {c}
        /\ orphaned' = orphaned \cup {c}
        /\ UNCHANGED rows
  /\ UNCHANGED <<tenantVars, used, cache, call, boots>>

\* create_context has committed the row of c and goes on.
BeingCreated(c) == \E r \in Requests : Writes(r, c) /\ call[r].kind = "create"

\* initialize: the cache starts with the contexts that are not terminated.
AtStart(c) == rows[c] # None /\ rows[c].state # "terminated"

\* The process ends and starts again: no call and no task survives.
Restart ==
  /\ boots < MaxBoots
  /\ boots' = boots + 1
  /\ cache' = [c \in Contexts |-> IF AtStart(c) THEN rows[c] ELSE None]
  /\ load' = [c \in Contexts |-> IF load[c] = "none" THEN "none" ELSE "done"]
  /\ call' = [r \in Requests |-> Idle]
  /\ creating' = {}
  /\ mixed' = {}
  /\ orphaned' = orphaned \cup creating
       \cup {c \in Contexts : Loading(c) \/ BeingCreated(c)}
  /\ UNCHANGED <<tenants, quotas, rows, used>>

Next ==
  \/ \E t \in Tenants :
       \/ CreateTenant(t) \/ SetupQuotas(t)
       \/ UpdateTenant(t) \/ SetQuota(t)
       \/ DeleteTenant(t)
  \/ \E r \in Requests :
       \/ \E c \in Contexts, config \in Configs :
            \/ \E t \in Tenants : CreateRow(r, c, t, config)
            \/ Get(r, c, "update", config)
       \/ \E c \in Contexts, kind \in {"get", "delete"} : Get(r, c, kind, None)
       \/ CreateEntry(r) \/ CountCreated(r)
       \/ ReadRow(r) \/ CacheRow(r) \/ Raise(r)
       \/ UpdateRow(r) \/ UpdateEntry(r)
       \/ DeleteRow(r) \/ DeleteEntry(r)
  \/ \E c \in Contexts : LoadEntry(c) \/ LoadRow(c) \/ LoadFails(c) \/ MarkRow(c)
  \/ Restart

Spec == Init /\ [][Next]_mcpVars

-----------------------------------------------------------------------------
(* Properties                                                              *)

Quiet(c) == ~Loading(c) /\ ~\E r \in Requests : Writes(r, c)

\* The in-memory cache and the database disagree about a context only when two
\* writers of it overlapped, or both writes of a failed load failed: a call or a
\* load by itself leaves them in agreement. (The rows of a deleted tenant are
\* gone, and its contexts stay cached.)
QuietContextsAgree ==
  \A c \in Contexts \ mixed :
    Quiet(c) /\ cache[c] # None /\ rows[c] # None => cache[c] = rows[c]

\* What is unfinished in the database has somebody who finishes it, unless a
\* crash or an error ended that: a context that is initializing its creation or
\* its load, a tenant without quotas its creation.
UnfinishedHasWriter ==
  /\ \A c \in Contexts \ orphaned : rows[c] # None /\ rows[c].state = "initializing" =>
       Loading(c) \/ BeingCreated(c)
  /\ \A t \in Tenants \ orphaned : Exists(t) => t \in quotas \cup creating

\* A context that is terminated comes back only by its own load, and so never
\* after a restart.
OnlyLoadsRevive ==
  [][\A c \in Contexts :
       rows[c] # None /\ rows[c].state = "terminated" =>
         \/ rows'[c] = None
         \/ rows'[c].state = "terminated"
         \/ Loading(c) /\ load'[c] = "done" /\ boots' = boots]_mcpVars
=============================================================================
