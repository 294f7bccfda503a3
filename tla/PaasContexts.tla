----------------------------- MODULE PaasContexts ---------------------------
(***************************************************************************)
(* The context manager of the PaaS (mcp_paas/services/context_manager.py): *)
(* model contexts, each with a background task that loads its model, and a *)
(* periodic task that removes the expired ones.                            *)
(*                                                                         *)
(* Everything runs on one event loop, and no section that holds the lock   *)
(* awaits: acquiring it never suspends, so a method is one step, the loop  *)
(* over the expired contexts included. Tasks interleave at two places: a   *)
(* load task before its first statement and in its sleep, and shutdown     *)
(* while it awaits the periodic task that it cancelled. Requests come      *)
(* while the server is up, between its startup and its shutdown.           *)
(***************************************************************************)
EXTENDS Integers

CONSTANTS
  Contexts,   \* what uuid4 may return
  Tenants,
  MaxUsage,   \* bound on usage reports per context
  None

VARIABLES
  rows,      \* the ModelContext objects, which a task may hold after a deletion
  table,     \* the keys of _contexts
  index,     \* _tenant_contexts: the ids listed for each tenant
  load,      \* where the task _initialize_context of each context stands
  phase,     \* _initialized, and the await in shutdown
  deleted    \* history: contexts that delete_context has answered True for

paasVars == <<rows, table, index, load, phase, deleted>>

Status == {"initializing", "running", "error"}

Row == [tenant : Tenants, status : Status, expiry : {"never", "ahead", "passed"},
        usage : 0..MaxUsage]

ASSUME PaasAssumption == MaxUsage \in Nat /\ None \notin Row

PaasTypeOK ==
  /\ rows \in [Contexts -> Row \cup {None}]
  /\ table \subseteq {c \in Contexts : rows[c] # None}
  /\ index \in [Tenants -> SUBSET Contexts]
  /\ load \in [Contexts -> {"none", "scheduled", "loading", "done"}]
  /\ \A c \in Contexts : load[c] = "none" <=> rows[c] = None
  /\ phase \in {"down", "up", "stopping"}
  /\ deleted \subseteq Contexts

Init ==
  /\ rows = [c \in Contexts |-> None]
  /\ table = {}
  /\ index = [t \in Tenants |-> {}]
  /\ load = [c \in Contexts |-> "none"]
  /\ phase = "down"
  /\ deleted = {}

-----------------------------------------------------------------------------
\* initialize; a second call returns at once.
Initialize ==
  /\ phase = "down"
  /\ phase' = "up"
  /\ UNCHANGED <<rows, table, index, load, deleted>>

\* Faulty creation: a tenant without a list gets none.
CreateForListedTenant(c, t, expiry) ==
  /\ phase = "up"
  /\ rows[c] = None
  /\ rows' = [rows EXCEPT ![c] =
       [tenant |-> t, status |-> "initializing", expiry |-> expiry, usage |-> 0]]
  /\ table' = table \cup {c}
  /\ index' = IF index[t] = {} THEN index ELSE [index EXCEPT ![t] = @ \cup {c}]
  /\ load' = [load EXCEPT ![c] = "scheduled"]
  /\ UNCHANGED <<phase, deleted>>

\* create_context; c is fresh. ttl_minutes = None never expires.
Create(c, t, expiry) ==
  /\ phase = "up"
  /\ rows[c] = None
  /\ rows' = [rows EXCEPT ![c] =
       [tenant |-> t, status |-> "initializing", expiry |-> expiry, usage |-> 0]]
  /\ table' = table \cup {c}
  /\ index' = [index EXCEPT ![t] = @ \cup {c}]
  /\ load' = [load EXCEPT ![c] = "scheduled"]
  /\ UNCHANGED <<phase, deleted>>

\* _initialize_context up to its await: a context that is gone is left alone.
StartLoad(c) ==
  /\ load[c] = "scheduled"
  /\ load' = [load EXCEPT ![c] = IF c \in table THEN "loading" ELSE "done"]
  /\ UNCHANGED <<rows, table, index, phase, deleted>>

\* _initialize_context after its await: the object it read before is stored,
\* whether or not the table still has it.
\* The load is a sleep that stands for the real one; the code handles an error
\* of it the same way.
FinishLoad(c) ==
  /\ load[c] = "loading"
  /\ \E status \in {"running", "error"} : rows' = [rows EXCEPT ![c].status = status]
  /\ table' = table \cup {c}
  /\ load' = [load EXCEPT ![c] = "done"]
  /\ UNCHANGED <<index, phase, deleted>>

\* delete_context, for each of some contexts in the table.
Remove(gone) ==
  /\ table' = table \ gone
  /\ index' = [t \in Tenants |-> index[t] \ {c \in gone : rows[c].tenant = t}]
  /\ deleted' = deleted \cup gone

Delete(c) ==
  /\ phase = "up"
  /\ c \in table
  /\ Remove({c})
  /\ UNCHANGED <<rows, load, phase>>

\* Faulty report: a context that is gone is stored again.
ReportUsageAnyway(c) ==
  /\ phase = "up"
  /\ rows[c] # None
  /\ rows[c].usage < MaxUsage
  /\ rows' = [rows EXCEPT ![c].usage = @ + 1]
  /\ table' = table \cup {c}
  /\ UNCHANGED <<index, load, phase, deleted>>

\* update_resource_usage
ReportUsage(c) ==
  /\ phase = "up"
  /\ c \in table
  /\ rows[c].usage < MaxUsage
  /\ rows' = [rows EXCEPT ![c].usage = @ + 1]
  /\ UNCHANGED <<table, index, load, phase, deleted>>

\* The clock passes expires_at.
Expire(c) ==
  /\ rows[c] # None
  /\ rows[c].expiry = "ahead"
  /\ rows' = [rows EXCEPT ![c].expiry = "passed"]
  /\ UNCHANGED <<table, index, load, phase, deleted>>

\* Faulty choice: a context that failed to load is never collected.
ExpiredRunning == {c \in table : rows[c].expiry = "passed" /\ rows[c].status # "error"}

Expired == {c \in table : rows[c].expiry = "passed"}

\* cleanup_expired_contexts, from the periodic task.
Cleanup ==
  /\ phase = "up"
  /\ Expired # {}
  /\ Remove(Expired)
  /\ UNCHANGED <<rows, load, phase>>

\* shutdown up to its await of the cancelled periodic task.
BeginShutdown ==
  /\ phase = "up"
  /\ phase' = "stopping"
  /\ UNCHANGED <<rows, table, index, load, deleted>>

\* shutdown after its await: every context is deleted, no load is cancelled.
EndShutdown ==
  /\ phase = "stopping"
  /\ phase' = "down"
  /\ Remove(table)
  /\ UNCHANGED <<rows, load>>

Next ==
  \/ Initialize
  \/ \E c \in Contexts :
       \/ \E t \in Tenants, expiry \in {"never", "ahead"} : Create(c, t, expiry)
       \/ StartLoad(c)
       \/ FinishLoad(c)
       \/ Delete(c)
       \/ ReportUsage(c)
       \/ Expire(c)
  \/ Cleanup
  \/ BeginShutdown
  \/ EndShutdown

Spec == Init /\ [][Next]_paasVars

\* The event loop runs what is ready: tasks that were created, sleeps that are
\* over, an awaited task that has ended. No caller is obliged to anything, and
\* the process does not end.
FairSpec ==
  /\ Spec
  /\ \A c \in Contexts : WF_paasVars(StartLoad(c)) /\ WF_paasVars(FinishLoad(c))
  /\ WF_paasVars(Cleanup)
  /\ WF_paasVars(EndShutdown)

-----------------------------------------------------------------------------
(* Properties                                                              *)

\* What a tenant is shown exists and is its own: get_tenant_contexts lists no
\* context that is deleted, and none of another tenant.
ListedAreLive == \A t \in Tenants : index[t] \subseteq {c \in table : rows[c].tenant = t}

\* A live context that its tenant is not shown, and that check_tenant_resources
\* does not count, is one whose load has ended: nothing but the end of a load
\* makes the table and the lists disagree.
UnlistedAreLoaded ==
  \A c \in table : c \notin index[rows[c].tenant] =>
    load[c] = "done" /\ rows[c].status # "initializing" /\ c \in deleted

\* Only the end of its own load brings a deleted context back, so a context
\* comes back once, and after its load a deletion is final.
OnlyLoadsBringBack ==
  [][\A c \in deleted : c \notin table /\ c \in table' =>
       load[c] = "loading" /\ load'[c] = "done"]_paasVars

\* An expired context is collected while the manager runs, one that came back
\* included.
ExpiredAreCollected ==
  \A c \in Contexts :
    c \in table /\ rows[c].expiry = "passed" ~> c \notin table \/ phase = "down"
=============================================================================
