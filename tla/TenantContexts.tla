--------------------------- MODULE TenantContexts ---------------------------
(***************************************************************************)
(* The context manager of services/context_manager.py as its second class  *)
(* states it: contexts in memory, per tenant, with limits, an hourly       *)
(* expiry and a thread pool for inference.                                 *)
(*                                                                         *)
(* Nothing that runs under a tenant's lock is ever suspended, so every     *)
(* method is one step; only an inference waits, for its thread.  cleanup   *)
(* waits for the threads on the event loop itself, so that nothing else    *)
(* runs on it meanwhile.                                                   *)
(***************************************************************************)
EXTENDS Naturals, FiniteSets

CONSTANTS
  Tenants, Contexts, Requests,
  MaxContexts,  \* max_contexts
  MaxMemory,    \* max_memory_mb, in contexts of 100 MB
  Workers       \* threads of the executor

VARIABLES
  contexts,   \* _contexts
  metadata,   \* the keys of _metadata
  count,      \* current_contexts
  memory,     \* total_memory_mb, in contexts
  idle,       \* contexts whose last access is more than an hour ago
  used,       \* history: identifiers that uuid4 has given
  run,        \* where the inference of each request stands
  pool        \* the executor

tcVars == <<contexts, metadata, count, memory, idle, used, run, pool>>

None == [at |-> "none"]

TenantContextsTypeOK ==
  /\ contexts \in [Tenants -> SUBSET Contexts]
  /\ metadata \in [Tenants -> SUBSET Contexts]
  /\ count \in [Tenants -> Nat] /\ memory \in [Tenants -> Nat]
  /\ idle \subseteq UNION {contexts[t] : t \in Tenants} /\ used \subseteq Contexts
  /\ run \in [Requests -> [at : {"queued", "running", "done"}, c : Contexts] \cup {None}]
  /\ pool \in {"open", "closing", "shut"}

Init ==
  /\ contexts = [t \in Tenants |-> {}] /\ metadata = contexts
  /\ count = [t \in Tenants |-> 0] /\ memory = count
  /\ idle = {} /\ used = {}
  /\ run = [r \in Requests |-> None]
  /\ pool = "open"

LoopRuns == pool # "closing"

(* _check_resource_limits counts the contexts and trusts the memory total. *)
WithinLimits(t) ==
  Cardinality(contexts[t]) < MaxContexts /\ memory[t] + 1 <= MaxMemory

Create(t, c) ==
  /\ LoopRuns /\ c \notin used /\ WithinLimits(t)
  /\ used' = used \cup {c}
  /\ contexts' = [contexts EXCEPT ![t] = @ \cup {c}]
  /\ metadata' = [metadata EXCEPT ![t] = @ \cup {c}]
  /\ count' = [count EXCEPT ![t] = @ + 1]
  /\ memory' = [memory EXCEPT ![t] = @ + 1]
  /\ UNCHANGED <<idle, run, pool>>

(* get_context, and the beginning of an inference.                         *)
Access(t, c) == LoopRuns /\ c \in contexts[t] /\ idle' = idle \ {c}

Get(t, c) ==
  /\ Access(t, c)
  /\ UNCHANGED <<contexts, metadata, count, memory, used, run, pool>>

(* list_contexts shows the metadata, not the contexts.                     *)
Listed(t) == metadata[t]

(* What _update_tenant_resources makes of a counter when n contexts go.    *)
Less(counter, n) == IF counter >= n THEN counter - n ELSE 0

\* Faulty removals: the last access stays; the memory is not given back.
RemoveKeepsAccess(S) ==
  /\ contexts' = [t \in Tenants |-> contexts[t] \ S]
  /\ metadata' = [t \in Tenants |-> metadata[t] \ S]
  /\ count' = [t \in Tenants |-> Less(count[t], Cardinality(contexts[t] \cap S))]
  /\ memory' = [t \in Tenants |-> Less(memory[t], Cardinality(contexts[t] \cap S))]
  /\ UNCHANGED idle

RemoveKeepsMemory(S) ==
  /\ contexts' = [t \in Tenants |-> contexts[t] \ S]
  /\ metadata' = [t \in Tenants |-> metadata[t] \ S]
  /\ count' = [t \in Tenants |-> Less(count[t], Cardinality(contexts[t] \cap S))]
  /\ idle' = idle \ S /\ UNCHANGED memory

(* The contexts of S go, with what is recorded of them.                    *)
Remove(S) ==
  /\ contexts' = [t \in Tenants |-> contexts[t] \ S]
  /\ metadata' = [t \in Tenants |-> metadata[t] \ S]
  /\ count' = [t \in Tenants |-> Less(count[t], Cardinality(contexts[t] \cap S))]
  /\ memory' = [t \in Tenants |-> Less(memory[t], Cardinality(contexts[t] \cap S))]
  /\ idle' = idle \ S

Delete(t, c) ==
  /\ LoopRuns /\ c \in contexts[t] /\ Remove({c}) /\ UNCHANGED <<used, run, pool>>

HourPasses(c) ==
  /\ \E t \in Tenants : c \in contexts[t] \ idle
  /\ idle' = idle \cup {c}
  /\ UNCHANGED <<contexts, metadata, count, memory, used, run, pool>>

(* A round of _periodic_cleanup, which nothing ever cancels.               *)
CleanupRound ==
  /\ LoopRuns /\ idle # {} /\ Remove(idle) /\ UNCHANGED <<used, run, pool>>

(* run_inference hands the context to the pool; a pool that is shut raises.*)
Infer(r, t, c) ==
  /\ run[r] = None /\ Access(t, c)
  /\ run' = IF pool = "open" THEN [run EXCEPT ![r] = [at |-> "queued", c |-> c]] ELSE run
  /\ UNCHANGED <<contexts, metadata, count, memory, used, pool>>

Moves(r, a, b) ==
  /\ run[r].at = a /\ run' = [run EXCEPT ![r].at = b]
  /\ UNCHANGED <<contexts, metadata, count, memory, idle, used, pool>>

\* Faulty executor: what is queued when it is shut down is never run.
TaskStartsOpen(r) ==
  /\ pool = "open"
  /\ Cardinality({q \in Requests : run[q].at = "running"}) < Workers
  /\ Moves(r, "queued", "running")

(* A thread of the pool takes the task and ends it: _run_inference_task.   *)
TaskStarts(r) ==
  /\ Cardinality({q \in Requests : run[q].at = "running"}) < Workers
  /\ Moves(r, "queued", "running")

TaskEnds(r) == Moves(r, "running", "done")

(* The loop gives the result to the call, whatever became of its context.  *)
Answer(r) ==
  /\ LoopRuns /\ run[r].at = "done"
  /\ run' = [run EXCEPT ![r] = None]
  /\ UNCHANGED <<contexts, metadata, count, memory, idle, used, pool>>

(* cleanup: the tables stay, the pool ends what it has been given.         *)
Cleanup ==
  /\ pool = "open" /\ pool' = "closing"
  /\ UNCHANGED <<contexts, metadata, count, memory, idle, used, run>>

PoolShut ==
  /\ pool = "closing" /\ \A r \in Requests : run[r].at \in {"none", "done"}
  /\ pool' = "shut"
  /\ UNCHANGED <<contexts, metadata, count, memory, idle, used, run>>

Work(r) == TaskStarts(r) \/ TaskEnds(r) \/ Answer(r)

Next ==
  \/ \E t \in Tenants, c \in Contexts :
       \/ Create(t, c) \/ Get(t, c) \/ Delete(t, c)
       \/ \E r \in Requests : Infer(r, t, c)
  \/ \E c \in Contexts : HourPasses(c)
  \/ \E r \in Requests : Work(r)
  \/ CleanupRound \/ Cleanup \/ PoolShut

Spec == Init /\ [][Next]_tcVars

(* The threads and the loop go on, the executor gives its threads the      *)
(* tasks in order, and ends when it has none.                              *)
Fairness ==
  /\ \A r \in Requests : WF_tcVars(TaskEnds(r)) /\ WF_tcVars(Answer(r))
  /\ \A r \in Requests : SF_tcVars(TaskStarts(r))
  /\ WF_tcVars(PoolShut)

FairSpec == Spec /\ Fairness
-----------------------------------------------------------------------------
(* The limits hold for what a tenant really has: the contexts, their       *)
(* metadata and the two counters that create, delete and the expiry keep   *)
(* up, each in its own way, agree (services/context_manager.py:890, :929). *)
CountersExact ==
  \A t \in Tenants :
    /\ Listed(t) = contexts[t]
    /\ count[t] = Cardinality(contexts[t]) /\ memory[t] = count[t]
    /\ count[t] <= MaxContexts /\ memory[t] <= MaxMemory

(* Every inference is answered, also one whose context expires under it    *)
(* and one that cleanup finds in the queue (services/context_manager.py:   *)
(* 759, 1087).                                                             *)
InferencesEnd == \A r \in Requests : run[r] # None ~> run[r] = None
=============================================================================
