-------------------------- MODULE ModelInfoLoader ---------------------------
(***************************************************************************)
(* The model loader of mcp_paas/models/loader.py as its last class states  *)
(* it: one loaded object per model, the current version and the status in  *)
(* a ModelInfo, a lock per model, checks before the lock.                  *)
(*                                                                         *)
(* The file ends inside switch_model_version, and four methods that it     *)
(* calls are not in it; of these the check of the artifacts may suspend    *)
(* the load and may raise.  Without them no model is ever marked in use.   *)
(* The registry of registry.py cannot be awaited, so the models are those  *)
(* found on the disk.                                                      *)
(***************************************************************************)
EXTENDS Sequences, FiniteSetsExt

CONSTANTS
  Models,
  Versions,   \* version directories, in the order of their st_ctime
  Requests,   \* calls that can be under way at once
  None

ASSUME ModelInfoAssumption ==
  /\ Versions \subseteq Nat /\ None \notin Versions /\ IsFiniteSet(Versions)

VARIABLES
  known,      \* model_info: the versions found
  current,    \* model_info: current_version
  status,     \* model_info: status
  object,     \* loaded_models: the version of the object
  queue,      \* who holds the lock of each model, then who waits for it
  call,       \* where each call stands
  served      \* what the last load that each call asked for returned

miVars == <<known, current, status, object, queue, call, served>>

Idle == [at |-> "idle"]

ModelInfoTypeOK ==
  /\ known \in [Models -> SUBSET Versions]
  /\ current \in [Models -> Versions \cup {None}]
  /\ status \in [Models -> {"unloaded", "loading", "ready", "error"}]
  /\ object \in [Models -> Versions \cup {None}]
  /\ \A m \in Models : queue[m] \in Seq(Requests)
  /\ call \in [Requests ->
       [at : {"waiting", "loading"}, op : {"load", "unload"}, m : Models,
        v : Versions \cup {None}, todo : SUBSET Models] \cup {Idle}]
  /\ served \in [Requests -> [want : Versions, got : Versions] \cup {None}]

(* _discover_models, before any call: the newest directory is current.     *)
Init ==
  /\ known \in [Models -> SUBSET Versions]
  /\ current \in [Models -> Versions \cup {None}]
  /\ \A m \in Models : IF known[m] = {} THEN current[m] = None
       ELSE current[m] \in known[m] /\ \A v \in known[m] : v <= current[m]
  /\ status = [m \in Models |-> "unloaded"]
  /\ object = [m \in Models |-> None]
  /\ queue = [m \in Models |-> <<>>]
  /\ call = [r \in Requests |-> Idle]
  /\ served = [r \in Requests |-> None]

(* load_model before the lock: which version, and whether it is there.     *)
Wanted(m, v) == IF v = None THEN current[m] ELSE v

Cached(m, w) == object[m] # None /\ current[m] = w /\ status[m] = "ready"

LoadCached(r, m, v) == LET w == Wanted(m, v) IN
  /\ call[r] = Idle /\ w \in known[m] /\ Cached(m, w)
  /\ served' = [served EXCEPT ![r] = [want |-> w, got |-> object[m]]]
  /\ UNCHANGED <<known, current, status, object, queue, call>>

\* Faulty start of a load: the status stays what it was.
BeginQuietly(m, w) == current' = [current EXCEPT ![m] = w] /\ UNCHANGED status

(* A free lock is taken without being suspended; else the call waits, with *)
(* the version that was current when it came.                              *)
Begin(m, w) ==
  /\ status' = [status EXCEPT ![m] = "loading"]
  /\ current' = [current EXCEPT ![m] = w]

AskLoad(r, m, v) == LET w == Wanted(m, v) IN
  /\ call[r] = Idle /\ w \in known[m] /\ ~Cached(m, w)
  /\ queue' = [queue EXCEPT ![m] = Append(@, r)]
  /\ call' = [call EXCEPT ![r] =
       [at |-> IF queue[m] = <<>> THEN "loading" ELSE "waiting",
        op |-> "load", m |-> m, v |-> w, todo |-> {}]]
  /\ IF queue[m] = <<>> THEN Begin(m, w) ELSE UNCHANGED <<status, current>>
  /\ UNCHANGED <<known, object, served>>

Holds(r, op, a) ==
  /\ call[r].at = a /\ call[r].op = op /\ Head(queue[call[r].m]) = r

StartLoad(r) ==
  /\ Holds(r, "load", "waiting")
  /\ Begin(call[r].m, call[r].v)
  /\ call' = [call EXCEPT ![r].at = "loading"]
  /\ UNCHANGED <<known, object, queue, served>>

Release(r) ==
  /\ queue' = [queue EXCEPT ![call[r].m] = Tail(@)]
  /\ call' = [call EXCEPT ![r] = Idle]

Loaded(r) == LET m == call[r].m  v == call[r].v IN
  /\ Holds(r, "load", "loading")
  /\ status' = [status EXCEPT ![m] = "ready"]
  /\ object' = [object EXCEPT ![m] = v]
  /\ served' = [served EXCEPT ![r] = [want |-> v, got |-> v]]
  /\ Release(r) /\ UNCHANGED <<known, current>>

(* The load raises: current_version stays switched, the old object stays.  *)
LoadFails(r) ==
  /\ Holds(r, "load", "loading")
  /\ status' = [status EXCEPT ![call[r].m] = "error"]
  /\ Release(r) /\ UNCHANGED <<known, current, object, served>>

(* unload_model, and unload_all_models over the keys it finds, in turn,    *)
(* which is all of shutdown that touches models; an unload that finds the  *)
(* lock free takes two steps here for its one.                             *)
AskUnload(r, S) ==
  /\ call[r] = Idle
  /\ \E m \in S :
       /\ queue' = [queue EXCEPT ![m] = Append(@, r)]
       /\ call' = [call EXCEPT ![r] = [at |-> "waiting", op |-> "unload", m |-> m,
                                       v |-> None, todo |-> S \ {m}]]
  /\ UNCHANGED <<known, current, status, object, served>>

AskUnloadAll(r) == AskUnload(r, {m \in Models : object[m] # None})

\* Faulty unload of all models: each lock is kept until the last is had.
UnloadKeepingLocks(r) == LET m == call[r].m IN
  /\ Holds(r, "unload", "waiting")
  /\ status' = [status EXCEPT ![m] = IF object[m] = None THEN @ ELSE "unloaded"]
  /\ object' = [object EXCEPT ![m] = None]
  /\ \/ /\ call[r].todo = {}
        /\ queue' = [n \in Models |-> SelectSeq(queue[n], LAMBDA q : q # r)]
        /\ call' = [call EXCEPT ![r] = Idle]
     \/ \E n \in call[r].todo :
          /\ queue' = [queue EXCEPT ![n] = Append(@, r)]
          /\ call' = [call EXCEPT ![r].m = n, ![r].todo = @ \ {n}]
  /\ UNCHANGED <<known, current, served>>

Unload(r) == LET m == call[r].m IN
  /\ Holds(r, "unload", "waiting")
  /\ status' = [status EXCEPT ![m] = IF object[m] = None THEN @ ELSE "unloaded"]
  /\ object' = [object EXCEPT ![m] = None]
  /\ \/ call[r].todo = {} /\ Release(r)
     \/ \E n \in call[r].todo :
          /\ queue' = [queue EXCEPT ![m] = Tail(@), ![n] = Append(@, r)]
          /\ call' = [call EXCEPT ![r].m = n, ![r].todo = @ \ {n}]
  /\ UNCHANGED <<known, current, served>>

Step(r) == StartLoad(r) \/ Loaded(r) \/ LoadFails(r) \/ Unload(r)

Next ==
  \/ \E r \in Requests, m \in Models :
       \/ \E v \in Versions \cup {None} : LoadCached(r, m, v) \/ AskLoad(r, m, v)
       \/ known[m] # {} /\ AskUnload(r, {m})
  \/ \E r \in Requests : AskUnloadAll(r) \/ Step(r)

Spec == Init /\ [][Next]_miVars

(* The event loop runs every call that can go on, and a load ends.         *)
FairSpec == Spec /\ \A r \in Requests : WF_miVars(Step(r))
-----------------------------------------------------------------------------
(* What the ModelInfo of a model says is what is loaded, and being done: a *)
(* ready model has the object of its current version, so that a load that  *)
(* finds its version ready returns that version; a model is loading just   *)
(* while a load of its current version holds its lock.  current_version is *)
(* written long before the object, and kept when the load raises           *)
(* (loader.py:1899, :1932).                                                *)
InfoTellsObject ==
  /\ \A m \in Models : status[m] = "ready" => object[m] # None /\ object[m] = current[m]
  /\ \A m \in Models : status[m] = "loading" <=>
       \E r \in Requests : /\ call[r].at = "loading" /\ call[r].m = m
                           /\ call[r].v = current[m] /\ Head(queue[m]) = r
  /\ \A r \in Requests : served[r] # None => served[r].got = served[r].want

(* Every call ends: the calls of one model pass its lock in turn.          *)
CallsEnd == \A r \in Requests : call[r] # Idle ~> call[r] = Idle
=============================================================================
