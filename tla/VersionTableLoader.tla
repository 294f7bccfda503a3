------------------------- MODULE VersionTableLoader -------------------------
(***************************************************************************)
(* The model loader of mcp_paas/models/loader.py as its fourth class       *)
(* states it: a table of loaded versions per model, one of them active,    *)
(* and a lock per model.                                                   *)
(*                                                                         *)
(* The registry is a parameter of the class and is awaited, so it is not   *)
(* the synchronous one of registry.py: here it is any service that answers *)
(* which versions a model has and which is the latest.  Four methods are   *)
(* called and not written: _load_model_from_path and _validate_model,      *)
(* which may be suspended and may raise; and the two that initialize       *)
(* starts as tasks, _periodic_cleanup and _periodic_health_check, for      *)
(* which the class as it stands does nothing.  A model may have a cleanup  *)
(* method, which may raise too.  asyncio.Lock serves its waiters in order. *)
(***************************************************************************)
EXTENDS SequencesExt

CONSTANTS
  Models,
  Versions,   \* in the order in which they are created
  Requests,   \* calls that can be under way at once
  None

VARIABLES
  registered, \* the versions in the registry
  loaded,     \* _loaded_models: the versions in insertion order, None: no key
  active,     \* _active_versions
  metered,    \* _model_metrics: the versions with metrics
  queue,      \* who holds the lock of each model, then who waits for it
  call,       \* where each call stands
  torn        \* history: models of which an unload of all versions failed

vtVars == <<registered, loaded, active, metered, queue, call, torn>>

Idle == [at |-> "idle"]

Listed(m) == IF loaded[m] = None THEN {}
             ELSE {loaded[m][i] : i \in DOMAIN loaded[m]}

VersionTableTypeOK ==
  /\ registered \in [Models -> SUBSET Versions]
  /\ \A m \in Models : loaded[m] = None \/ loaded[m] \in Seq(Versions)
  /\ active \in [Models -> Versions \cup {None}]
  /\ metered \in [Models -> SUBSET Versions]
  /\ \A m \in Models : queue[m] \in Seq(Requests)
  /\ call \in [Requests ->
       [at : {"waiting", "loading", "validating", "cleaning", "stuck"}, m : Models,
        op : {"load", "unload", "switch"}, v : Versions \cup {None}] \cup {Idle}]
  /\ torn \subseteq Models

Init ==
  /\ registered = [m \in Models |-> {}]
  /\ loaded = [m \in Models |-> None]
  /\ active = [m \in Models |-> None]
  /\ metered = [m \in Models |-> {}]
  /\ queue = [m \in Models |-> <<>>]
  /\ call = [r \in Requests |-> Idle]
  /\ torn = {}

(* A version is added to the registry; none is removed from it.            *)
Register(m, v) ==
  /\ \A w \in registered[m] : v > w
  /\ registered' = [registered EXCEPT ![m] = @ \cup {v}]
  /\ UNCHANGED <<loaded, active, metered, queue, call, torn>>

Ask(r, op, m, v) ==
  /\ call[r] = Idle
  /\ call' = [call EXCEPT ![r] = [at |-> "waiting", op |-> op, m |-> m, v |-> v]]
  /\ queue' = [queue EXCEPT ![m] = Append(@, r)]
  /\ UNCHANGED <<registered, loaded, active, metered, torn>>

(* unload_all_models, and shutdown with it, unload every version of each   *)
(* model in turn; here each of these unloads is a call of its own.         *)
UnloadAll(r, m) == Ask(r, "unload", m, None)

(* get_active_model answers from the tables without the lock, or loads:    *)
(* the latest version, or the active one when it is not there.             *)
GetActive(r, m) ==
  /\ active[m] \notin Listed(m)
  /\ Ask(r, "load", m, active[m])

(* The call holds the lock of its model and stands at a.                   *)
Holds(r, op, a) ==
  /\ call[r].at = a /\ call[r].op = op /\ Head(queue[call[r].m]) = r

Goes(r, a) == call' = [call EXCEPT ![r].at = a] /\ UNCHANGED queue

Returns(r) ==
  /\ call' = [call EXCEPT ![r] = Idle]
  /\ queue' = [queue EXCEPT ![call[r].m] = Tail(@)]

(* load_model finds its version in the registry, and loaded or not.        *)
Lookup(r) == LET m == call[r].m
                 w == IF call[r].v = None THEN Max(registered[m]) ELSE call[r].v IN
  /\ Holds(r, "load", "waiting")
  /\ IF registered[m] = {} \/ call[r].v \notin registered[m] \cup {None}
       THEN Returns(r)
     ELSE IF w \in Listed(m) THEN Returns(r)
     ELSE call' = [call EXCEPT ![r].at = "loading", ![r].v = w] /\ UNCHANGED queue
  /\ UNCHANGED <<registered, loaded, active, metered, torn>>

Store(r) == LET m == call[r].m  v == call[r].v IN
  /\ Holds(r, "load", "loading")
  /\ loaded' = [loaded EXCEPT ![m] = IF @ = None THEN <<v>> ELSE Append(@, v)]
  /\ metered' = [metered EXCEPT ![m] = @ \cup {v}]
  /\ active' = [active EXCEPT ![m] = IF @ = None THEN v ELSE @]
  /\ Goes(r, "validating") /\ UNCHANGED <<registered, torn>>

LoadFails(r) ==
  /\ Holds(r, "load", "loading") /\ Returns(r)
  /\ UNCHANGED <<registered, loaded, active, metered, torn>>

(* Validation passed or raised: the version stays in the tables.           *)
Validated(r) ==
  /\ Holds(r, "load", "validating") /\ Returns(r)
  /\ UNCHANGED <<registered, loaded, active, metered, torn>>

UnloadNothing(r) == LET m == call[r].m IN
  /\ Holds(r, "unload", "waiting")
  /\ loaded[m] = None \/ call[r].v \notin Listed(m) \cup {None}
  /\ Returns(r) /\ UNCHANGED <<registered, loaded, active, metered, torn>>

\* Faulty unload: no other version becomes the active one.
UnloadOneOnly(r) == LET m == call[r].m  v == call[r].v IN
  /\ Holds(r, "unload", "waiting") /\ v \in Listed(m)
  /\ active' = [active EXCEPT ![m] = IF @ # v THEN @ ELSE None]
  /\ loaded' = [loaded EXCEPT ![m] = RemoveFirst(@, v)]
  /\ Goes(r, "cleaning") /\ UNCHANGED <<registered, metered, torn>>

(* One version: another loaded version becomes the active one first.       *)
UnloadOne(r) == LET m == call[r].m  v == call[r].v
                    rest == RemoveFirst(loaded[m], v) IN
  /\ Holds(r, "unload", "waiting") /\ v \in Listed(m)
  /\ active' = [active EXCEPT ![m] = IF @ # v THEN @
                                     ELSE IF rest = <<>> THEN None ELSE Head(rest)]
  /\ loaded' = [loaded EXCEPT ![m] = rest]
  /\ Goes(r, "cleaning") /\ UNCHANGED <<registered, metered, torn>>

OneCleaned(r) == LET m == call[r].m IN
  /\ Holds(r, "unload", "cleaning") /\ call[r].v # None
  /\ metered' = [metered EXCEPT ![m] = @ \ {call[r].v}]
  /\ loaded' = [loaded EXCEPT ![m] = IF @ = <<>> THEN None ELSE @]
  /\ Returns(r) /\ UNCHANGED <<registered, active, torn>>

(* All versions: popped and cleaned up one by one, the rest of the tables  *)
(* at the end.                                                             *)
UnloadNext(r) == LET m == call[r].m IN
  /\ Holds(r, "unload", "waiting") \/ Holds(r, "unload", "cleaning")
  /\ call[r].v = None /\ loaded[m] \notin {None, <<>>}
  /\ loaded' = [loaded EXCEPT ![m] = Tail(@)]
  /\ Goes(r, "cleaning") /\ UNCHANGED <<registered, active, metered, torn>>

AllCleaned(r) == LET m == call[r].m IN
  /\ Holds(r, "unload", "waiting") \/ Holds(r, "unload", "cleaning")
  /\ call[r].v = None /\ loaded[m] = <<>>
  /\ metered' = [metered EXCEPT ![m] = {}]
  /\ active' = [active EXCEPT ![m] = None]
  /\ loaded' = [loaded EXCEPT ![m] = None]
  /\ torn' = torn \ {m}
  /\ Returns(r) /\ UNCHANGED registered

(* The cleanup of a version raises: the unload answers False where it is.  *)
CleanupRaises(r) ==
  /\ Holds(r, "unload", "cleaning")
  /\ torn' = IF call[r].v = None THEN torn \cup {call[r].m} ELSE torn
  /\ Returns(r) /\ UNCHANGED <<registered, loaded, active, metered>>

(* switch_model_version activates a loaded version; for another one it     *)
(* calls load_model, which waits for the lock that the switch holds.       *)
Switch(r) == LET m == call[r].m  v == call[r].v IN
  /\ Holds(r, "switch", "waiting")
  /\ v \in registered[m] => v \in Listed(m)
  /\ active' = [active EXCEPT ![m] = IF v \in registered[m] THEN v ELSE @]
  /\ Returns(r) /\ UNCHANGED <<registered, loaded, metered, torn>>

SwitchSticks(r) == LET m == call[r].m IN
  /\ Holds(r, "switch", "waiting")
  /\ call[r].v \in registered[m] \ Listed(m)
  /\ Goes(r, "stuck") /\ UNCHANGED <<registered, loaded, active, metered, torn>>

Step(r) ==
  \/ Lookup(r) \/ Store(r) \/ LoadFails(r) \/ Validated(r)
  \/ UnloadNothing(r) \/ UnloadOne(r) \/ OneCleaned(r)
  \/ UnloadNext(r) \/ AllCleaned(r) \/ CleanupRaises(r)
  \/ Switch(r) \/ SwitchSticks(r)

Next ==
  \/ \E m \in Models, v \in Versions : Register(m, v)
  \/ \E r \in Requests, m \in Models :
       \/ \E v \in Versions \cup {None} : Ask(r, "load", m, v)
       \/ \E v \in Versions, op \in {"unload", "switch"} : Ask(r, op, m, v)
       \/ UnloadAll(r, m) \/ GetActive(r, m)
  \/ \E r \in Requests : Step(r)

Spec == Init /\ [][Next]_vtVars

(* The event loop runs every call that can go on; what a load or a cleanup *)
(* awaits ends.                                                            *)
FairSpec == Spec /\ \A r \in Requests : WF_vtVars(Step(r))
-----------------------------------------------------------------------------
(* Nothing of the model is being unloaded as a whole, and no such unload   *)
(* has failed half-way.                                                    *)
Settled(m) ==
  /\ m \notin torn
  /\ \A r \in Requests : ~(call[r].at = "cleaning" /\ call[r].m = m /\ call[r].v = None)

(* "The active version is not loaded, which shouldn't happen"              *)
(* (loader.py:1561): a model has an active version just when it has a      *)
(* loaded one, the active version is loaded, and every loaded version has  *)
(* its metrics, unless an unload of all versions is between two of them or *)
(* was cut short there.                                                    *)
ActiveIsLoaded ==
  \A m \in Models : Settled(m) =>
    /\ active[m] = None <=> Listed(m) = {}
    /\ active[m] # None => active[m] \in Listed(m)
    /\ Listed(m) \subseteq metered[m]

(* Every call ends, unless a switch to a version that is not loaded holds  *)
(* the lock of its model, and waits for it (loader.py:1597).               *)
CallsEnd ==
  \A r \in Requests, m \in Models :
    (call[r].at # "idle" /\ call[r].m = m) ~>
      (call[r] = Idle \/ \E q \in Requests : call[q].at = "stuck" /\ call[q].m = m)
=============================================================================
