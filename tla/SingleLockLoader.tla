-------------------------- MODULE SingleLockLoader --------------------------
(***************************************************************************)
(* The model loader of mcp_paas/models/loader.py as its first class states *)
(* it: one asyncio.Lock, not reentrant, for every table.                   *)
(*                                                                         *)
(* Nothing that runs under the lock is suspended except by asking for the  *)
(* lock again, so a call that takes the lock either ends in one step or    *)
(* waits for itself for ever.  It does that wherever it unloads a model:   *)
(* unload_model takes the lock too.  The health check passes every         *)
(* placeholder model, and so never reloads one; a background task that     *)
(* asks for a lock which is never released is blocked until shutdown.      *)
(***************************************************************************)
EXTENDS SequencesExt

CONSTANTS
  Models,
  Versions,   \* directory names, as ranks in their string order
  Requests,   \* calls that can be under way at once
  MaxLoaded,  \* max_models_loaded
  None

VARIABLES
  dirs,       \* the version directories of each model
  versions,   \* model_versions: the active version, the available ones
  loaded,     \* loaded_models: the version
  lastUsed,   \* the keys of last_accessed, the least recently used first
  healthy,    \* the keys of health_status
  asked,      \* what each call asks and waits for
  holder,     \* the call that waits for the lock it holds
  up,         \* the background tasks run, or one of them waits for ever
  explicit    \* history: models loaded by a call that named the version

slVars == <<dirs, versions, loaded, lastUsed, healthy, asked, holder, up, explicit>>

Idle == [op |-> "none"]

Loaded == {m \in Models : loaded[m] # None}

SingleLockTypeOK ==
  /\ dirs \in [Models -> SUBSET Versions]
  /\ versions \in [Models -> [active : Versions, available : SUBSET Versions] \cup {None}]
  /\ loaded \in [Models -> Versions \cup {None}]
  /\ lastUsed \in Seq(Models) /\ Len(lastUsed) = Cardinality(Loaded)
  /\ {lastUsed[i] : i \in DOMAIN lastUsed} = Loaded /\ healthy = Loaded
  /\ asked \in [Requests -> [op : {"load", "unload", "switch"}, m : Models,
                             v : Versions \cup {None}] \cup {Idle}]
  /\ holder \in Requests \cup {None} /\ up \in {"new", "yes", "blocked", "no"}
  /\ explicit \subseteq Models

Init ==
  /\ dirs \in [Models -> SUBSET Versions]
  /\ versions = [m \in Models |-> None]
  /\ loaded = [m \in Models |-> None]
  /\ lastUsed = <<>> /\ healthy = {}
  /\ asked = [r \in Requests |-> Idle]
  /\ holder = None /\ up = "new" /\ explicit = {}

(* initialize: the last directory in string order is the active version.   *)
Scan ==
  /\ up = "new" /\ up' = "yes"
  /\ versions' = [m \in Models |-> IF dirs[m] = {} THEN None
                    ELSE [active |-> Max(dirs[m]), available |-> dirs[m]]]
  /\ UNCHANGED <<dirs, loaded, lastUsed, healthy, asked, holder, explicit>>

(* A directory disappears: nothing tells the loader.                       *)
DirectoryGone(m, v) ==
  /\ v \in dirs[m] /\ up # "new"
  /\ dirs' = [dirs EXCEPT ![m] = @ \ {v}]
  /\ UNCHANGED <<versions, loaded, lastUsed, healthy, asked, holder, up, explicit>>

Ask(r, op, m, v) ==
  /\ asked[r] = Idle /\ up # "new"
  /\ asked' = [asked EXCEPT ![r] = [op |-> op, m |-> m, v |-> v]]
  /\ UNCHANGED <<dirs, versions, loaded, lastUsed, healthy, holder, up, explicit>>

(* A call has the lock.                                                    *)
Takes(r, op) == asked[r].op = op /\ holder = None

Returns(r) == asked' = [asked EXCEPT ![r] = Idle] /\ UNCHANGED holder

(* It asks for the lock it holds.                                          *)
Sticks(r) == holder' = r /\ UNCHANGED <<loaded, lastUsed, healthy, asked, explicit>>

Known(m, v) == versions[m] # None /\ (v = None \/ v \in versions[m].available)

Touch(m) ==
  lastUsed' = Append(RemoveFirst(lastUsed, m), m)

(* The version a load wants is there, or the load makes it so, or it must  *)
(* first unload something: the other version of this model, or the least   *)
(* recently used model when there is no room.                              *)
LoadCached(r) == LET m == asked[r].m IN
  /\ Takes(r, "load") /\ m \in Loaded /\ asked[r].v \in {None, loaded[m]}
  /\ Touch(m) /\ Returns(r)
  /\ UNCHANGED <<dirs, versions, loaded, healthy, up, explicit>>

Full == Cardinality(Loaded) >= MaxLoaded

(* A load goes on when there is a place, or nothing to clean up: then       *)
(* _cleanup_least_used_models returns without asking for the lock.          *)
HasRoom == ~Full \/ Loaded = {}

\* Faulty load: the default is the newest directory of the moment.
LoadNewLatest(r) == LET m == asked[r].m  v == asked[r].v
                        w == IF v = None THEN Max(dirs[m]) ELSE v IN
  /\ Takes(r, "load") /\ m \notin Loaded /\ Known(m, v)
  /\ HasRoom /\ dirs[m] # {} /\ w \in dirs[m]
  /\ loaded' = [loaded EXCEPT ![m] = w]
  /\ Touch(m) /\ healthy' = healthy \cup {m}
  /\ explicit' = IF v = None THEN explicit \ {m} ELSE explicit \cup {m}
  /\ Returns(r)
  /\ UNCHANGED <<dirs, versions, up>>

LoadNew(r) == LET m == asked[r].m  v == asked[r].v
                  w == IF v = None THEN versions[m].active ELSE v IN
  /\ Takes(r, "load") /\ m \notin Loaded /\ Known(m, v)
  /\ HasRoom /\ w \in dirs[m]
  /\ loaded' = [loaded EXCEPT ![m] = w]
  /\ Touch(m) /\ healthy' = healthy \cup {m}
  /\ explicit' = IF v = None THEN explicit \ {m} ELSE explicit \cup {m}
  /\ Returns(r)
  /\ UNCHANGED <<dirs, versions, up>>

LoadRefused(r) == LET m == asked[r].m  v == asked[r].v IN
  /\ Takes(r, "load") /\ m \notin Loaded
  /\ \/ ~Known(m, v)
     \/ Loaded = {}         \* memory is short, and there is nothing to unload
     \/ /\ Known(m, v) /\ HasRoom
        /\ (IF v = None THEN versions[m].active ELSE v) \notin dirs[m]
  /\ Returns(r)
  /\ UNCHANGED <<dirs, versions, loaded, lastUsed, healthy, up, explicit>>

LoadSticks(r, low) == LET m == asked[r].m  v == asked[r].v IN
  /\ Takes(r, "load")
  /\ \/ m \in Loaded /\ v \notin {None, loaded[m]}
     \/ m \notin Loaded /\ Known(m, v) /\ Loaded # {} /\ (Full \/ low)
  /\ Sticks(r) /\ UNCHANGED <<dirs, versions, up>>

\* Faulty unload: the time of the last use is kept.
DropKeepsTime(S, rest) ==
  /\ loaded' = [m \in Models |-> IF m \in S THEN None ELSE loaded[m]]
  /\ lastUsed' = lastUsed
  /\ healthy' = healthy \ S /\ explicit' = explicit \ S

(* The effect of unload_model on a set of models, one after the other: the *)
(* times of the rest stay.                                                 *)
Drop(S, rest) ==
  /\ loaded' = [m \in Models |-> IF m \in S THEN None ELSE loaded[m]]
  /\ lastUsed' = rest
  /\ healthy' = healthy \ S /\ explicit' = explicit \ S

Unload(r) ==
  /\ Takes(r, "unload") /\ Returns(r)
  /\ Drop({asked[r].m}, RemoveFirst(lastUsed, asked[r].m))
  /\ UNCHANGED <<dirs, versions, up>>

(* switch_version to the version that is active and loaded.                *)
SwitchCached(r) == LET m == asked[r].m IN
  /\ Takes(r, "switch") /\ Known(m, asked[r].v)
  /\ asked[r].v = versions[m].active /\ asked[r].v = loaded[m]
  /\ Touch(m) /\ Returns(r)
  /\ UNCHANGED <<dirs, versions, loaded, healthy, up, explicit>>

SwitchRefused(r) ==
  /\ Takes(r, "switch") /\ ~Known(asked[r].m, asked[r].v) /\ Returns(r)
  /\ UNCHANGED <<dirs, versions, loaded, lastUsed, healthy, up, explicit>>

(* Every other switch calls unload_model or load_model under the lock.     *)
SwitchSticks(r) == LET m == asked[r].m  v == asked[r].v IN
  /\ Takes(r, "switch") /\ Known(m, v) /\ ~(v = versions[m].active /\ v = loaded[m])
  /\ versions' = [versions EXCEPT ![m].active = v]
  /\ Sticks(r) /\ UNCHANGED <<dirs, up>>

(* The cleanup task unloads the two least recently used models when memory *)
(* is low, otherwise those not used for an hour; it holds no lock then.    *)
CleanupRound(n) ==
  /\ up = "yes" /\ holder = None
  /\ Drop({lastUsed[i] : i \in 1..n}, SubSeq(lastUsed, n + 1, Len(lastUsed)))
  /\ UNCHANGED <<dirs, versions, asked, holder, up>>

(* The health check takes the lock for each loaded model and finds it well.*)
HealthRound ==
  /\ up = "yes" /\ holder = None /\ Loaded # {}
  /\ healthy' = healthy \cup Loaded
  /\ UNCHANGED <<dirs, versions, loaded, lastUsed, asked, holder, up, explicit>>

(* Either task asks for the lock of a call that waits for itself.          *)
TaskBlocks ==
  /\ up = "yes" /\ holder # None /\ Loaded # {}
  /\ up' = "blocked"
  /\ UNCHANGED <<dirs, versions, loaded, lastUsed, healthy, asked, holder, explicit>>

(* shutdown cancels the tasks; it too needs the lock for each model.       *)
Shutdown ==
  /\ up \in {"yes", "blocked"} /\ up' = "no"
  /\ IF holder = None THEN Drop(Loaded, <<>>) ELSE Drop({}, lastUsed)
  /\ UNCHANGED <<dirs, versions, asked, holder>>

Serve(r) ==
  \/ LoadCached(r) \/ LoadNew(r) \/ LoadRefused(r) \/ Unload(r)
  \/ (\E low \in BOOLEAN : LoadSticks(r, low))
  \/ SwitchCached(r) \/ SwitchRefused(r) \/ SwitchSticks(r)

Next ==
  \/ Scan \/ HealthRound \/ TaskBlocks \/ Shutdown
  \/ \E m \in Models, v \in Versions : DirectoryGone(m, v)
  \/ \E r \in Requests, m \in Models :
       \/ \E v \in Versions \cup {None} : Ask(r, "load", m, v)
       \/ Ask(r, "unload", m, None)
       \/ \E v \in Versions : Ask(r, "switch", m, v)
  \/ \E r \in Requests : Serve(r)
  \/ \E n \in 1..Len(lastUsed) : CleanupRound(n)

Spec == Init /\ [][Next]_slVars
-----------------------------------------------------------------------------
(* The call that waits for itself is switching this model.                 *)
HalfWay(m) == holder # None /\ asked[holder].op = "switch" /\ asked[holder].m = m

(* What a call waits for itself for: a switch that has made its version the *)
(* active one, or a load that must unload what is loaded.                   *)
MustUnload(c) ==
  \/ c.op = "switch" /\ versions[c.m].active = c.v
  \/ c.op = "load" /\ Loaded # {} /\ (loaded[c.m] = None \/ c.v \notin {None, loaded[c.m]})

FewLoaded == Cardinality(Loaded) <= MaxLoaded \/ Cardinality(Loaded) = 1

TellsServed == \A m \in Loaded \ explicit : loaded[m] = versions[m].active \/ HalfWay(m)

(* No more models are loaded than max_models_loaded (loader.py:205), or one *)
(* where that is 0. The one loaded is the active version, unless a call     *)
(* named another one or a switch of that model has stuck: what              *)
(* model_versions tells a reader is what the next call is served. And a     *)
(* call that has stuck stays so: whatever calls, clean-ups or a shutdown    *)
(* come after it, what a load would have to unload is still loaded, and     *)
(* the version of a switch is still the active one.                         *)
ActiveServed ==
  /\ FewLoaded /\ TellsServed
  /\ holder # None => MustUnload(asked[holder])
=============================================================================
