--------------------------- MODULE MCModelLoaders ---------------------------
(***************************************************************************)
(* loader.py holds several classes named ModelLoader, one after the other. *)
(* A process has one of them: this module chooses one of the three that    *)
(* are modelled, and runs it.  The last class is extended, the other two   *)
(* are instantiated; what is not chosen does not move.                     *)
(***************************************************************************)
EXTENDS ModelInfoLoader

CONSTANTS
  TableModels,   \* those of the class with version tables, fewer
  MaxLoaded      \* max_models_loaded of the first class

ASSUME LoadersAssumption ==
  MaxLoaded \in Nat /\ None \notin Requests \cup Seq(Versions)

VARIABLES
  draft,                                                 \* the class
  dirs, versions, lastUsed, healthy, asked, holder, up, explicit,
  registered, active, metered, line, work, torn,
  loaded                                                 \* of both

Single == INSTANCE SingleLockLoader
Table == INSTANCE VersionTableLoader
           WITH Models <- TableModels, queue <- line, call <- work

singleVars == <<dirs, versions, lastUsed, healthy, asked, holder, up, explicit>>
tableVars == <<registered, active, metered, line, work, torn>>
loaderVars == <<draft, singleVars, tableVars, miVars, loaded>>

(* The tables of a class that is not there.                                *)
NoSingle ==
  /\ dirs = None /\ versions = None /\ lastUsed = None /\ healthy = None
  /\ asked = None /\ holder = None /\ up = None /\ explicit = None
NoTable ==
  /\ registered = None /\ active = None /\ metered = None /\ line = None /\ torn = None
  /\ work = [r \in Requests |-> Table!Idle]
NoInfo == Init /\ known = [m \in Models |-> {}]

LoadersInit ==
  \/ draft = "single" /\ Single!Init /\ NoTable /\ NoInfo
  \/ draft = "table" /\ Table!Init /\ NoSingle /\ NoInfo
  \/ draft = "info" /\ Init /\ loaded = None /\ NoSingle /\ NoTable

NextSingle == draft = "single" /\ Single!Next /\ UNCHANGED <<draft, tableVars, miVars>>
NextTable == draft = "table" /\ Table!Next /\ UNCHANGED <<draft, singleVars, miVars>>
NextInfo == draft = "info" /\ Next /\ UNCHANGED <<draft, singleVars, tableVars, loaded>>

LoadersNext == NextSingle \/ NextTable \/ NextInfo

StepOf(r) ==
  \/ draft = "table" /\ Table!Step(r) /\ UNCHANGED <<draft, singleVars, miVars>>
  \/ draft = "info" /\ Step(r) /\ UNCHANGED <<draft, singleVars, tableVars, loaded>>

LoadersFairSpec ==
  LoadersInit /\ [][LoadersNext]_loaderVars /\ \A r \in Requests : WF_loaderVars(StepOf(r))
-----------------------------------------------------------------------------
(* The tables of the chosen class have their types.                        *)
LoadersTypeOK ==
  /\ draft = "single" => Single!SingleLockTypeOK
  /\ draft = "table" => Table!VersionTableTypeOK
  /\ ModelInfoTypeOK

(* The properties of the classes; their modules say what they mean.        *)
ActiveServed == draft = "single" => Single!ActiveServed

(* The active version of a model is loaded: VersionTableLoader.            *)
ActiveIsLoaded == draft = "table" => Table!ActiveIsLoaded

(* Calls end, unless a switch waits for the lock it holds (loader.py:1597).*)
LoaderCallsEnd == CallsEnd /\ Table!CallsEnd
=============================================================================
