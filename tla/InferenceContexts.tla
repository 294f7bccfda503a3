------------------------- MODULE InferenceContexts --------------------------
(***************************************************************************)
(* The context manager of services/context_manager.py as its first class   *)
(* states it: contexts in a database behind one AsyncSession that every    *)
(* call shares, and inference that the status of a context gates.          *)
(*                                                                         *)
(* The session is SQLAlchemy's: one object per context, whose changes the  *)
(* next commit writes, whoever commits; a commit that fails leaves a       *)
(* session that refuses to commit until a rollback, and a rollback takes   *)
(* back the changes of every call.  It is taken to keep attributes after a *)
(* commit, and to read again what a rollback expired.  The file ends inside*)
(* _execute_inference: it answers, raises a timeout or raises.             *)
(***************************************************************************)
EXTENDS FiniteSetsExt

CONSTANTS Contexts, Requests

VARIABLES
  row,        \* the status in the database, "none": no row
  obj,        \* the status in the object of the session
  inSession,  \* contexts whose object belongs to the session
  dying,      \* contexts that the next commit deletes
  broken,     \* a commit failed and nothing was rolled back since
  mem,        \* the contexts in self.contexts
  lock,       \* inference_locks: which lock a context has, 0: none
  used,       \* history: identifiers that uuid4 has given
  call,       \* where each call stands
  undone,     \* history: contexts whose writer failed, or of which a rollback
              \* took back a change
  deleted     \* history: contexts that a deletion has ended for

icVars == <<row, obj, inSession, dying, broken, mem, lock, used, call, undone, deleted>>
session == <<row, obj, inSession, dying, broken>>

Status == {"initializing", "ready", "running", "error"}

Idle == [at |-> "idle"]

Inside == {"executing", "completing", "readying", "resetting"}

InferenceTypeOK ==
  /\ row \in [Contexts -> Status \cup {"none"}] /\ obj \in [Contexts -> Status]
  /\ inSession \subseteq Contexts /\ dying \subseteq inSession
  /\ broken \in BOOLEAN /\ mem \subseteq Contexts
  /\ lock \in [Contexts -> Nat] /\ inSession \cup mem \subseteq used /\ used \subseteq Contexts
  /\ call \in [Requests ->
       [at : {"fetched", "creating", "made", "cleaning", "deleting", "pending", "refusing",
              "starting", "locking"} \cup Inside,
        op : {"create", "get", "delete", "infer"}, c : Contexts, lock : Nat] \cup {Idle}]
  /\ undone \subseteq Contexts /\ deleted \subseteq Contexts

Init ==
  /\ row = [c \in Contexts |-> "none"] /\ obj = [c \in Contexts |-> "initializing"]
  /\ inSession = {} /\ dying = {} /\ broken = FALSE /\ mem = {}
  /\ lock = [c \in Contexts |-> 0] /\ used = {}
  /\ call = [r \in Requests |-> Idle] /\ undone = {} /\ deleted = {}

(* The session.  set is the change of a status that precedes the commit.   *)
Commits ==
  /\ ~broken
  /\ row' = [c \in Contexts |-> IF c \in dying THEN "none"
                                ELSE IF c \in inSession THEN obj[c] ELSE row[c]]
  /\ inSession' = inSession \ dying /\ dying' = {} /\ UNCHANGED broken

Set(c, s) == obj' = [obj EXCEPT ![c] = s]

CommitFails == broken' = TRUE /\ UNCHANGED <<row, inSession, dying>>

Rollback ==
  /\ obj' = [c \in Contexts |-> IF row[c] = "none" THEN obj[c] ELSE row[c]]
  /\ inSession' = {c \in Contexts : row[c] # "none"}
  /\ dying' = {} /\ broken' = FALSE /\ UNCHANGED row

(* The calls.                                                              *)
At(r, a) == call[r].at = a
Goes(r, a) == call' = [call EXCEPT ![r].at = a]
Ends(r) == call' = [call EXCEPT ![r] = Idle]

(* The call rolls the session back and raises.                             *)
GivesUp(r) ==
  /\ Rollback /\ Ends(r)
  /\ undone' = undone \cup dying \cup {c \in Contexts : row[c] \notin {"none", obj[c]}}
                \cup {c \in {call[r].c} : At(r, "creating") \/ At(r, "made")
                                          \/ At(r, "starting") \/ At(r, "resetting")}
  /\ UNCHANGED <<mem, lock, used, deleted>>

AskCreate(r, c) ==
  /\ call[r] = Idle /\ c \notin used /\ used' = used \cup {c}
  /\ call' = [call EXCEPT ![r] = [at |-> "creating", op |-> "create", c |-> c, lock |-> 0]]
  /\ Set(c, "initializing") /\ inSession' = inSession \cup {c}
  /\ UNCHANGED <<row, dying, broken, mem, lock, undone, deleted>>

Created(r) == LET c == call[r].c IN
  /\ At(r, "creating") /\ Commits /\ c \in inSession
  /\ mem' = mem \cup {c} /\ Set(c, "ready")
  /\ Goes(r, "made") /\ UNCHANGED <<lock, used, undone, deleted>>

MadeReady(r) ==
  /\ At(r, "made") /\ Commits /\ UNCHANGED obj
  /\ Ends(r) /\ UNCHANGED <<mem, lock, used, undone, deleted>>

(* get_context: from memory at once, or from the row, which is registered  *)
(* when the answer of the database is there.                               *)
Continues(op) ==
  CASE op = "get" -> "idle" [] op = "delete" -> "cleaning" [] op = "infer" -> "pending"

Began(r, op, c, a) ==
  call' = [call EXCEPT ![r] = IF a = "idle" THEN Idle
                              ELSE [at |-> a, op |-> op, c |-> c, lock |-> 0]]

(* run_inference makes a lock when the context has none: one that no call  *)
(* still holds or waits for.                                               *)
MakesLock(op, c) ==
  LET others == {call[q].lock : q \in {p \in Requests : call[p] # Idle}} IN
  lock' = IF op = "infer" /\ lock[c] = 0
            THEN [lock EXCEPT ![c] = Min((1..Cardinality(Requests) + 1) \ others)]
            ELSE lock

AskKnown(r, op, c) ==
  /\ call[r] = Idle /\ c \in mem
  /\ Began(r, op, c, Continues(op)) /\ MakesLock(op, c)
  /\ UNCHANGED <<session, mem, used, undone, deleted>>

AskRow(r, op, c) ==
  /\ call[r] = Idle /\ row[c] # "none"
  /\ Began(r, op, c, "fetched")
  /\ UNCHANGED <<session, mem, lock, used, undone, deleted>>

Fetched(r) == LET c == call[r].c  op == call[r].op IN
  /\ At(r, "fetched")
  /\ mem' = mem \cup {c}
  /\ Began(r, op, c, Continues(op)) /\ MakesLock(op, c)
  /\ UNCHANGED <<session, used, undone, deleted>>

(* delete_context: an object that has left the session cannot be deleted.  *)
Cleaned(r) ==
  /\ At(r, "cleaning") /\ call[r].c \in inSession
  /\ dying' = dying \cup {call[r].c} /\ Goes(r, "deleting")
  /\ UNCHANGED <<row, obj, inSession, broken, mem, lock, used, undone, deleted>>

CleaningFails(r) ==
  /\ At(r, "cleaning") /\ GivesUp(r)

Deleted(r) == LET c == call[r].c IN
  /\ At(r, "deleting") /\ Commits /\ UNCHANGED obj
  /\ mem' = mem \ {c} /\ lock' = [lock EXCEPT ![c] = 0]
  /\ deleted' = deleted \cup {c}
  /\ Ends(r) /\ UNCHANGED <<used, undone>>

(* run_inference.  The commit of the request passes, and with no more      *)
(* suspension the status is read and becomes running.                      *)
Requested(r) == LET c == call[r].c IN
  /\ At(r, "pending") /\ Commits
  /\ IF obj[c] = "ready" THEN Set(c, "running") /\ Goes(r, "starting")
                         ELSE UNCHANGED obj /\ Goes(r, "refusing")
  /\ UNCHANGED <<mem, lock, used, undone, deleted>>

Refused(r) ==
  /\ At(r, "refusing") /\ Commits /\ UNCHANGED obj
  /\ Ends(r) /\ UNCHANGED <<mem, lock, used, undone, deleted>>

(* The lock may have gone with the context: KeyError.                      *)
Started(r) ==
  /\ At(r, "starting") /\ Commits /\ UNCHANGED obj /\ lock[call[r].c] # 0
  /\ call' = [call EXCEPT ![r].at = "locking", ![r].lock = lock[call[r].c]]
  /\ UNCHANGED <<mem, lock, used, undone, deleted>>

StartLost(r) ==
  /\ At(r, "starting") /\ Commits /\ UNCHANGED obj /\ lock[call[r].c] = 0
  /\ undone' = undone \cup {call[r].c}
  /\ Ends(r) /\ UNCHANGED <<mem, lock, used, deleted>>

\* Faulty inference: no lock is taken.
LockedAlways(r) ==
  /\ At(r, "locking") /\ Goes(r, "executing")
  /\ UNCHANGED <<session, mem, lock, used, undone, deleted>>

Locked(r) ==
  /\ At(r, "locking")
  /\ \A q \in Requests : ~(call[q].at \in Inside /\ call[q].c = call[r].c
                                                 /\ call[q].lock = call[r].lock)
  /\ Goes(r, "executing") /\ UNCHANGED <<session, mem, lock, used, undone, deleted>>

Answers(r) ==
  /\ At(r, "executing") /\ Goes(r, "completing")
  /\ UNCHANGED <<session, mem, lock, used, undone, deleted>>

(* A timeout makes the context ready again, any other error does not.      *)
Handles(r, s) ==
  /\ Set(call[r].c, s) /\ Goes(r, "resetting")
  /\ UNCHANGED <<mem, lock, used, undone, deleted>>

\* Faulty handler: the status is left as it is.
RaisesQuietly(r) ==
  /\ At(r, "executing") /\ Handles(r, obj[call[r].c])
  /\ UNCHANGED <<row, inSession, dying, broken>>

Raises(r) ==
  /\ At(r, "executing")
  /\ \E s \in {"ready", "error"} : Handles(r, s)
  /\ UNCHANGED <<row, inSession, dying, broken>>

Completed(r) ==
  /\ At(r, "completing") /\ Commits
  /\ Set(call[r].c, "ready") /\ Goes(r, "readying")
  /\ UNCHANGED <<mem, lock, used, undone, deleted>>

Finished(r) ==
  /\ At(r, "readying") \/ At(r, "resetting")
  /\ Commits /\ UNCHANGED obj
  /\ Ends(r) /\ UNCHANGED <<mem, lock, used, undone, deleted>>

(* A commit under the lock fails: the handler marks the context and        *)
(* commits again; any other commit that fails is rolled back at once.      *)
LateCommitFails(r) ==
  /\ At(r, "completing") \/ At(r, "readying")
  /\ CommitFails /\ Handles(r, "error")

EarlyCommitFails(r) ==
  /\ call[r].at \in {"creating", "made", "deleting", "pending", "refusing", "starting",
                     "resetting"}
  /\ GivesUp(r)

Step(r) ==
  \/ Created(r) \/ MadeReady(r) \/ Fetched(r)
  \/ Cleaned(r) \/ CleaningFails(r) \/ Deleted(r)
  \/ Requested(r) \/ Refused(r) \/ Started(r) \/ StartLost(r) \/ Locked(r)
  \/ Answers(r) \/ Raises(r) \/ Completed(r) \/ Finished(r)
  \/ LateCommitFails(r) \/ EarlyCommitFails(r)

Next ==
  \E r \in Requests :
    \/ Step(r)
    \/ \E c \in Contexts :
         \/ AskCreate(r, c)
         \/ \E op \in {"get", "delete", "infer"} : AskKnown(r, op, c) \/ AskRow(r, op, c)

Spec == Init /\ [][Next]_icVars
-----------------------------------------------------------------------------
(* A context is initializing or running in the database only while its     *)
(* creation or an inference is under way, or when that one failed, or when *)
(* the rollback of another call took back its last change: then it stays   *)
(* so, and is refused ever after                                           *)
(* (services/context_manager.py:114, 270, 348).                            *)
UnfinishedHasOwner ==
  \A c \in Contexts \ undone : row[c] \in {"initializing", "running"} =>
    \E r \in Requests : /\ call[r] # Idle /\ call[r].c = c
                        /\ call[r].op = IF row[c] = "running" THEN "infer" ELSE "create"

(* "Acquire lock to ensure exclusive access to the context"                *)
(* (services/context_manager.py:275): two inferences run on one context    *)
(* only after it was deleted under the first, and the lock with it, even   *)
(* when a rollback makes it look ready while one runs.                     *)
InferenceIsExclusive ==
  \A r, q \in Requests :
    r # q /\ call[r].at \in Inside /\ call[q].at \in Inside /\ call[r].c = call[q].c =>
      call[r].c \in deleted
=============================================================================
