------------------------ MODULE ContextManagersProofs ------------------------
(***************************************************************************)
(* Theorems about the two context managers of services/context_manager.py, *)
(* for any tenants, contexts, limits and calls: the counters of the one,   *)
(* the statuses and the locks of the other.                                *)
(***************************************************************************)
EXTENDS MCContextManagers, FiniteSetTheorems, FunctionTheorems, WellFoundedInduction, TLAPS

\* The contexts of a tenant are finitely many and had their identifiers given.
TenantInvariant ==
  /\ Tenant!TenantContextsTypeOK
  /\ Tenant!CountersExact
  /\ \A t \in Tenants : contexts[t] \subseteq used /\ IsFiniteSet(contexts[t])

Busy(r) == call[r] # Inference!Idle

\* Each stage of a call belongs to one operation, on a context that was created.
CallsOK ==
  \A r \in Requests : Busy(r) =>
    /\ call[r].c \in used
    /\ call[r].at \in {"creating", "made"} => call[r].op = "create"
    /\ call[r].at \in {"cleaning", "deleting"} => call[r].op = "delete"
    /\ call[r].at = "fetched" => call[r].op \in {"get", "delete", "infer"}
    /\ call[r].at \in {"pending", "refusing", "starting", "locking"} \cup Inference!Inside
         => call[r].op = "infer"

\* A row has its object in the session.
RowsHaveObjects == \A c \in Contexts : row[c] # "none" => c \in inSession

Working(c, stages) == \E r \in Requests : Busy(r) /\ call[r].c = c /\ call[r].at \in stages

\* An object that is initializing is being created, one that is running has an
\* inference that has not set its status yet; the same of rows, whose owners
\* may have set the next status without its commit.
StatusOwned ==
  \A c \in inSession \ undone :
    /\ obj[c] = "initializing" => Working(c, {"creating"})
    /\ obj[c] = "running" => Working(c, {"starting", "locking", "executing", "completing"})
    /\ row[c] = "initializing" => Working(c, {"creating", "made"})
    /\ row[c] = "running" => Working(c, {"starting", "locking"} \cup Inference!Inside)

HasLock(r) == Busy(r) /\ call[r].at \in {"locking"} \cup Inference!Inside

\* Who has or waits for a lock has the lock of its context, until a deletion,
\* and a lock is held by one.
LocksOK ==
  /\ \A r \in Requests : HasLock(r) =>
       call[r].lock # 0 /\ (call[r].c \in deleted \/ call[r].lock = lock[call[r].c])
  /\ \A r, q \in Requests :
       /\ HasLock(r) /\ call[r].at # "locking" /\ HasLock(q) /\ call[q].at # "locking"
       /\ call[r].c = call[q].c /\ call[r].lock = call[q].lock
       => r = q

InferenceInvariant ==
  /\ Inference!InferenceTypeOK
  /\ CallsOK
  /\ RowsHaveObjects
  /\ StatusOwned
  /\ LocksOK

Invariant ==
  /\ draft \in {"tenant", "inference"}
  /\ draft = "tenant" => TenantInvariant
  /\ draft = "inference" => InferenceInvariant

-----------------------------------------------------------------------------
\* The instances count as this module does.
LEMMA SameCount ==
  ASSUME NEW S
  PROVE  Tenant!Cardinality(S) = Cardinality(S) /\ Inference!Cardinality(S) = Cardinality(S)
BY DEF Tenant!Cardinality, Inference!Cardinality, Cardinality

\* The number of a new lock is the least that no call has: there is one, because
\* calls are finitely many.
LEMMA LockMade ==
  ASSUME Inference!InferenceTypeOK, NEW op, NEW c, Inference!MakesLock(op, c)
  PROVE  lock' \in [Contexts -> Nat]
<1> DEFINE others == {call[q].lock : q \in {p \in Requests : call[p] # Inference!Idle}}
           free == (1..Cardinality(Requests) + 1) \ others
<1>1. IsFiniteSet(Requests) /\ Cardinality(Requests) \in Nat
  BY ManagersAssumption, FS_CardinalityType
<1>2. IsFiniteSet(others) /\ Cardinality(others) <= Cardinality(Requests)
  <2> DEFINE busy == {p \in Requests : call[p] # Inference!Idle}
  <2>1. /\ IsFiniteSet(busy) /\ Cardinality(busy) \in Nat
        /\ Cardinality(busy) <= Cardinality(Requests)
    BY <1>1, FS_Subset, FS_CardinalityType
  <2>2. /\ IsFiniteSet(others) /\ Cardinality(others) \in Nat
        /\ Cardinality(others) <= Cardinality(busy)
    <3> DEFINE lockOf == [q \in busy |-> call[q].lock]
    <3>1. lockOf \in [busy -> others] /\ \A n \in others : \E q \in busy : lockOf[q] = n
      OBVIOUS
    <3> HIDE DEF lockOf, others, busy
    <3>2. lockOf \in Surjection(busy, others)
      BY <3>1, Fun_IsSurj
    <3>3. QED
      BY <2>1, <3>2, FS_Surjection, FS_CardinalityType
  <2>3. QED
    BY <1>1, <2>1, <2>2
<1>3. free \in SUBSET Nat /\ free # {}
  <2>1. /\ IsFiniteSet(1..Cardinality(Requests) + 1)
        /\ Cardinality(1..Cardinality(Requests) + 1) = Cardinality(Requests) + 1
    BY <1>1, FS_Interval
  <2>2. CASE free = {}
    <3>1. 1..Cardinality(Requests) + 1 \in SUBSET others
      BY <2>2
    <3>2. Cardinality(1..Cardinality(Requests) + 1) <= Cardinality(others)
      BY <1>2, <3>1, FS_Subset
    <3>3. Cardinality(others) \in Nat
      BY <1>2, FS_CardinalityType
    <3>4. QED
      BY <1>1, <1>2, <2>1, <3>2, <3>3
  <2>3. QED
    BY <2>2
<1>4. Inference!Min(free) \in Nat
  <2> HIDE DEF free
  <2>1. PICK x \in free : \A y \in free : ~(<<y, x>> \in OpToRel(<, Nat))
    <3>1. IsWellFoundedOn(OpToRel(<, Nat), Nat)
      BY NatLessThanWellFounded
    <3>2. QED
      BY <1>3, <3>1, WFMin
  <2>2. \A y \in free : x <= y
    <3> SUFFICES ASSUME NEW y \in free PROVE x <= y
      OBVIOUS
    <3>1. ~(y < x)
      BY <1>3, <2>1 DEF OpToRel
    <3>2. QED
      BY <1>3, <3>1
  <2>3. QED
    BY <1>3, <2>2 DEF Inference!Min
<1>5. lock' = IF op = "infer" /\ lock[c] = 0
              THEN [lock EXCEPT ![c] = Inference!Min(free)] ELSE lock
  BY SameCount DEF Inference!MakesLock
<1> HIDE DEF free
<1>6. QED
  BY <1>4, <1>5 DEF Inference!InferenceTypeOK

-----------------------------------------------------------------------------
(* The calls on the shared session, stage by stage                         *)

\* The first commit of a creation: its object becomes ready.
LEMMA CreatedKeeps ==
  ASSUME InferenceInvariant, NEW r \in Requests, Inference!Created(r)
  PROVE  InferenceInvariant'
<1>1. Inference!InferenceTypeOK'
  BY DEF InferenceInvariant, Inference!InferenceTypeOK, Inference!Created, Inference!At,
     Inference!Goes, Inference!Commits, Inference!Set, Inference!Idle, Inference!Status
<1>2. CallsOK'
  BY DEF InferenceInvariant, CallsOK, Busy, Inference!Created, Inference!At,
     Inference!Goes, Inference!Idle, Inference!Inside
<1>3. RowsHaveObjects'
  BY DEF InferenceInvariant, RowsHaveObjects, Inference!Created, Inference!Commits
<1>4. StatusOwned'
  BY DEF InferenceInvariant, StatusOwned, Working, Busy, Inference!InferenceTypeOK,
     Inference!Created, Inference!At, Inference!Goes, Inference!Commits, Inference!Set,
     Inference!Idle
<1>5. LocksOK'
  BY DEF InferenceInvariant, LocksOK, HasLock, Busy, Inference!Created, Inference!Goes,
     Inference!Inside
<1>6. QED
  BY <1>1, <1>2, <1>3, <1>4, <1>5 DEF InferenceInvariant

\* The second commit of a creation: its call ends, its object is ready.
LEMMA MadeReadyKeeps ==
  ASSUME InferenceInvariant, NEW r \in Requests, Inference!MadeReady(r)
  PROVE  InferenceInvariant'
<1>1. Inference!InferenceTypeOK'
  BY DEF InferenceInvariant, Inference!InferenceTypeOK, Inference!MadeReady,
     Inference!Ends, Inference!Commits
<1>2. CallsOK'
  BY DEF InferenceInvariant, CallsOK, Busy, Inference!MadeReady, Inference!Ends
<1>3. RowsHaveObjects'
  BY DEF InferenceInvariant, RowsHaveObjects, Inference!MadeReady, Inference!Commits
<1>4. StatusOwned'
  BY DEF InferenceInvariant, StatusOwned, Working, Busy, Inference!InferenceTypeOK,
     Inference!MadeReady, Inference!At, Inference!Ends, Inference!Commits
<1>5. LocksOK'
  BY DEF InferenceInvariant, LocksOK, HasLock, Busy, Inference!MadeReady, Inference!Ends
<1>6. QED
  BY <1>1, <1>2, <1>3, <1>4, <1>5 DEF InferenceInvariant

\* The object of a call comes back from the database.
LEMMA FetchedKeeps ==
  ASSUME InferenceInvariant, NEW r \in Requests, Inference!Fetched(r)
  PROVE  InferenceInvariant'
<1>1. Inference!InferenceTypeOK'
  BY LockMade DEF InferenceInvariant, CallsOK, Busy, Inference!InferenceTypeOK,
     Inference!Fetched, Inference!At, Inference!session, Inference!Began,
     Inference!Continues, Inference!Idle
<1>2. CallsOK'
  BY DEF InferenceInvariant, CallsOK, Busy, Inference!Fetched, Inference!At,
     Inference!Began, Inference!Continues, Inference!Idle, Inference!Inside
<1>3. RowsHaveObjects'
  BY DEF InferenceInvariant, RowsHaveObjects, Inference!Fetched, Inference!session
<1>4. StatusOwned'
  BY DEF InferenceInvariant, StatusOwned, Working, Busy, Inference!Fetched,
     Inference!At, Inference!session, Inference!Began, Inference!Inside
<1>5. LocksOK'
  BY DEF InferenceInvariant, LocksOK, HasLock, CallsOK, Busy, Inference!Fetched,
     Inference!At, Inference!Began, Inference!Continues, Inference!Idle,
     Inference!Inside, Inference!MakesLock
<1>6. QED
  BY <1>1, <1>2, <1>3, <1>4, <1>5 DEF InferenceInvariant

\* A deletion drops the lock of its context, which whoever holds it keeps.
LEMMA CleanedKeeps ==
  ASSUME InferenceInvariant, NEW r \in Requests, Inference!Cleaned(r)
  PROVE  InferenceInvariant'
<1>1. Inference!InferenceTypeOK'
  BY DEF InferenceInvariant, Inference!InferenceTypeOK, Inference!Cleaned, Inference!At,
     Inference!Goes, Inference!Idle
<1>2. CallsOK'
  BY DEF InferenceInvariant, CallsOK, Busy, Inference!Cleaned, Inference!At,
     Inference!Goes, Inference!Idle, Inference!Inside
<1>3. RowsHaveObjects'
  BY DEF InferenceInvariant, RowsHaveObjects, Inference!Cleaned
<1>4. StatusOwned'
  BY DEF InferenceInvariant, StatusOwned, Working, Busy, Inference!Cleaned,
     Inference!At, Inference!Goes, Inference!Inside
<1>5. LocksOK'
  BY DEF InferenceInvariant, LocksOK, HasLock, Busy, Inference!Cleaned, Inference!Goes,
     Inference!Inside
<1>6. QED
  BY <1>1, <1>2, <1>3, <1>4, <1>5 DEF InferenceInvariant

\* An early error rolls the session back, and what was uncommitted is undone.
LEMMA GivesUpKeeps ==
  ASSUME InferenceInvariant, NEW r \in Requests,
         Inference!CleaningFails(r) \/ Inference!EarlyCommitFails(r)
  PROVE  InferenceInvariant'
<1>1. Inference!InferenceTypeOK'
  <2>1. undone' \subseteq Contexts
    <3>1. {c \in {call[r].c} :
             \/ Inference!At(r, "creating") \/ Inference!At(r, "made")
             \/ Inference!At(r, "starting") \/ Inference!At(r, "resetting")}
            \subseteq Contexts
      BY DEF InferenceInvariant, Inference!InferenceTypeOK, Inference!At, Inference!Idle
    <3>2. QED
      BY <3>1 DEF InferenceInvariant, Inference!InferenceTypeOK,
         Inference!CleaningFails, Inference!EarlyCommitFails, Inference!GivesUp
  <2>2. QED
    BY <2>1 DEF InferenceInvariant, RowsHaveObjects, Inference!InferenceTypeOK,
       Inference!CleaningFails, Inference!EarlyCommitFails, Inference!GivesUp,
       Inference!Ends, Inference!Rollback
<1>2. CallsOK'
  BY DEF InferenceInvariant, CallsOK, Busy, Inference!InferenceTypeOK,
     Inference!CleaningFails, Inference!EarlyCommitFails, Inference!GivesUp,
     Inference!Ends
<1>3. RowsHaveObjects'
  BY DEF RowsHaveObjects, Inference!CleaningFails, Inference!EarlyCommitFails,
     Inference!GivesUp, Inference!Rollback
<1>4. StatusOwned'
  BY DEF InferenceInvariant, StatusOwned, Working, Busy, RowsHaveObjects,
     Inference!InferenceTypeOK, Inference!CleaningFails, Inference!EarlyCommitFails,
     Inference!GivesUp, Inference!At, Inference!Ends, Inference!Rollback
<1>5. LocksOK'
  BY DEF InferenceInvariant, LocksOK, HasLock, Busy, Inference!InferenceTypeOK,
     Inference!CleaningFails, Inference!EarlyCommitFails, Inference!GivesUp,
     Inference!Ends
<1>6. QED
  BY <1>1, <1>2, <1>3, <1>4, <1>5 DEF InferenceInvariant

\* The row of a deleted context goes with this or another call's commit.
LEMMA DeletedKeeps ==
  ASSUME InferenceInvariant, NEW r \in Requests, Inference!Deleted(r)
  PROVE  InferenceInvariant'
<1>1. Inference!InferenceTypeOK'
  BY DEF InferenceInvariant, Inference!InferenceTypeOK, Inference!Deleted, Inference!At,
     Inference!Ends, Inference!Commits, Inference!Idle
<1>2. CallsOK'
  BY DEF InferenceInvariant, CallsOK, Busy, Inference!Deleted, Inference!Ends
<1>3. RowsHaveObjects'
  BY DEF InferenceInvariant, RowsHaveObjects, Inference!Deleted, Inference!Commits
<1>4. StatusOwned'
  BY DEF InferenceInvariant, StatusOwned, Working, Busy, Inference!InferenceTypeOK,
     Inference!Deleted, Inference!At, Inference!Ends, Inference!Commits
<1>5. LocksOK'
  BY DEF InferenceInvariant, LocksOK, HasLock, Busy, Inference!Deleted, Inference!Ends
<1>6. QED
  BY <1>1, <1>2, <1>3, <1>4, <1>5 DEF InferenceInvariant

\* An inference finds its context ready, or refuses.
LEMMA RequestedKeeps ==
  ASSUME InferenceInvariant, NEW r \in Requests, Inference!Requested(r)
  PROVE  InferenceInvariant'
<1>1. Inference!InferenceTypeOK'
  BY DEF InferenceInvariant, Inference!InferenceTypeOK, Inference!Requested,
     Inference!At, Inference!Goes, Inference!Commits, Inference!Set, Inference!Idle,
     Inference!Status
<1>2. CallsOK'
  BY DEF InferenceInvariant, CallsOK, Busy, Inference!InferenceTypeOK,
     Inference!Requested, Inference!At, Inference!Goes, Inference!Idle
<1>3. RowsHaveObjects'
  BY DEF InferenceInvariant, RowsHaveObjects, Inference!Requested, Inference!Commits
<1>4. StatusOwned'
  BY DEF InferenceInvariant, StatusOwned, Working, Busy, RowsHaveObjects,
     Inference!InferenceTypeOK, Inference!Requested, Inference!At, Inference!Goes,
     Inference!Commits, Inference!Set, Inference!Idle
<1>5. LocksOK'
  BY DEF InferenceInvariant, LocksOK, HasLock, Busy, Inference!InferenceTypeOK,
     Inference!Requested, Inference!Goes, Inference!Idle, Inference!Inside
<1>6. QED
  BY <1>1, <1>2, <1>3, <1>4, <1>5 DEF InferenceInvariant

\* A refused inference ends.
LEMMA RefusedKeeps ==
  ASSUME InferenceInvariant, NEW r \in Requests, Inference!Refused(r)
  PROVE  InferenceInvariant'
<1>1. Inference!InferenceTypeOK'
  BY DEF InferenceInvariant, Inference!InferenceTypeOK, Inference!Refused,
     Inference!Ends, Inference!Commits
<1>2. CallsOK'
  BY DEF InferenceInvariant, CallsOK, Busy, Inference!Refused, Inference!Ends
<1>3. RowsHaveObjects'
  BY DEF InferenceInvariant, RowsHaveObjects, Inference!Refused, Inference!Commits
<1>4. StatusOwned'
  BY DEF InferenceInvariant, StatusOwned, Working, Busy, Inference!InferenceTypeOK,
     Inference!Refused, Inference!At, Inference!Ends, Inference!Commits
<1>5. LocksOK'
  BY DEF InferenceInvariant, LocksOK, HasLock, Busy, Inference!Refused, Inference!Ends
<1>6. QED
  BY <1>1, <1>2, <1>3, <1>4, <1>5 DEF InferenceInvariant

\* An inference that has committed running waits for the lock of its context.
LEMMA StartedKeeps ==
  ASSUME InferenceInvariant, NEW r \in Requests, Inference!Started(r)
  PROVE  InferenceInvariant'
<1>1. /\ Busy(r) /\ call[r].at = "starting"
      /\ call[r].c \in Contexts /\ lock[call[r].c] \in Nat
  BY DEF InferenceInvariant, Inference!InferenceTypeOK, Inference!Started, Inference!At,
     Inference!Idle, Busy
<1>2. /\ call' = [call EXCEPT ![r].at = "locking", ![r].lock = lock[call[r].c]]
      /\ lock[call[r].c] # 0
  BY DEF Inference!Started
<1>3. call' = [call EXCEPT ![r] = [call[r] EXCEPT !.at = "locking", !.lock = lock[call[r].c]]]
  BY <1>2
<1>4. /\ call'[r] \in [at : {"locking"}, op : {"create", "get", "delete", "infer"},
                       c : Contexts, lock : Nat]
      /\ call'[r].at = "locking" /\ call'[r].c = call[r].c /\ call'[r].op = call[r].op
      /\ call'[r].lock = lock[call[r].c] /\ Busy(r)'
      /\ \A q \in Requests : q # r => call'[q] = call[q]
  BY <1>1, <1>3 DEF InferenceInvariant, Inference!InferenceTypeOK, Busy, Inference!Idle
<1>5. Inference!InferenceTypeOK'
  BY <1>4 DEF InferenceInvariant, Inference!InferenceTypeOK, Inference!Started,
     Inference!Commits
<1>6. CallsOK'
  BY DEF InferenceInvariant, CallsOK, Busy, Inference!InferenceTypeOK,
     Inference!Started, Inference!At, Inference!Idle
<1>7. RowsHaveObjects'
  BY DEF InferenceInvariant, RowsHaveObjects, Inference!Started, Inference!Commits
<1>8. StatusOwned'
  BY <1>1, <1>2, <1>3, <1>4 DEF InferenceInvariant, StatusOwned, Working, CallsOK,
     Busy, RowsHaveObjects, Inference!InferenceTypeOK, Inference!Started,
     Inference!Commits, Inference!Idle, Inference!Inside, Inference!Status
<1>9. LocksOK'
  BY DEF InferenceInvariant, LocksOK, HasLock, Busy, Inference!InferenceTypeOK,
     Inference!Started
<1>10. QED
  BY <1>5, <1>6, <1>7, <1>8, <1>9 DEF InferenceInvariant

\* The lock of its context was dropped meanwhile: it ends without the handler.
LEMMA StartLostKeeps ==
  ASSUME InferenceInvariant, NEW r \in Requests, Inference!StartLost(r)
  PROVE  InferenceInvariant'
<1>1. Inference!InferenceTypeOK'
  BY DEF InferenceInvariant, Inference!InferenceTypeOK, Inference!StartLost,
     Inference!At, Inference!Ends, Inference!Commits, Inference!Idle
<1>2. CallsOK'
  BY DEF InferenceInvariant, CallsOK, Busy, Inference!StartLost, Inference!Ends
<1>3. RowsHaveObjects'
  BY DEF InferenceInvariant, RowsHaveObjects, Inference!StartLost, Inference!Commits
<1>4. StatusOwned'
  BY DEF InferenceInvariant, StatusOwned, Working, Busy, Inference!InferenceTypeOK,
     Inference!StartLost, Inference!Ends, Inference!Commits
<1>5. LocksOK'
  BY DEF InferenceInvariant, LocksOK, HasLock, Busy, Inference!StartLost, Inference!Ends
<1>6. QED
  BY <1>1, <1>2, <1>3, <1>4, <1>5 DEF InferenceInvariant

\* Who enters has the lock alone.
LEMMA LockedKeeps ==
  ASSUME InferenceInvariant, NEW r \in Requests, Inference!Locked(r)
  PROVE  InferenceInvariant'
<1>1. Inference!InferenceTypeOK'
  BY DEF InferenceInvariant, Inference!InferenceTypeOK, Inference!Locked, Inference!At,
     Inference!Goes, Inference!session, Inference!Idle, Inference!Inside
<1>2. CallsOK'
  BY DEF InferenceInvariant, CallsOK, Busy, Inference!Locked, Inference!At,
     Inference!Goes, Inference!Idle
<1>3. RowsHaveObjects'
  BY DEF InferenceInvariant, RowsHaveObjects, Inference!Locked, Inference!session
<1>4. StatusOwned'
  BY DEF InferenceInvariant, StatusOwned, Working, Busy, Inference!Locked, Inference!At,
     Inference!Goes, Inference!session, Inference!Idle, Inference!Inside
<1>5. LocksOK'
  BY DEF InferenceInvariant, LocksOK, HasLock, Busy, Inference!Locked, Inference!At,
     Inference!Goes, Inference!Idle
<1>6. QED
  BY <1>1, <1>2, <1>3, <1>4, <1>5 DEF InferenceInvariant

\* The inference has its answer.
LEMMA AnswersKeeps ==
  ASSUME InferenceInvariant, NEW r \in Requests, Inference!Answers(r)
  PROVE  InferenceInvariant'
<1>1. Inference!InferenceTypeOK'
  BY DEF InferenceInvariant, Inference!InferenceTypeOK, Inference!Answers, Inference!At,
     Inference!Goes, Inference!session, Inference!Idle, Inference!Inside
<1>2. CallsOK'
  BY DEF InferenceInvariant, CallsOK, Busy, Inference!Answers, Inference!At,
     Inference!Goes, Inference!Idle, Inference!Inside
<1>3. RowsHaveObjects'
  BY DEF InferenceInvariant, RowsHaveObjects, Inference!Answers, Inference!session
<1>4. StatusOwned'
  BY DEF InferenceInvariant, StatusOwned, Working, Busy, Inference!Answers,
     Inference!At, Inference!Goes, Inference!session, Inference!Idle, Inference!Inside
<1>5. LocksOK'
  BY DEF InferenceInvariant, LocksOK, HasLock, Busy, Inference!Answers, Inference!At,
     Inference!Goes, Inference!Idle, Inference!Inside
<1>6. QED
  BY <1>1, <1>2, <1>3, <1>4, <1>5 DEF InferenceInvariant

\* The inference raises, and the handler sets the status.
LEMMA RaisesKeeps ==
  ASSUME InferenceInvariant, NEW r \in Requests, Inference!Raises(r)
  PROVE  InferenceInvariant'
<1>1. Inference!InferenceTypeOK'
  BY DEF InferenceInvariant, Inference!InferenceTypeOK, Inference!Raises, Inference!At,
     Inference!Goes, Inference!Set, Inference!Handles, Inference!Idle, Inference!Inside,
     Inference!Status
<1>2. CallsOK'
  BY DEF InferenceInvariant, CallsOK, Busy, Inference!Raises, Inference!At,
     Inference!Goes, Inference!Handles, Inference!Idle, Inference!Inside
<1>3. RowsHaveObjects'
  BY DEF InferenceInvariant, RowsHaveObjects, Inference!Raises
<1>4. StatusOwned'
  BY DEF InferenceInvariant, StatusOwned, Working, Busy, Inference!InferenceTypeOK,
     Inference!Raises, Inference!At, Inference!Goes, Inference!Set, Inference!Handles,
     Inference!Idle, Inference!Inside
<1>5. LocksOK'
  BY DEF InferenceInvariant, LocksOK, HasLock, Busy, Inference!Raises, Inference!At,
     Inference!Goes, Inference!Handles, Inference!Idle, Inference!Inside
<1>6. QED
  BY <1>1, <1>2, <1>3, <1>4, <1>5 DEF InferenceInvariant

\* The status of the answer is committed inside the lock.
LEMMA CompletedKeeps ==
  ASSUME InferenceInvariant, NEW r \in Requests, Inference!Completed(r)
  PROVE  InferenceInvariant'
<1>1. Inference!InferenceTypeOK'
  BY DEF InferenceInvariant, Inference!InferenceTypeOK, Inference!Completed,
     Inference!At, Inference!Goes, Inference!Commits, Inference!Set, Inference!Idle,
     Inference!Inside, Inference!Status
<1>2. CallsOK'
  BY DEF InferenceInvariant, CallsOK, Busy, Inference!Completed, Inference!At,
     Inference!Goes, Inference!Idle, Inference!Inside
<1>3. RowsHaveObjects'
  BY DEF InferenceInvariant, RowsHaveObjects, Inference!Completed, Inference!Commits
<1>4. StatusOwned'
  BY DEF InferenceInvariant, StatusOwned, Working, Busy, Inference!InferenceTypeOK,
     Inference!Completed, Inference!At, Inference!Goes, Inference!Commits,
     Inference!Set, Inference!Idle, Inference!Inside
<1>5. LocksOK'
  BY DEF InferenceInvariant, LocksOK, HasLock, CallsOK, Busy, Inference!Completed,
     Inference!At, Inference!Goes, Inference!Idle, Inference!Inside
<1>6. QED
  BY <1>1, <1>2, <1>3, <1>4, <1>5 DEF InferenceInvariant

\* The last commit of an inference: the lock is free.
LEMMA FinishedKeeps ==
  ASSUME InferenceInvariant, NEW r \in Requests, Inference!Finished(r)
  PROVE  InferenceInvariant'
<1>1. Inference!InferenceTypeOK'
  BY DEF InferenceInvariant, Inference!InferenceTypeOK, Inference!Finished,
     Inference!Ends, Inference!Commits
<1>2. CallsOK'
  BY DEF InferenceInvariant, CallsOK, Busy, Inference!Finished, Inference!Ends
<1>3. RowsHaveObjects'
  BY DEF InferenceInvariant, RowsHaveObjects, Inference!Finished, Inference!Commits
<1>4. StatusOwned'
  BY DEF InferenceInvariant, StatusOwned, Working, Busy, Inference!InferenceTypeOK,
     Inference!Finished, Inference!At, Inference!Ends, Inference!Commits
<1>5. LocksOK'
  BY DEF InferenceInvariant, LocksOK, HasLock, Busy, Inference!Finished, Inference!Ends
<1>6. QED
  BY <1>1, <1>2, <1>3, <1>4, <1>5 DEF InferenceInvariant

\* A commit inside the lock fails, and the handler sets the status.
LEMMA LateCommitFailsKeeps ==
  ASSUME InferenceInvariant, NEW r \in Requests, Inference!LateCommitFails(r)
  PROVE  InferenceInvariant'
<1>1. Inference!InferenceTypeOK'
  BY DEF InferenceInvariant, Inference!InferenceTypeOK, Inference!LateCommitFails,
     Inference!At, Inference!Goes, Inference!Set, Inference!CommitFails,
     Inference!Handles, Inference!Idle, Inference!Inside, Inference!Status
<1>2. CallsOK'
  BY DEF InferenceInvariant, CallsOK, Busy, Inference!LateCommitFails, Inference!At,
     Inference!Goes, Inference!Handles, Inference!Idle, Inference!Inside
<1>3. RowsHaveObjects'
  BY DEF InferenceInvariant, RowsHaveObjects, Inference!LateCommitFails,
     Inference!CommitFails
<1>4. StatusOwned'
  BY DEF InferenceInvariant, StatusOwned, Working, Busy, Inference!InferenceTypeOK,
     Inference!LateCommitFails, Inference!At, Inference!Goes, Inference!Set,
     Inference!CommitFails, Inference!Handles, Inference!Idle, Inference!Inside
<1>5. LocksOK'
  BY DEF InferenceInvariant, LocksOK, HasLock, Busy, Inference!LateCommitFails,
     Inference!At, Inference!Goes, Inference!Handles, Inference!Idle, Inference!Inside
<1>6. QED
  BY <1>1, <1>2, <1>3, <1>4, <1>5 DEF InferenceInvariant

\* A creation begins with an identifier that nobody had.
LEMMA AskCreateKeeps ==
  ASSUME InferenceInvariant, NEW r \in Requests, NEW c \in Contexts,
         Inference!AskCreate(r, c)
  PROVE  InferenceInvariant'
<1>1. Inference!InferenceTypeOK'
  BY DEF InferenceInvariant, Inference!InferenceTypeOK, Inference!AskCreate,
     Inference!Set, Inference!Status
<1>2. CallsOK'
  BY DEF InferenceInvariant, CallsOK, Busy, Inference!AskCreate, Inference!Inside
<1>3. RowsHaveObjects'
  BY DEF InferenceInvariant, RowsHaveObjects, Inference!AskCreate
<1>4. StatusOwned'
  BY DEF InferenceInvariant, StatusOwned, Working, Busy, RowsHaveObjects,
     Inference!InferenceTypeOK, Inference!AskCreate, Inference!Set, Inference!Idle
<1>5. LocksOK'
  BY DEF InferenceInvariant, LocksOK, HasLock, Busy, Inference!AskCreate,
     Inference!Inside
<1>6. QED
  BY <1>1, <1>2, <1>3, <1>4, <1>5 DEF InferenceInvariant

\* A call finds its object in memory.
LEMMA AskKnownKeeps ==
  ASSUME InferenceInvariant, NEW r \in Requests, NEW c \in Contexts,
         NEW op \in {"get", "delete", "infer"},
         Inference!AskKnown(r, op, c)
  PROVE  InferenceInvariant'
<1>1. Inference!InferenceTypeOK'
  BY LockMade DEF InferenceInvariant, Inference!InferenceTypeOK, Inference!AskKnown,
     Inference!session, Inference!Began, Inference!Continues
<1>2. CallsOK'
  BY DEF InferenceInvariant, CallsOK, Busy, Inference!InferenceTypeOK,
     Inference!AskKnown, Inference!Began, Inference!Continues, Inference!Inside
<1>3. RowsHaveObjects'
  BY DEF InferenceInvariant, RowsHaveObjects, Inference!AskKnown, Inference!session
<1>4. StatusOwned'
  BY DEF InferenceInvariant, StatusOwned, Working, Busy, Inference!AskKnown,
     Inference!session, Inference!Began
<1>5. LocksOK'
  BY DEF InferenceInvariant, LocksOK, HasLock, Busy, Inference!AskKnown,
     Inference!Began, Inference!Continues, Inference!Inside, Inference!MakesLock
<1>6. QED
  BY <1>1, <1>2, <1>3, <1>4, <1>5 DEF InferenceInvariant

\* A call that does not find its object asks the database.
LEMMA AskRowKeeps ==
  ASSUME InferenceInvariant, NEW r \in Requests, NEW c \in Contexts,
         NEW op \in {"get", "delete", "infer"},
         Inference!AskRow(r, op, c)
  PROVE  InferenceInvariant'
<1>1. Inference!InferenceTypeOK'
  BY DEF InferenceInvariant, Inference!InferenceTypeOK, Inference!AskRow,
     Inference!session, Inference!Began
<1>2. CallsOK'
  BY DEF InferenceInvariant, CallsOK, Busy, RowsHaveObjects, Inference!InferenceTypeOK,
     Inference!AskRow, Inference!Began, Inference!Inside
<1>3. RowsHaveObjects'
  BY DEF InferenceInvariant, RowsHaveObjects, Inference!AskRow, Inference!session
<1>4. StatusOwned'
  BY DEF InferenceInvariant, StatusOwned, Working, Busy, Inference!AskRow,
     Inference!session, Inference!Began
<1>5. LocksOK'
  BY DEF InferenceInvariant, LocksOK, HasLock, Busy, Inference!AskRow, Inference!Began,
     Inference!Inside
<1>6. QED
  BY <1>1, <1>2, <1>3, <1>4, <1>5 DEF InferenceInvariant

LEMMA StutterKeepsCalls ==
  ASSUME InferenceInvariant, UNCHANGED <<inferenceVars, used>>
  PROVE  InferenceInvariant'
BY DEF InferenceInvariant, inferenceVars, CallsOK, RowsHaveObjects, StatusOwned,
   Working, LocksOK, HasLock, Busy, Inference!InferenceTypeOK

LEMMA InferenceStep ==
  ASSUME InferenceInvariant, Inference!Next
  PROVE  InferenceInvariant'
<1>1. PICK r \in Requests :
        \/ Inference!Step(r)
        \/ \E c \in Contexts :
             \/ Inference!AskCreate(r, c)
             \/ \E op \in {"get", "delete", "infer"} :
                  Inference!AskKnown(r, op, c) \/ Inference!AskRow(r, op, c)
  BY DEF Inference!Next
<1>2. CASE Inference!Step(r)
  BY <1>2, CreatedKeeps, MadeReadyKeeps, FetchedKeeps, CleanedKeeps, GivesUpKeeps,
     DeletedKeeps, RequestedKeeps, RefusedKeeps, StartedKeeps, StartLostKeeps,
     LockedKeeps, AnswersKeeps, RaisesKeeps, CompletedKeeps, FinishedKeeps,
     LateCommitFailsKeeps DEF Inference!Step
<1>3. CASE ~Inference!Step(r)
  BY <1>1, <1>3, AskCreateKeeps, AskKnownKeeps, AskRowKeeps
<1>4. QED
  BY <1>2, <1>3

-----------------------------------------------------------------------------
(* The counters                                                            *)

\* max(0, n - k) is what stays of n contexts when k of them go.
LEMMA LessIsWhatStays ==
  ASSUME NEW S, NEW T, IsFiniteSet(S)
  PROVE  /\ Tenant!Less(Cardinality(S), Tenant!Cardinality(S \cap T)) = Cardinality(S \ T)
         /\ IsFiniteSet(S \ T) /\ Cardinality(S \ T) \in Nat
         /\ Cardinality(S \ T) <= Cardinality(S)
<1>1. /\ IsFiniteSet(S \cap T) /\ Cardinality(S \cap T) \in Nat /\ Cardinality(S) \in Nat
      /\ IsFiniteSet(S \ T) /\ Cardinality(S \ T) \in Nat
      /\ Cardinality(S \cap T) <= Cardinality(S) /\ Cardinality(S \ T) <= Cardinality(S)
  BY FS_Subset, FS_CardinalityType
<1>2. Cardinality(S \ T) = Cardinality(S) - Cardinality(S \cap T)
  BY FS_Difference
<1>3. QED
  BY <1>1, <1>2, SameCount DEF Tenant!Less

\* Deletion and the cleanup round remove from the lists what they subtract.
LEMMA RemovalKeeps ==
  ASSUME TenantInvariant, NEW S, Tenant!Remove(S), UNCHANGED <<used, run, pool>>
  PROVE  TenantInvariant'
<1> USE DEF TenantInvariant, Tenant!TenantContextsTypeOK, Tenant!CountersExact,
            Tenant!Listed
<1>1. \A t \in Tenants : /\ contexts'[t] = contexts[t] \ S /\ metadata'[t] = contexts'[t]
                         /\ IsFiniteSet(contexts'[t]) /\ Cardinality(contexts'[t]) \in Nat
                         /\ Cardinality(contexts'[t]) <= Cardinality(contexts[t])
                         /\ count'[t] = Cardinality(contexts'[t]) /\ memory'[t] = count'[t]
  <2> SUFFICES ASSUME NEW t \in Tenants
               PROVE  /\ contexts'[t] = contexts[t] \ S /\ metadata'[t] = contexts'[t]
                      /\ IsFiniteSet(contexts'[t]) /\ Cardinality(contexts'[t]) \in Nat
                      /\ Cardinality(contexts'[t]) <= Cardinality(contexts[t])
                      /\ count'[t] = Cardinality(contexts'[t]) /\ memory'[t] = count'[t]
    OBVIOUS
  <2>1. /\ contexts'[t] = contexts[t] \ S
        /\ metadata'[t] = metadata[t] \ S
        /\ count'[t] = Tenant!Less(count[t], Tenant!Cardinality(contexts[t] \cap S))
        /\ memory'[t] = Tenant!Less(memory[t], Tenant!Cardinality(contexts[t] \cap S))
    BY DEF Tenant!Remove
  <2>2. /\ IsFiniteSet(contexts[t]) /\ metadata[t] = contexts[t]
        /\ count[t] = Cardinality(contexts[t]) /\ memory[t] = count[t]
    BY SameCount
  <2>3. /\ Tenant!Less(Cardinality(contexts[t]), Tenant!Cardinality(contexts[t] \cap S))
             = Cardinality(contexts[t] \ S)
        /\ IsFiniteSet(contexts[t] \ S) /\ Cardinality(contexts[t] \ S) \in Nat
        /\ Cardinality(contexts[t] \ S) <= Cardinality(contexts[t])
    BY LessIsWhatStays
  <2>4. QED
    BY <2>1, <2>2, <2>3
<1>2. Tenant!CountersExact'
  <2> SUFFICES ASSUME NEW t \in Tenants
               PROVE  count'[t] <= MaxContexts /\ memory'[t] <= MaxMemory
    BY <1>1, SameCount
  <2>1. /\ count[t] <= MaxContexts /\ memory[t] <= MaxMemory
        /\ count[t] \in Nat /\ memory[t] = count[t]
        /\ count[t] = Cardinality(contexts[t])
    BY SameCount
  <2>2. QED
    BY <1>1, <2>1, ManagersAssumption
<1>3. Tenant!TenantContextsTypeOK'
  <2>1. count' \in [Tenants -> Nat] /\ memory' \in [Tenants -> Nat]
    <3>1. /\ count' = [t \in Tenants |-> count'[t]]
          /\ memory' = [t \in Tenants |-> memory'[t]]
      BY DEF Tenant!Remove
    <3>2. \A t \in Tenants : count'[t] \in Nat /\ memory'[t] \in Nat
      BY <1>1
    <3>3. QED
      BY <3>1, <3>2
  <2>2. idle' \subseteq UNION {contexts'[t] : t \in Tenants}
    BY DEF Tenant!Remove
  <2>3. /\ contexts' \in [Tenants -> SUBSET TenantContextIds]
        /\ metadata' \in [Tenants -> SUBSET TenantContextIds]
    BY DEF Tenant!Remove
  <2>4. QED
    BY <2>1, <2>2, <2>3
<1>4. QED
  BY <1>1, <1>2, <1>3

\* A creation adds one context, and is within both limits.
LEMMA CreateKeeps ==
  ASSUME TenantInvariant, NEW t \in Tenants, NEW c \in TenantContextIds, Tenant!Create(t, c)
  PROVE  TenantInvariant'
<1> USE DEF TenantInvariant, Tenant!TenantContextsTypeOK, Tenant!CountersExact,
            Tenant!Listed
<1>1. /\ c \notin used
      /\ Cardinality(contexts[t]) < MaxContexts /\ memory[t] + 1 <= MaxMemory
      /\ used' = used \cup {c} /\ UNCHANGED <<idle, run, pool>>
      /\ contexts' = [contexts EXCEPT ![t] = @ \cup {c}]
      /\ metadata' = [metadata EXCEPT ![t] = @ \cup {c}]
      /\ count' = [count EXCEPT ![t] = @ + 1]
      /\ memory' = [memory EXCEPT ![t] = @ + 1]
  BY SameCount DEF Tenant!Create, Tenant!WithinLimits
<1>2. /\ IsFiniteSet(contexts[t] \cup {c})
      /\ Cardinality(contexts[t] \cup {c}) = Cardinality(contexts[t]) + 1
  BY <1>1, FS_AddElement
<1>3. \A u \in Tenants : /\ contexts'[u] \subseteq used' /\ IsFiniteSet(contexts'[u])
                         /\ metadata'[u] = contexts'[u]
                         /\ count'[u] = Cardinality(contexts'[u]) /\ memory'[u] = count'[u]
                         /\ count'[u] <= MaxContexts /\ memory'[u] <= MaxMemory
  <2> SUFFICES ASSUME NEW u \in Tenants
               PROVE  /\ contexts'[u] \subseteq used' /\ IsFiniteSet(contexts'[u])
                      /\ metadata'[u] = contexts'[u]
                      /\ count'[u] = Cardinality(contexts'[u]) /\ memory'[u] = count'[u]
                      /\ count'[u] <= MaxContexts /\ memory'[u] <= MaxMemory
    OBVIOUS
  <2>1. /\ count[u] \in Nat /\ count[u] = Cardinality(contexts[u]) /\ memory[u] = count[u]
        /\ metadata[u] = contexts[u] /\ contexts[u] \subseteq used /\ IsFiniteSet(contexts[u])
        /\ count[u] <= MaxContexts /\ memory[u] <= MaxMemory
    BY SameCount
  <2>2. CASE u = t
    <3>1. /\ contexts'[t] = contexts[t] \cup {c} /\ metadata'[t] = metadata[t] \cup {c}
          /\ count'[t] = count[t] + 1 /\ memory'[t] = memory[t] + 1
      BY <1>1
    <3>2. count[t] + 1 <= MaxContexts /\ memory[t] + 1 <= MaxMemory
      BY <1>1, <2>1, <2>2, ManagersAssumption
    <3>3. QED
      BY <1>1, <1>2, <2>1, <3>2
  <2>3. CASE u # t
    <3>1. /\ contexts'[u] = contexts[u] /\ metadata'[u] = metadata[u]
          /\ count'[u] = count[u] /\ memory'[u] = memory[u]
      BY <1>1, <2>3
    <3>2. QED
      BY <1>1, <2>1, <3>1
  <2>4. QED
    BY <2>2, <2>3
<1>4. Tenant!TenantContextsTypeOK'
  BY <1>1
<1>5. QED
  BY <1>3, <1>4, SameCount

LEMMA TenantStep ==
  ASSUME TenantInvariant, Tenant!Next
  PROVE  TenantInvariant'
<1> USE DEF TenantInvariant, Tenant!TenantContextsTypeOK, Tenant!CountersExact,
            Tenant!Listed
<1>1. ASSUME UNCHANGED <<contexts, metadata, count, memory, used>>,
             run' \in [TenantRequests ->
                [at : {"queued", "running", "done"}, c : TenantContextIds] \cup {Tenant!None}],
             pool' \in {"open", "closing", "shut"},
             idle' \subseteq UNION {contexts[t] : t \in Tenants}
      PROVE  TenantInvariant'
  BY <1>1
<1>2. CASE \E t \in Tenants, c \in TenantContextIds : Tenant!Create(t, c)
  BY <1>2, CreateKeeps
<1>3. CASE \E t \in Tenants, c \in TenantContextIds : Tenant!Delete(t, c)
  BY <1>3, RemovalKeeps DEF Tenant!Delete
<1>4. CASE Tenant!CleanupRound
  BY <1>4, RemovalKeeps DEF Tenant!CleanupRound
<1>5. CASE \E t \in Tenants, c \in TenantContextIds : Tenant!Get(t, c)
  BY <1>5 DEF Tenant!Get, Tenant!Access
<1>6. CASE \E t \in Tenants, c \in TenantContextIds, r \in TenantRequests :
             Tenant!Infer(r, t, c)
  BY <1>6 DEF Tenant!Infer, Tenant!Access
<1>7. CASE \E c \in TenantContextIds : Tenant!HourPasses(c)
  BY <1>7 DEF Tenant!HourPasses
<1>8. CASE \E r \in TenantRequests : Tenant!Work(r)
  BY <1>8 DEF Tenant!Work, Tenant!TaskStarts, Tenant!TaskEnds, Tenant!Answer,
     Tenant!Moves, Tenant!None
<1>9. CASE Tenant!Cleanup \/ Tenant!PoolShut
  BY <1>9 DEF Tenant!Cleanup, Tenant!PoolShut
<1>10. QED
  BY <1>2, <1>3, <1>4, <1>5, <1>6, <1>7, <1>8, <1>9 DEF Tenant!Next

LEMMA StutterKeepsTenants ==
  ASSUME TenantInvariant, UNCHANGED <<tenantVars, used>>
  PROVE  TenantInvariant'
BY DEF TenantInvariant, tenantVars, Tenant!TenantContextsTypeOK, Tenant!CountersExact,
   Tenant!Listed

-----------------------------------------------------------------------------
(* The class that a process has                                            *)

LEMMA InitInvariant == Init => Invariant
<1> SUFFICES ASSUME Init PROVE Invariant
  OBVIOUS
<1>1. CASE draft = "tenant"
  <2>1. Cardinality({}) = 0 /\ IsFiniteSet({})
    BY FS_EmptySet
  <2>2. /\ contexts = [t \in Tenants |-> {}] /\ metadata = contexts
        /\ count = [t \in Tenants |-> 0] /\ memory = count
        /\ run = [r \in TenantRequests |-> Tenant!None]
        /\ idle = {} /\ used = {} /\ pool = "open"
    BY <1>1 DEF Init, Tenant!Init
  <2>3. TenantInvariant
    BY <2>1, <2>2, SameCount, ManagersAssumption DEF TenantInvariant,
       Tenant!TenantContextsTypeOK, Tenant!CountersExact, Tenant!Listed
  <2>4. QED
    BY <1>1, <2>3 DEF Invariant
<1>2. CASE draft = "inference"
  <2>1. Inference!Init
    BY <1>2 DEF Init
  <2>2. Inference!InferenceTypeOK
    BY <2>1 DEF Inference!Init, Inference!InferenceTypeOK, Inference!Status
  <2>3. CallsOK /\ RowsHaveObjects /\ StatusOwned /\ LocksOK
    BY <2>1 DEF Inference!Init, CallsOK, RowsHaveObjects, StatusOwned, LocksOK, HasLock,
       Busy
  <2>4. QED
    BY <1>2, <2>2, <2>3 DEF Invariant, InferenceInvariant
<1>3. QED
  BY <1>1, <1>2 DEF Init

LEMMA NextInvariant == Invariant /\ [Next]_vars => Invariant'
<1> SUFFICES ASSUME Invariant, [Next]_vars PROVE Invariant'
  OBVIOUS
<1>1. CASE NextTenant
  BY <1>1, TenantStep DEF NextTenant, Invariant
<1>2. CASE NextInference
  BY <1>2, InferenceStep DEF NextInference, Invariant
<1>3. CASE UNCHANGED vars
  BY <1>3, StutterKeepsTenants, StutterKeepsCalls DEF vars, Invariant
<1>4. QED
  BY <1>1, <1>2, <1>3 DEF Next

LEMMA InvariantHolds == FairSpec => []Invariant
BY InitInvariant, NextInvariant, PTL DEF FairSpec

-----------------------------------------------------------------------------
\* The tables of both context managers have their types after any calls, rounds
\* of cleanup and failed commits.
THEOREM ContextsTypeCorrect == FairSpec => []ContextsTypeOK
<1>1. Invariant => ContextsTypeOK
  BY DEF Invariant, TenantInvariant, InferenceInvariant, ContextsTypeOK
<1>2. QED
  BY <1>1, InvariantHolds, PTL

\* The usage counters of a tenant count its contexts, for any tenants and limits,
\* and never pass the limits (create_context, delete_context, _cleanup_loop).
THEOREM CountersAlwaysExact == FairSpec => []CountersExact
<1>1. Invariant => CountersExact
  BY DEF Invariant, TenantInvariant, CountersExact
<1>2. QED
  BY <1>1, InvariantHolds, PTL

\* A context whose row says initializing or running has a call that will say what
\* came of it, unless an error undid that (create_context, process_inference).
THEOREM UnfinishedAlwaysHasOwner == FairSpec => []UnfinishedHasOwner
<1>1. InferenceInvariant => Inference!UnfinishedHasOwner
  <2> SUFFICES ASSUME InferenceInvariant, NEW c \in Contexts \ undone,
                      row[c] \in {"initializing", "running"}
               PROVE  \E r \in Requests :
                        /\ call[r] # Inference!Idle /\ call[r].c = c
                        /\ call[r].op = IF row[c] = "running" THEN "infer" ELSE "create"
    BY DEF Inference!UnfinishedHasOwner
  <2>1. c \in inSession \ undone
    BY DEF InferenceInvariant, RowsHaveObjects
  <2>2. QED
    BY <2>1 DEF InferenceInvariant, StatusOwned, Working, Busy, CallsOK
<1>2. Invariant => UnfinishedHasOwner
  BY <1>1 DEF Invariant, UnfinishedHasOwner
<1>3. QED
  BY <1>2, InvariantHolds, PTL

\* At most one inference of a context is inside its lock until it is deleted
\* (process_inference).
THEOREM InferenceAlwaysExclusive == FairSpec => []InferenceIsExclusive
<1>1. InferenceInvariant => Inference!InferenceIsExclusive
  <2> SUFFICES ASSUME InferenceInvariant, NEW r \in Requests, NEW q \in Requests, r # q,
                      call[r].at \in Inference!Inside, call[q].at \in Inference!Inside,
                      call[r].c = call[q].c, call[r].c \notin deleted
               PROVE  FALSE
    BY DEF Inference!InferenceIsExclusive
  <2>1. HasLock(r) /\ HasLock(q) /\ call[r].at # "locking" /\ call[q].at # "locking"
    BY DEF HasLock, Busy, Inference!Inside, Inference!Idle
  <2>2. QED
    BY <2>1 DEF InferenceInvariant, LocksOK
<1>2. Invariant => InferenceIsExclusive
  BY <1>1 DEF Invariant, InferenceIsExclusive
<1>3. QED
  BY <1>2, InvariantHolds, PTL
==============================================================================
