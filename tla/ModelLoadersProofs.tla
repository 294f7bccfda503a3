-------------------------- MODULE ModelLoadersProofs -------------------------
(***************************************************************************)
(* Theorems about the three classes of loader.py, for any models, versions *)
(* and number of calls.                                                    *)
(*                                                                         *)
(* What a ModelInfo says is kept true by the lock of its model, and so are *)
(* the tables of the class with versions: a call that has passed the lock  *)
(* is the first in the line of its model, and nobody else writes what is   *)
(* about the model until it returns.  The first class has one lock, which  *)
(* a call either holds for one step or for ever.                           *)
(***************************************************************************)
EXTENDS MCModelLoaders, SequencesExt, FiniteSetTheorems, FunctionTheorems, SequenceTheorems,
        WellFoundedInduction, TLAPS

-----------------------------------------------------------------------------
(* The last class                                                          *)

Calls ==
  [at : {"waiting", "loading"}, op : {"load", "unload"}, m : Models,
   v : Versions \cup {None}, todo : SUBSET Models]

TablesOK ==
  /\ known \in [Models -> SUBSET Versions]
  /\ current \in [Models -> Versions \cup {None}]
  /\ status \in [Models -> {"unloaded", "loading", "ready", "error"}]
  /\ object \in [Models -> Versions \cup {None}]
  /\ queue \in [Models -> Seq(Requests)]
  /\ call \in [Requests -> Calls \cup {Idle}]
  /\ served \in [Requests -> [want : Versions, got : Versions] \cup {None}]

Queued(r, s) == \E i \in 1..Len(s) : s[i] = r

(* A call that has not returned is in the queue of its model.              *)
CallsQueue ==
  \A r \in Requests : call[r].at # "idle" =>
    /\ Queued(r, queue[call[r].m])
    /\ call[r].m \notin call[r].todo
    /\ call[r].op = "load" => call[r].v \in Versions

(* Who loads holds the lock, and the info of the model is as it began.     *)
LoadersHold ==
  \A r \in Requests : call[r].at = "loading" =>
    /\ call[r].op = "load"
    /\ Head(queue[call[r].m]) = r
    /\ status[call[r].m] = "loading"
    /\ current[call[r].m] = call[r].v

InfoOK ==
  \A m \in Models :
    /\ status[m] = "ready" => object[m] # None /\ object[m] = current[m]
    /\ status[m] = "loading" => \E r \in Requests : call[r].at = "loading" /\ call[r].m = m

ServedOK == \A r \in Requests : served[r] # None => served[r].got = served[r].want

Invariant == TablesOK /\ CallsQueue /\ LoadersHold /\ InfoOK /\ ServedOK

-----------------------------------------------------------------------------
\* What the call of a request is.
LEMMA CallShape ==
  ASSUME TablesOK, NEW r \in Requests
  PROVE  /\ call[r] = Idle <=> call[r].at = "idle"
         /\ call[r].at # "idle" => call[r] \in Calls
  BY DEF TablesOK, Calls, Idle

\* A call that holds a lock is the only one that may be loading its model.
LEMMA OneLoads ==
  ASSUME Invariant, NEW r \in Requests, NEW q \in Requests,
         call[q].at = "loading", call[q].m = call[r].m, Head(queue[call[r].m]) = r
  PROVE  q = r
  BY DEF Invariant, LoadersHold

\* Joining a queue takes nobody's place.
LEMMA Joining ==
  ASSUME NEW s \in Seq(Requests), NEW r \in Requests
  PROVE  /\ Append(s, r) \in Seq(Requests) /\ Queued(r, Append(s, r))
         /\ \A q \in Requests : Queued(q, s) => Queued(q, Append(s, r))
         /\ s # <<>> => Head(Append(s, r)) = Head(s)
         /\ s = <<>> => Head(Append(s, r)) = r
<1>1. Queued(r, Append(s, r))
  <2>1. Len(s) + 1 \in 1..Len(Append(s, r)) /\ Append(s, r)[Len(s) + 1] = r
    OBVIOUS
  <2>2. QED
    BY <2>1 DEF Queued
<1>2. ASSUME NEW q \in Requests, Queued(q, s) PROVE Queued(q, Append(s, r))
  <2>1. PICK i \in 1..Len(s) : s[i] = q
    BY <1>2 DEF Queued
  <2>2. i \in 1..Len(Append(s, r)) /\ Append(s, r)[i] = q
    BY <2>1
  <2>3. QED
    BY <2>2 DEF Queued
<1>3. QED
  BY <1>1, <1>2

\* The head of a queue leaves it, and everybody else stays.
LEMMA Leaving ==
  ASSUME NEW s \in Seq(Requests), NEW r \in Requests, Queued(r, s), Head(s) = r
  PROVE  /\ Tail(s) \in Seq(Requests)
         /\ \A q \in Requests : q # r /\ Queued(q, s) => Queued(q, Tail(s))
<1>1. s # <<>> /\ s[1] = r
  BY DEF Queued
<1>2. ASSUME NEW q \in Requests, q # r, Queued(q, s) PROVE Queued(q, Tail(s))
  <2>1. PICK i \in 1..Len(s) : s[i] = q
    BY <1>2 DEF Queued
  <2>2. i # 1
    BY <1>1, <1>2, <2>1
  <2>3. i - 1 \in 1..Len(Tail(s)) /\ Tail(s)[i - 1] = q
    BY <1>1, <2>1, <2>2
  <2>4. QED
    BY <2>3 DEF Queued
<1>3. QED
  BY <1>1, <1>2

-----------------------------------------------------------------------------
\* A load that finds its version ready is served that version.
LEMMA LoadCachedKeeps ==
  ASSUME Invariant, NEW r \in Requests, NEW m \in Models, NEW v \in Versions \cup {None},
         LoadCached(r, m, v)
  PROVE  Invariant'
<1> DEFINE w == Wanted(m, v)
<1>1. /\ w \in known[m] /\ Cached(m, w)
      /\ served' = [served EXCEPT ![r] = [want |-> w, got |-> object[m]]]
      /\ UNCHANGED <<known, current, status, object, queue, call>>
  BY DEF LoadCached
<1> HIDE DEF w
<1>2. w \in Versions /\ object[m] = w
  BY <1>1 DEF Invariant, TablesOK, InfoOK, Cached
<1>3. TablesOK'
  BY <1>1, <1>2 DEF Invariant, TablesOK
<1>4. ServedOK'
  BY <1>1, <1>2 DEF Invariant, TablesOK, ServedOK
<1>5. CallsQueue' /\ LoadersHold' /\ InfoOK'
  BY <1>1 DEF Invariant, CallsQueue, LoadersHold, InfoOK
<1>6. QED
  BY <1>3, <1>4, <1>5 DEF Invariant

\* A load joins the queue, and begins at once when it is alone in it.
LEMMA AskLoadKeeps ==
  ASSUME Invariant, NEW r \in Requests, NEW m \in Models, NEW v \in Versions \cup {None},
         AskLoad(r, m, v)
  PROVE  Invariant'
<1> DEFINE w == Wanted(m, v)
           x == [at |-> IF queue[m] = <<>> THEN "loading" ELSE "waiting",
                 op |-> "load", m |-> m, v |-> w, todo |-> {}]
<1>1. /\ call[r] = Idle /\ w \in known[m]
      /\ queue' = [queue EXCEPT ![m] = Append(@, r)]
      /\ call' = [call EXCEPT ![r] = x]
      /\ IF queue[m] = <<>> THEN Begin(m, w) ELSE UNCHANGED <<status, current>>
      /\ UNCHANGED <<known, object, served>>
  BY DEF AskLoad
<1> HIDE DEF w
<1>2. w \in Versions /\ x \in Calls
  BY <1>1 DEF Invariant, TablesOK, Calls
<1>3. /\ call'[r] = x /\ \A q \in Requests : q # r => call'[q] = call[q]
      /\ x.m = m /\ x.op = "load" /\ x.v = w /\ x.todo = {}
      /\ x.at = IF queue[m] = <<>> THEN "loading" ELSE "waiting"
      /\ call[r].at = "idle"
  BY <1>1 DEF Invariant, TablesOK, Idle
<1> HIDE DEF x
<1>4. /\ queue'[m] = Append(queue[m], r) /\ queue[m] \in Seq(Requests)
      /\ \A n \in Models : n # m => queue'[n] = queue[n]
  BY <1>1 DEF Invariant, TablesOK
<1>5. /\ \A n \in Models : n # m => status'[n] = status[n] /\ current'[n] = current[n]
      /\ queue[m] = <<>> => status'[m] = "loading" /\ current'[m] = w
      /\ queue[m] # <<>> => status'[m] = status[m] /\ current'[m] = current[m]
  BY <1>1 DEF Invariant, TablesOK, Begin
<1>6. TablesOK'
  <2>1. queue' \in [Models -> Seq(Requests)]
    BY <1>1, <1>4, Joining DEF Invariant, TablesOK
  <2>2. status' \in [Models -> {"unloaded", "loading", "ready", "error"}]
        /\ current' \in [Models -> Versions \cup {None}]
    BY <1>1, <1>2 DEF Invariant, TablesOK, Begin
  <2>3. QED
    BY <1>1, <1>2, <2>1, <2>2 DEF Invariant, TablesOK
<1>7. CallsQueue'
  <2> SUFFICES ASSUME NEW q \in Requests, call'[q].at # "idle"
               PROVE  /\ Queued(q, queue'[call'[q].m])
                      /\ call'[q].m \notin call'[q].todo
                      /\ call'[q].op = "load" => call'[q].v \in Versions
    BY DEF CallsQueue
  <2>1. CASE q = r
    BY <1>2, <1>3, <1>4, <2>1, Joining
  <2>2. CASE q # r
    <3>1. /\ call[q].m \in Models /\ Queued(q, queue[call[q].m])
          /\ call[q].m \notin call[q].todo /\ (call[q].op = "load" => call[q].v \in Versions)
      BY <1>3, <2>2, CallShape DEF Invariant, CallsQueue, Calls
    <3>2. ASSUME call[q].m = m PROVE Queued(q, queue'[call[q].m])
      <4>1. Queued(q, Append(queue[m], r))
        BY <1>4, <3>1, <3>2, Joining
      <4>2. QED
        BY <1>4, <3>2, <4>1
    <3>3. ASSUME call[q].m # m PROVE Queued(q, queue'[call[q].m])
      BY <1>4, <3>1, <3>3
    <3>4. QED
      BY <1>3, <2>2, <3>1, <3>2, <3>3
  <2>3. QED
    BY <2>1, <2>2
<1>8. LoadersHold'
  <2> SUFFICES ASSUME NEW q \in Requests, call'[q].at = "loading"
               PROVE  /\ call'[q].op = "load" /\ Head(queue'[call'[q].m]) = q
                      /\ status'[call'[q].m] = "loading"
                      /\ current'[call'[q].m] = call'[q].v
    BY DEF LoadersHold
  <2>1. CASE q = r
    BY <1>3, <1>4, <1>5, <2>1, Joining
  <2>2. CASE q # r
    <3>1. /\ call[q].at = "loading" /\ call[q].m \in Models /\ Queued(q, queue[call[q].m])
          /\ call[q].op = "load" /\ Head(queue[call[q].m]) = q
          /\ status[call[q].m] = "loading" /\ current[call[q].m] = call[q].v
      BY <1>3, <2>2, CallShape DEF Invariant, CallsQueue, LoadersHold, Calls
    <3>2. queue[call[q].m] # <<>>
      BY <3>1 DEF Queued
    <3>3. QED
      BY <1>3, <1>4, <1>5, <2>2, <3>1, <3>2, Joining
  <2>3. QED
    BY <2>1, <2>2
<1>9. InfoOK'
  <2> SUFFICES ASSUME NEW n \in Models
               PROVE  /\ status'[n] = "ready" => object'[n] # None /\ object'[n] = current'[n]
                      /\ status'[n] = "loading" =>
                           \E q \in Requests : call'[q].at = "loading" /\ call'[q].m = n
    BY DEF InfoOK
  <2>1. CASE n = m /\ queue[m] = <<>>
    BY <1>3, <1>5, <2>1
  <2>2. CASE ~(n = m /\ queue[m] = <<>>)
    <3>1. status'[n] = status[n] /\ current'[n] = current[n] /\ object'[n] = object[n]
      BY <1>1, <1>5, <2>2
    <3>2. status[n] = "loading" =>
            \E q \in Requests : q # r /\ call[q].at = "loading" /\ call[q].m = n
      BY <1>3 DEF Invariant, InfoOK
    <3>3. QED
      BY <1>3, <3>1, <3>2 DEF Invariant, InfoOK
  <2>3. QED
    BY <2>1, <2>2
<1>10. ServedOK'
  BY <1>1 DEF Invariant, ServedOK
<1>11. QED
  BY <1>6, <1>7, <1>8, <1>9, <1>10 DEF Invariant

\* A load that has waited begins: nobody is loading its model.
LEMMA StartLoadKeeps ==
  ASSUME Invariant, NEW r \in Requests, StartLoad(r)
  PROVE  Invariant'
<1> DEFINE m == call[r].m
<1>1. /\ call[r].at = "waiting" /\ call[r].op = "load" /\ Head(queue[m]) = r
      /\ Begin(m, call[r].v)
      /\ call' = [call EXCEPT ![r].at = "loading"]
      /\ UNCHANGED <<known, object, queue, served>>
  BY DEF StartLoad, Holds
<1>2. call[r] \in Calls /\ m \in Models /\ call[r].v \in Versions
  BY <1>1, CallShape DEF Invariant, CallsQueue, Calls
<1>3. /\ call'[r] = [call[r] EXCEPT !.at = "loading"] /\ call'[r] \in Calls
      /\ call'[r].at = "loading" /\ call'[r].m = m /\ call'[r].op = "load"
      /\ call'[r].v = call[r].v /\ call'[r].todo = call[r].todo
      /\ \A q \in Requests : q # r => call'[q] = call[q]
      /\ call' \in [Requests -> Calls \cup {Idle}]
  BY <1>1, <1>2 DEF Invariant, TablesOK, Calls
<1>4. /\ status'[m] = "loading" /\ current'[m] = call[r].v
      /\ \A n \in Models : n # m => status'[n] = status[n] /\ current'[n] = current[n]
      /\ status' \in [Models -> {"unloaded", "loading", "ready", "error"}]
      /\ current' \in [Models -> Versions \cup {None}]
  BY <1>1, <1>2 DEF Invariant, TablesOK, Begin
<1>5. TablesOK'
  BY <1>1, <1>3, <1>4 DEF Invariant, TablesOK
<1>6. CallsQueue'
  BY <1>1, <1>2, <1>3 DEF Invariant, CallsQueue
<1>7. LoadersHold'
  <2> SUFFICES ASSUME NEW q \in Requests, call'[q].at = "loading", q # r
               PROVE  /\ call'[q].op = "load" /\ Head(queue'[call'[q].m]) = q
                      /\ status'[call'[q].m] = "loading"
                      /\ current'[call'[q].m] = call'[q].v
    BY <1>1, <1>3, <1>4 DEF LoadersHold
  <2>1. call[q].at = "loading" /\ call[q].m # m /\ call[q].m \in Models
    BY <1>1, <1>3, OneLoads, CallShape DEF Invariant, Calls
  <2>2. QED
    BY <1>1, <1>3, <1>4, <2>1 DEF Invariant, LoadersHold
<1>8. InfoOK'
  BY <1>1, <1>3, <1>4 DEF Invariant, InfoOK
<1>9. ServedOK'
  BY <1>1 DEF Invariant, ServedOK
<1>10. QED
  BY <1>5, <1>6, <1>7, <1>8, <1>9 DEF Invariant

\* Who holds the lock returns it: the others of the queue stay, and nobody
\* loads that model.
LEMMA Returning ==
  ASSUME Invariant, NEW r \in Requests, call[r].at # "idle", Head(queue[call[r].m]) = r,
         Release(r)
  PROVE  /\ call' \in [Requests -> Calls \cup {Idle}] /\ queue' \in [Models -> Seq(Requests)]
         /\ CallsQueue'
         /\ call'[r].at = "idle" /\ \A q \in Requests : q # r => call'[q] = call[q]
         /\ \A q \in Requests : call'[q].at = "loading" =>
              /\ call[q].at = "loading" /\ call'[q] = call[q]
              /\ call[q].m # call[r].m /\ queue'[call[q].m] = queue[call[q].m]
<1> DEFINE m == call[r].m
<1>1. m \in Models /\ Queued(r, queue[m]) /\ queue[m] \in Seq(Requests)
  BY CallShape DEF Invariant, CallsQueue, Calls, TablesOK
<1>2. /\ queue' = [queue EXCEPT ![m] = Tail(@)]
      /\ call' = [call EXCEPT ![r] = Idle]
  BY DEF Release
<1>3. /\ queue'[m] = Tail(queue[m]) /\ \A n \in Models : n # m => queue'[n] = queue[n]
      /\ queue' \in [Models -> Seq(Requests)]
  BY <1>1, <1>2, Leaving DEF Invariant, TablesOK
<1>4. /\ call' \in [Requests -> Calls \cup {Idle}]
      /\ call'[r].at = "idle" /\ \A q \in Requests : q # r => call'[q] = call[q]
  BY <1>2 DEF Invariant, TablesOK, Idle
<1>5. CallsQueue'
  <2> SUFFICES ASSUME NEW q \in Requests, call[q].at # "idle", q # r
               PROVE  /\ Queued(q, queue'[call[q].m])
                      /\ call[q].m \notin call[q].todo
                      /\ call[q].op = "load" => call[q].v \in Versions
    BY <1>4 DEF CallsQueue
  <2>1. /\ call[q].m \in Models /\ Queued(q, queue[call[q].m])
        /\ call[q].m \notin call[q].todo /\ (call[q].op = "load" => call[q].v \in Versions)
    BY CallShape DEF Invariant, CallsQueue, Calls
  <2>2. QED
    BY <1>1, <1>3, <2>1, Leaving
<1>6. ASSUME NEW q \in Requests, call'[q].at = "loading"
      PROVE  /\ call[q].at = "loading" /\ call'[q] = call[q]
             /\ call[q].m # call[r].m /\ queue'[call[q].m] = queue[call[q].m]
  <2>1. q # r /\ call[q].at = "loading" /\ call'[q] = call[q]
    BY <1>4, <1>6
  <2>2. call[q].m # m /\ call[q].m \in Models
    BY <2>1, OneLoads, CallShape DEF Invariant, Calls
  <2>3. QED
    BY <1>3, <2>1, <2>2
<1>7. QED
  BY <1>3, <1>4, <1>5, <1>6

\* The info of one model changes, to a state in which it is not being loaded.
LEMMA InfoSettles ==
  ASSUME Invariant, NEW r \in Requests, call[r].at # "idle",
         NEW s \in {"unloaded", "ready", "error"},
         NEW v \in Versions \cup {None},
         status' = [status EXCEPT ![call[r].m] = s],
         object' = [object EXCEPT ![call[r].m] = v],
         s = "ready" => v # None /\ v = current[call[r].m],
         UNCHANGED <<known, current>>,
         \A q \in Requests : q # r => call'[q] = call[q],
         call'[r].at # "loading",
         \A q \in Requests : call'[q].at = "loading" =>
              /\ call[q].at = "loading" /\ call'[q] = call[q]
              /\ call[q].m # call[r].m /\ queue'[call[q].m] = queue[call[q].m]
  PROVE  /\ status' \in [Models -> {"unloaded", "loading", "ready", "error"}]
         /\ object' \in [Models -> Versions \cup {None}]
         /\ LoadersHold' /\ InfoOK'
<1> DEFINE m == call[r].m
<1>1. m \in Models
  BY CallShape DEF Invariant, Calls
<1>2. /\ status'[m] = s /\ object'[m] = v
      /\ \A n \in Models : n # m => status'[n] = status[n] /\ object'[n] = object[n]
      /\ status' \in [Models -> {"unloaded", "loading", "ready", "error"}]
      /\ object' \in [Models -> Versions \cup {None}]
  BY <1>1 DEF Invariant, TablesOK
<1>3. LoadersHold'
  <2> SUFFICES ASSUME NEW q \in Requests, call'[q].at = "loading"
               PROVE  /\ call'[q].op = "load" /\ Head(queue'[call'[q].m]) = q
                      /\ status'[call'[q].m] = "loading"
                      /\ current'[call'[q].m] = call'[q].v
    BY DEF LoadersHold
  <2>1. /\ call[q].at = "loading" /\ call'[q] = call[q] /\ call[q].m # m
        /\ queue'[call[q].m] = queue[call[q].m] /\ call[q].m \in Models
    BY CallShape DEF Invariant, Calls
  <2>2. QED
    BY <1>2, <2>1 DEF Invariant, LoadersHold
<1>4. InfoOK'
  <2> SUFFICES ASSUME NEW n \in Models
               PROVE  /\ status'[n] = "ready" => object'[n] # None /\ object'[n] = current'[n]
                      /\ status'[n] = "loading" =>
                           \E q \in Requests : call'[q].at = "loading" /\ call'[q].m = n
    BY DEF InfoOK
  <2>1. CASE n = m
    BY <1>2, <2>1
  <2>2. CASE n # m
    BY <1>2, <2>2 DEF Invariant, InfoOK
  <2>3. QED
    BY <2>1, <2>2
<1>5. QED
  BY <1>2, <1>3, <1>4

\* A load stores what its model's info has promised, or raises.
LEMMA LoadEndKeeps ==
  ASSUME Invariant, NEW r \in Requests, Loaded(r) \/ LoadFails(r)
  PROVE  Invariant'
<1> DEFINE m == call[r].m
           v == call[r].v
<1>1. call[r].at = "loading" /\ call[r].op = "load" /\ Head(queue[m]) = r /\ Release(r)
  BY DEF Loaded, LoadFails, Holds
<1>2. call[r] \in Calls /\ m \in Models /\ v \in Versions /\ v # None /\ current[m] = v
  BY <1>1, CallShape, ModelInfoAssumption DEF Invariant, CallsQueue, LoadersHold, Calls
<1>3. /\ call' \in [Requests -> Calls \cup {Idle}] /\ queue' \in [Models -> Seq(Requests)]
      /\ CallsQueue'
      /\ call'[r].at = "idle" /\ \A q \in Requests : q # r => call'[q] = call[q]
      /\ \A q \in Requests : call'[q].at = "loading" =>
           /\ call[q].at = "loading" /\ call'[q] = call[q]
           /\ call[q].m # call[r].m /\ queue'[call[q].m] = queue[call[q].m]
  BY <1>1, Returning
<1>4. CASE Loaded(r)
  <2>1. /\ status' = [status EXCEPT ![m] = "ready"] /\ object' = [object EXCEPT ![m] = v]
        /\ served' = [served EXCEPT ![r] = [want |-> v, got |-> v]]
        /\ UNCHANGED <<known, current>>
    BY <1>4 DEF Loaded
  <2>2. /\ status' \in [Models -> {"unloaded", "loading", "ready", "error"}]
        /\ object' \in [Models -> Versions \cup {None}]
        /\ LoadersHold' /\ InfoOK'
    BY <1>1, <1>2, <1>3, <2>1, InfoSettles
  <2>3. TablesOK' /\ ServedOK'
    BY <1>2, <1>3, <2>1, <2>2 DEF Invariant, TablesOK, ServedOK
  <2>4. QED
    BY <1>3, <2>2, <2>3 DEF Invariant
<1>5. CASE LoadFails(r)
  <2>1. /\ status' = [status EXCEPT ![m] = "error"]
        /\ UNCHANGED <<known, current, object, served>>
    BY <1>5 DEF LoadFails
  <2>2. object' = [object EXCEPT ![m] = object[m]] /\ object[m] \in Versions \cup {None}
    BY <1>2, <2>1 DEF Invariant, TablesOK
  <2>3. /\ status' \in [Models -> {"unloaded", "loading", "ready", "error"}]
        /\ object' \in [Models -> Versions \cup {None}]
        /\ LoadersHold' /\ InfoOK'
    BY <1>1, <1>3, <2>1, <2>2, InfoSettles
  <2>4. TablesOK' /\ ServedOK'
    BY <1>3, <2>1, <2>3 DEF Invariant, TablesOK, ServedOK
  <2>5. QED
    BY <1>3, <2>3, <2>4 DEF Invariant
<1>6. QED
  BY <1>4, <1>5

\* An unload joins a queue, behind whoever is loading.
LEMMA AskUnloadKeeps ==
  ASSUME Invariant, NEW r \in Requests, NEW S \in SUBSET Models, AskUnload(r, S)
  PROVE  Invariant'
<1>1. PICK m \in S :
        /\ queue' = [queue EXCEPT ![m] = Append(@, r)]
        /\ call' = [call EXCEPT ![r] = [at |-> "waiting", op |-> "unload", m |-> m,
                                        v |-> None, todo |-> S \ {m}]]
  BY DEF AskUnload
<1> DEFINE x == [at |-> "waiting", op |-> "unload", m |-> m, v |-> None, todo |-> S \ {m}]
<1>2. call[r] = Idle /\ UNCHANGED <<known, current, status, object, served>>
  BY DEF AskUnload
<1>3. /\ x \in Calls /\ x.at = "waiting" /\ x.op = "unload" /\ x.m = m /\ m \notin x.todo
  BY DEF Calls
<1>4. call' = [call EXCEPT ![r] = x]
  BY <1>1
<1> HIDE DEF x
<1>5. /\ call'[r] = x /\ \A q \in Requests : q # r => call'[q] = call[q]
      /\ call' \in [Requests -> Calls \cup {Idle}] /\ call[r].at = "idle"
  BY <1>2, <1>3, <1>4 DEF Invariant, TablesOK, Idle
<1>6. /\ m \in Models /\ queue[m] \in Seq(Requests)
      /\ queue'[m] = Append(queue[m], r) /\ \A n \in Models : n # m => queue'[n] = queue[n]
      /\ queue' \in [Models -> Seq(Requests)]
  BY <1>1, Joining DEF Invariant, TablesOK
<1>7. TablesOK' /\ ServedOK'
  BY <1>2, <1>5, <1>6 DEF Invariant, TablesOK, ServedOK
<1>8. CallsQueue'
  <2> SUFFICES ASSUME NEW q \in Requests, call'[q].at # "idle"
               PROVE  /\ Queued(q, queue'[call'[q].m])
                      /\ call'[q].m \notin call'[q].todo
                      /\ call'[q].op = "load" => call'[q].v \in Versions
    BY DEF CallsQueue
  <2>1. CASE q = r
    BY <1>3, <1>5, <1>6, <2>1, Joining
  <2>2. CASE q # r
    <3>1. /\ call[q].m \in Models /\ Queued(q, queue[call[q].m])
          /\ call[q].m \notin call[q].todo /\ (call[q].op = "load" => call[q].v \in Versions)
      BY <1>5, <2>2, CallShape DEF Invariant, CallsQueue, Calls
    <3>2. QED
      BY <1>5, <1>6, <2>2, <3>1, Joining
  <2>3. QED
    BY <2>1, <2>2
<1>9. LoadersHold'
  <2> SUFFICES ASSUME NEW q \in Requests, call'[q].at = "loading"
               PROVE  /\ call'[q].op = "load" /\ Head(queue'[call'[q].m]) = q
                      /\ status'[call'[q].m] = "loading"
                      /\ current'[call'[q].m] = call'[q].v
    BY DEF LoadersHold
  <2>1. /\ call'[q] = call[q] /\ call[q].at = "loading"
        /\ call[q].m \in Models /\ Queued(q, queue[call[q].m])
    BY <1>3, <1>5, CallShape DEF Invariant, CallsQueue, Calls
  <2>2. queue[call[q].m] # <<>>
    BY <2>1 DEF Queued
  <2>3. QED
    BY <1>2, <1>6, <2>1, <2>2, Joining DEF Invariant, LoadersHold
<1>10. InfoOK'
  BY <1>2, <1>5 DEF Invariant, InfoOK
<1>11. QED
  BY <1>7, <1>8, <1>9, <1>10 DEF Invariant

\* An unload takes the object away while nobody loads, and goes on to the next
\* model when it was asked for all.
LEMMA UnloadKeeps ==
  ASSUME Invariant, NEW r \in Requests, Unload(r)
  PROVE  Invariant'
<1> DEFINE m == call[r].m
           s == IF object[m] = None THEN status[m] ELSE "unloaded"
<1>1. /\ call[r].at = "waiting" /\ call[r].op = "unload" /\ Head(queue[m]) = r
      /\ UNCHANGED <<known, current, served>>
  BY DEF Unload, Holds
<1>2. call[r] \in Calls /\ m \in Models /\ Queued(r, queue[m]) /\ m \notin call[r].todo
  BY <1>1, CallShape DEF Invariant, CallsQueue, Calls
<1>3. status[m] # "loading"
  BY <1>1, <1>2, OneLoads DEF Invariant, InfoOK
<1>4. /\ s \in {"unloaded", "error"}
      /\ status' = [status EXCEPT ![m] = s] /\ object' = [object EXCEPT ![m] = None]
  BY <1>2, <1>3 DEF Unload, Invariant, TablesOK, InfoOK
<1> HIDE DEF s
<1>5. CASE Release(r)
  <2>1. /\ call' \in [Requests -> Calls \cup {Idle}] /\ queue' \in [Models -> Seq(Requests)]
        /\ CallsQueue'
        /\ call'[r].at = "idle" /\ \A q \in Requests : q # r => call'[q] = call[q]
        /\ \A q \in Requests : call'[q].at = "loading" =>
             /\ call[q].at = "loading" /\ call'[q] = call[q]
             /\ call[q].m # call[r].m /\ queue'[call[q].m] = queue[call[q].m]
    BY <1>1, <1>5, Returning
  <2>2. /\ status' \in [Models -> {"unloaded", "loading", "ready", "error"}]
        /\ object' \in [Models -> Versions \cup {None}]
        /\ LoadersHold' /\ InfoOK'
    BY <1>1, <1>4, <2>1, InfoSettles
  <2>3. TablesOK' /\ ServedOK'
    BY <1>1, <2>1, <2>2 DEF Invariant, TablesOK, ServedOK
  <2>4. QED
    BY <2>1, <2>2, <2>3 DEF Invariant
<1>6. ASSUME NEW n \in call[r].todo,
             queue' = [queue EXCEPT ![m] = Tail(@), ![n] = Append(@, r)],
             call' = [call EXCEPT ![r].m = n, ![r].todo = @ \ {n}]
      PROVE  Invariant'
  <2>1. n \in Models /\ n # m
    BY <1>2 DEF Calls
  <2>2. /\ call'[r] \in Calls /\ call'[r].at = "waiting" /\ call'[r].op = "unload"
        /\ call'[r].m = n /\ n \notin call'[r].todo
        /\ \A q \in Requests : q # r => call'[q] = call[q]
        /\ call' \in [Requests -> Calls \cup {Idle}]
    BY <1>1, <1>2, <1>6, <2>1 DEF Invariant, TablesOK, Calls
  <2>3. /\ queue[m] \in Seq(Requests) /\ queue[n] \in Seq(Requests)
        /\ queue'[m] = Tail(queue[m]) /\ queue'[n] = Append(queue[n], r)
        /\ \A k \in Models : k # m /\ k # n => queue'[k] = queue[k]
    BY <1>2, <1>6, <2>1 DEF Invariant, TablesOK
  <2>4. queue' \in [Models -> Seq(Requests)]
    BY <1>1, <1>2, <1>6, <2>1, <2>3, Joining, Leaving DEF Invariant, TablesOK
  <2>5. CallsQueue'
    <3> SUFFICES ASSUME NEW q \in Requests, call'[q].at # "idle"
                 PROVE  /\ Queued(q, queue'[call'[q].m])
                        /\ call'[q].m \notin call'[q].todo
                        /\ call'[q].op = "load" => call'[q].v \in Versions
      BY DEF CallsQueue
    <3>1. CASE q = r
      BY <2>2, <2>3, <3>1, Joining
    <3>2. CASE q # r
      <4>1. /\ call[q].m \in Models /\ Queued(q, queue[call[q].m])
            /\ call[q].m \notin call[q].todo /\ (call[q].op = "load" => call[q].v \in Versions)
        BY <2>2, <3>2, CallShape DEF Invariant, CallsQueue, Calls
      <4>2. ASSUME call[q].m = m PROVE Queued(q, queue'[call[q].m])
        <5>1. Queued(q, Tail(queue[m]))
          BY <1>1, <1>2, <2>3, <3>2, <4>1, <4>2, Leaving
        <5>2. QED
          BY <2>3, <4>2, <5>1
      <4>3. ASSUME call[q].m = n PROVE Queued(q, queue'[call[q].m])
        <5>1. Queued(q, Append(queue[n], r))
          BY <2>3, <4>1, <4>3, Joining
        <5>2. QED
          BY <2>3, <4>3, <5>1
      <4>4. ASSUME call[q].m # m, call[q].m # n PROVE Queued(q, queue'[call[q].m])
        BY <2>3, <4>1, <4>4
      <4>5. Queued(q, queue'[call[q].m])
        BY <4>2, <4>3, <4>4
      <4>6. QED
        BY <2>2, <3>2, <4>1, <4>5
    <3>3. QED
      BY <3>1, <3>2
  <2>6. \A q \in Requests : call'[q].at = "loading" =>
          call[q].at = "loading" /\ call'[q] = call[q] /\ call[q].m # m /\ call[q].m \in Models
    BY <1>1, <2>2, OneLoads, CallShape DEF Invariant, Calls
  <2>7. LoadersHold'
    <3> SUFFICES ASSUME NEW q \in Requests, call'[q].at = "loading"
                 PROVE  /\ call'[q].op = "load" /\ Head(queue'[call'[q].m]) = q
                        /\ status'[call'[q].m] = "loading"
                        /\ current'[call'[q].m] = call'[q].v
      BY DEF LoadersHold
    <3>1. /\ call[q].op = "load" /\ Head(queue[call[q].m]) = q
          /\ status[call[q].m] = "loading" /\ current[call[q].m] = call[q].v
          /\ Queued(q, queue[call[q].m])
      BY <2>6 DEF Invariant, LoadersHold, CallsQueue
    <3>2. Head(queue'[call[q].m]) = q
      <4>1. CASE call[q].m = n
        <5>1. queue[n] # <<>>
          BY <3>1, <4>1 DEF Queued
        <5>2. QED
          BY <2>3, <3>1, <4>1, <5>1, Joining
      <4>2. CASE call[q].m # n
        BY <2>3, <2>6, <3>1, <4>2
      <4>3. QED
        BY <4>1, <4>2
    <3>3. status'[call[q].m] = status[call[q].m] /\ current' = current
      BY <1>1, <1>4, <2>6 DEF Invariant, TablesOK
    <3>4. QED
      BY <2>6, <3>1, <3>2, <3>3
  <2>8. InfoOK'
    <3> SUFFICES ASSUME NEW k \in Models
                 PROVE  /\ status'[k] = "ready" => object'[k] # None /\ object'[k] = current'[k]
                        /\ status'[k] = "loading" =>
                             \E q \in Requests : call'[q].at = "loading" /\ call'[q].m = k
      BY DEF InfoOK
    <3>1. CASE k = m
      BY <1>4, <3>1 DEF Invariant, TablesOK
    <3>2. CASE k # m
      <4>1. status'[k] = status[k] /\ object'[k] = object[k] /\ current'[k] = current[k]
        BY <1>1, <1>4, <3>2 DEF Invariant, TablesOK
      <4>2. \A q \in Requests : call[q].at = "loading" => call'[q] = call[q]
        BY <1>1, <2>2
      <4>3. QED
        BY <4>1, <4>2 DEF Invariant, InfoOK
    <3>3. QED
      BY <3>1, <3>2
  <2>9. TablesOK' /\ ServedOK'
    BY <1>1, <1>4, <2>2, <2>4 DEF Invariant, TablesOK, ServedOK
  <2>10. QED
    BY <2>5, <2>7, <2>8, <2>9 DEF Invariant
<1>7. QED
  BY <1>5, <1>6 DEF Unload

LEMMA StutterKeeps ==
  ASSUME Invariant, UNCHANGED miVars
  PROVE  Invariant'
<1>1. UNCHANGED <<known, current, status, object, queue, call, served>>
  BY DEF miVars
<1>2. QED
  BY <1>1 DEF Invariant, TablesOK, CallsQueue, LoadersHold, InfoOK, ServedOK

-----------------------------------------------------------------------------
LEMMA InitInvariant == Init => Invariant
<1> SUFFICES ASSUME Init PROVE Invariant
  OBVIOUS
<1>1. TablesOK
  BY DEF Init, TablesOK
<1>2. CallsQueue /\ LoadersHold /\ InfoOK /\ ServedOK
  BY DEF Init, CallsQueue, LoadersHold, InfoOK, ServedOK, Idle
<1>3. QED
  BY <1>1, <1>2 DEF Invariant

LEMMA NextInvariant == Invariant /\ [Next]_miVars => Invariant'
<1> SUFFICES ASSUME Invariant, [Next]_miVars PROVE Invariant'
  OBVIOUS
<1>1. ASSUME NEW r \in Requests, Step(r) PROVE Invariant'
  BY <1>1, StartLoadKeeps, LoadEndKeeps, UnloadKeeps DEF Step
<1>2. ASSUME NEW r \in Requests, AskUnloadAll(r) PROVE Invariant'
  <2>1. {m \in Models : object[m] # None} \in SUBSET Models
    OBVIOUS
  <2>2. QED
    BY <1>2, <2>1, AskUnloadKeeps DEF AskUnloadAll
<1>3. ASSUME NEW r \in Requests, NEW m \in Models, AskUnload(r, {m}) PROVE Invariant'
  <2>1. {m} \in SUBSET Models
    OBVIOUS
  <2>2. QED
    BY <1>3, <2>1, AskUnloadKeeps
<1>4. QED
  BY <1>1, <1>2, <1>3, LoadCachedKeeps, AskLoadKeeps, StutterKeeps DEF Next

-----------------------------------------------------------------------------
\* What a ModelInfo says of a model is what is loaded and what is being done,
\* and a load returns the version it was asked for, for any number of calls
\* (load_model, unload_model).
THEOREM InfoAlwaysTells == Spec => []InfoTellsObject
<1>1. Invariant => InfoTellsObject
  <2> SUFFICES ASSUME Invariant PROVE InfoTellsObject
    OBVIOUS
  <2>1. ASSUME NEW m \in Models, status[m] = "loading"
        PROVE  \E r \in Requests : /\ call[r].at = "loading" /\ call[r].m = m
                                   /\ call[r].v = current[m] /\ Head(queue[m]) = r
    BY <2>1 DEF Invariant, InfoOK, LoadersHold
  <2>2. ASSUME NEW m \in Models, NEW r \in Requests, call[r].at = "loading", call[r].m = m
        PROVE  status[m] = "loading"
    BY <2>2 DEF Invariant, LoadersHold
  <2>3. QED
    BY <2>1, <2>2 DEF Invariant, InfoOK, ServedOK, InfoTellsObject
<1>2. QED
  BY <1>1, InitInvariant, NextInvariant, PTL DEF Spec

-----------------------------------------------------------------------------
(* Sequences and sets of numbers                                           *)

Distinct(s) == \A i, j \in DOMAIN s : s[i] = s[j] => i = j

Elements(s) == {s[i] : i \in DOMAIN s}

\* A sequence without repetition loses one place.
LEMMA RemovedAt ==
  ASSUME NEW S, NEW s \in Seq(S), Distinct(s), NEW k \in 1..Len(s)
  PROVE  /\ RemoveAt(s, k) \in Seq(S) /\ Distinct(RemoveAt(s, k))
         /\ Elements(RemoveAt(s, k)) = Elements(s) \ {s[k]}
<1> DEFINE rest == SubSeq(s, 1, k - 1) \o SubSeq(s, k + 1, Len(s))
<1>1. /\ rest \in Seq(S) /\ Len(rest) = Len(s) - 1
      /\ \A i \in 1..Len(rest) : rest[i] = IF i < k THEN s[i] ELSE s[i + 1]
  <2> DEFINE one == SubSeq(s, 1, k - 1)
             two == SubSeq(s, k + 1, Len(s))
  <2>1. one \in Seq(S) /\ Len(one) = k - 1 /\ \A i \in 1..k - 1 : one[i] = s[i]
    BY SubSeqProperties
  <2>2. two \in Seq(S) /\ Len(two) = Len(s) - k /\ \A i \in 1..Len(s) - k : two[i] = s[k + i]
    BY SubSeqProperties
  <2> HIDE DEF one, two
  <2>3. /\ one \o two \in Seq(S) /\ Len(one \o two) = Len(one) + Len(two)
        /\ \A i \in 1..Len(one) + Len(two) :
             (one \o two)[i] = IF i <= Len(one) THEN one[i] ELSE two[i - Len(one)]
    BY <2>1, <2>2, ConcatProperties
  <2>4. rest = one \o two
    BY DEF rest, one, two
  <2> HIDE DEF rest
  <2>5. rest \in Seq(S) /\ Len(rest) = Len(s) - 1
    BY <2>1, <2>2, <2>3, <2>4
  <2>6. ASSUME NEW i \in 1..Len(rest)
        PROVE  rest[i] = IF i < k THEN s[i] ELSE s[i + 1]
    <3>1. CASE i < k
      <4>1. i \in 1..k - 1 /\ i \in 1..Len(one) + Len(two) /\ i <= Len(one)
        BY <2>1, <2>2, <2>5, <3>1
      <4>2. rest[i] = one[i]
        BY <2>3, <2>4, <4>1
      <4>3. QED
        BY <2>1, <3>1, <4>1, <4>2
    <3>2. CASE i >= k
      <4>1. i - (k - 1) \in 1..Len(s) - k /\ k + (i - (k - 1)) = i + 1
        BY <2>5, <3>2
      <4>2. rest[i] = two[i - (k - 1)]
        BY <2>1, <2>3, <2>4, <2>5, <3>2
      <4>3. QED
        BY <2>2, <3>2, <4>1, <4>2
    <3>3. QED
      BY <3>1, <3>2
  <2>7. QED
    BY <2>5, <2>6
<1> HIDE DEF rest
<1>2. Distinct(rest)
  <2> SUFFICES ASSUME NEW i \in 1..Len(rest), NEW j \in 1..Len(rest), rest[i] = rest[j]
               PROVE  i = j
    BY <1>1 DEF Distinct
  <2>1. /\ i \in 1..Len(s) /\ i + 1 \in 1..Len(s) /\ j \in 1..Len(s) /\ j + 1 \in 1..Len(s)
    BY <1>1
  <2>2. (IF i < k THEN s[i] ELSE s[i + 1]) = (IF j < k THEN s[j] ELSE s[j + 1])
    BY <1>1
  <2>3. (IF i < k THEN i ELSE i + 1) = (IF j < k THEN j ELSE j + 1)
    BY <2>1, <2>2 DEF Distinct
  <2>4. QED
    BY <2>3
<1>3. Elements(rest) \subseteq Elements(s) \ {s[k]}
  BY <1>1 DEF Elements, Distinct
<1>4. ASSUME NEW i \in DOMAIN s, s[i] # s[k]
      PROVE  s[i] \in Elements(rest)
  <2>1. CASE i < k
    BY <1>1, <2>1 DEF Elements
  <2>2. CASE i > k
    <3>1. i - 1 \in 1..Len(rest) /\ rest[i - 1] = s[i]
      BY <1>1, <2>2
    <3>2. QED
      BY <1>1, <3>1 DEF Elements
  <2>3. QED
    BY <1>4, <2>1, <2>2
<1>5. RemoveAt(s, k) = rest
  BY DEF RemoveAt, rest
<1>6. QED
  <2>1. Elements(s) \ {s[k]} \subseteq Elements(rest)
    BY <1>4 DEF Elements
  <2>2. QED
    BY <1>1, <1>2, <1>3, <1>5, <2>1

\* RemoveFirst takes the least place of an element: naturals have one.
LEMMA MinOfNats ==
  ASSUME NEW S \in SUBSET Nat, S # {}
  PROVE  Min(S) \in S
<1>1. PICK x \in S : \A y \in S : ~(<<y, x>> \in OpToRel(<, Nat))
  <2>1. IsWellFoundedOn(OpToRel(<, Nat), Nat)
    BY NatLessThanWellFounded
  <2>2. QED
    BY <2>1, WFMin
<1>2. \A y \in S : x <= y
  <2> SUFFICES ASSUME NEW y \in S PROVE x <= y
    OBVIOUS
  <2>1. ~(y < x)
    BY <1>1 DEF OpToRel
  <2>2. QED
    BY <2>1
<1>3. QED
  BY <1>2 DEF Min

\* RemoveFirst takes an element out of a sequence without repetition.
LEMMA RemovedFirst ==
  ASSUME NEW S, NEW s \in Seq(S), Distinct(s), NEW e
  PROVE  /\ RemoveFirst(s, e) \in Seq(S) /\ Distinct(RemoveFirst(s, e))
         /\ Elements(RemoveFirst(s, e)) = Elements(s) \ {e}
<1>1. CASE \E i \in 1..Len(s) : s[i] = e
  <2> DEFINE at == {i \in 1..Len(s) : s[i] = e}
  <2>1. Min(at) \in at
    BY <1>1, MinOfNats
  <2>2. RemoveFirst(s, e) = RemoveAt(s, Min(at))
    BY <1>1 DEF RemoveFirst, SelectInSeq
  <2>3. PICK k \in 1..Len(s) : k = Min(at) /\ s[k] = e
    BY <2>1
  <2>4. /\ RemoveAt(s, k) \in Seq(S) /\ Distinct(RemoveAt(s, k))
        /\ Elements(RemoveAt(s, k)) = Elements(s) \ {s[k]}
    BY RemovedAt
  <2>5. QED
    BY <2>2, <2>3, <2>4
<1>2. CASE ~\E i \in 1..Len(s) : s[i] = e
  BY <1>2 DEF RemoveFirst, Elements
<1>3. QED
  BY <1>1, <1>2

\* A new element at the end.
LEMMA AppendedLast ==
  ASSUME NEW S, NEW s \in Seq(S), Distinct(s), NEW e \in S, e \notin Elements(s)
  PROVE  /\ Append(s, e) \in Seq(S) /\ Distinct(Append(s, e))
         /\ Elements(Append(s, e)) = Elements(s) \cup {e}
<1> DEFINE t == Append(s, e)
<1>1. /\ t \in Seq(S) /\ Len(t) = Len(s) + 1 /\ Len(s) \in Nat
      /\ \A i \in 1..Len(s) : t[i] = s[i]
      /\ t[Len(s) + 1] = e
  OBVIOUS
<1> HIDE DEF t
<1>2. \A i \in 1..Len(s) : s[i] # e
  BY DEF Elements
<1>3. Distinct(t)
  <2> SUFFICES ASSUME NEW i \in 1..Len(s) + 1, NEW j \in 1..Len(s) + 1, t[i] = t[j]
               PROVE  i = j
    BY <1>1 DEF Distinct
  <2>1. CASE i \in 1..Len(s) /\ j \in 1..Len(s)
    BY <1>1, <2>1 DEF Distinct
  <2>2. CASE i \in 1..Len(s) /\ j \notin 1..Len(s)
    BY <1>1, <1>2, <2>2
  <2>3. CASE i \notin 1..Len(s) /\ j \in 1..Len(s)
    BY <1>1, <1>2, <2>3
  <2>4. CASE i \notin 1..Len(s) /\ j \notin 1..Len(s)
    BY <1>1, <2>4
  <2>5. QED
    BY <2>1, <2>2, <2>3, <2>4
<1>4. Elements(t) \subseteq Elements(s) \cup {e}
  <2> SUFFICES ASSUME NEW i \in 1..Len(s) + 1 PROVE t[i] \in Elements(s) \cup {e}
    BY <1>1 DEF Elements
  <2>1. CASE i \in 1..Len(s)
    BY <1>1, <2>1 DEF Elements
  <2>2. CASE i \notin 1..Len(s)
    BY <1>1, <2>2
  <2>3. QED
    BY <2>1, <2>2
<1>5. Elements(s) \cup {e} \subseteq Elements(t)
  <2>1. e \in Elements(t)
    BY <1>1 DEF Elements
  <2>2. ASSUME NEW i \in 1..Len(s) PROVE s[i] \in Elements(t)
    BY <1>1 DEF Elements
  <2>3. QED
    BY <2>1, <2>2 DEF Elements
<1>6. QED
  BY <1>1, <1>3, <1>4, <1>5 DEF t

\* The first element leaves.
LEMMA TailDistinct ==
  ASSUME NEW S, NEW s \in Seq(S), Distinct(s), s # <<>>
  PROVE  Tail(s) \in Seq(S) /\ Distinct(Tail(s))
<1>1. /\ Tail(s) \in Seq(S) /\ Len(Tail(s)) = Len(s) - 1 /\ Len(s) \in Nat
      /\ \A i \in 1..Len(s) - 1 : Tail(s)[i] = s[i + 1]
  OBVIOUS
<1>2. Distinct(Tail(s))
  <2> SUFFICES ASSUME NEW i \in 1..Len(s) - 1, NEW j \in 1..Len(s) - 1,
                      Tail(s)[i] = Tail(s)[j]
               PROVE  i = j
    BY <1>1 DEF Distinct
  <2>1. i + 1 \in DOMAIN s /\ j + 1 \in DOMAIN s /\ s[i + 1] = s[j + 1]
    BY <1>1
  <2>2. i + 1 = j + 1
    BY <2>1 DEF Distinct
  <2>3. QED
    BY <2>2
<1>3. QED
  BY <1>1, <1>2

\* The two drafts are instances, with the same library operators.
LEMMA SameOperators ==
  ASSUME NEW s, NEW e
  PROVE  /\ Single!RemoveFirst(s, e) = RemoveFirst(s, e)
         /\ Table!RemoveFirst(s, e) = RemoveFirst(s, e)
         /\ Single!Max(s) = Max(s) /\ Table!Max(s) = Max(s)
         /\ Single!Cardinality(s) = Cardinality(s)
BY DEF Single!RemoveFirst, Table!RemoveFirst, RemoveFirst, Single!RemoveAt,
   Table!RemoveAt, RemoveAt, Single!SelectInSeq, Table!SelectInSeq, SelectInSeq,
   Single!Min, Table!Min, Min, Single!Max, Table!Max, Max, Single!Cardinality,
   Cardinality

\* Max of a finite set of naturals is in it, by induction on its size.
LEMMA MaxOfNats ==
  ASSUME NEW S \in SUBSET Nat, IsFiniteSet(S), S # {}
  PROVE  Max(S) \in S
<1> DEFINE Topped(T) == \E x \in T : \A y \in T : y <= x
           Bad == {n \in Nat : \E T \in SUBSET Nat : /\ IsFiniteSet(T) /\ T # {}
                                                      /\ Cardinality(T) = n /\ ~Topped(T)}
<1>1. Bad = {}
  <2> SUFFICES ASSUME Bad # {} PROVE FALSE
    OBVIOUS
  <2>1. PICK n \in Bad : \A k \in Bad : ~(<<k, n>> \in OpToRel(<, Nat))
    <3>1. Bad \in SUBSET Nat
      OBVIOUS
    <3>2. QED
      BY <3>1, NatLessThanWellFounded, WFMin
  <2>2. PICK T \in SUBSET Nat : IsFiniteSet(T) /\ T # {} /\ Cardinality(T) = n /\ ~Topped(T)
    BY <2>1
  <2>3. PICK z \in T : TRUE
    BY <2>2
  <2>4. IsFiniteSet(T \ {z}) /\ Cardinality(T \ {z}) = n - 1 /\ n \in Nat /\ n - 1 \in Nat
    <3>1. IsFiniteSet(T) /\ Cardinality(T) = n /\ n \in Nat
      BY <2>1, <2>2
    <3>2. IsFiniteSet(T \ {z}) /\ Cardinality(T \ {z}) = n - 1
      BY <2>3, <3>1, FS_RemoveElement
    <3>3. QED
      BY <3>1, <3>2, FS_CardinalityType
  <2>5. T \ {z} # {}
    BY <2>2, <2>3
  <2>6. n - 1 \notin Bad
    <3>1. n - 1 \in Nat /\ n \in Nat /\ n - 1 < n
      BY <2>4
    <3>2. <<n - 1, n>> \in OpToRel(<, Nat)
      BY <3>1 DEF OpToRel
    <3>3. QED
      BY <2>1, <3>2
  <2>7. Topped(T \ {z})
    BY <2>4, <2>5, <2>6
  <2>8. Topped(T)
    BY <2>3, <2>7
  <2>9. QED
    BY <2>2, <2>8
<1>2. Topped(S)
  <2>1. Cardinality(S) \in Nat
    BY FS_CardinalityType
  <2>2. QED
    BY <1>1, <2>1
<1>3. QED
  BY <1>2 DEF Max

\* A sequence without repetition is as long as the set of its elements.
LEMMA DistinctCounts ==
  ASSUME NEW S, NEW s \in Seq(S), Distinct(s)
  PROVE  IsFiniteSet(Elements(s)) /\ Cardinality(Elements(s)) = Len(s)
<1> DEFINE at == [i \in 1..Len(s) |-> s[i]]
<1>1. IsFiniteSet(1..Len(s)) /\ Cardinality(1..Len(s)) = Len(s)
  <2>1. Len(s) \in Nat
    OBVIOUS
  <2>2. QED
    BY <2>1, FS_Interval
<1>2. at \in Bijection(1..Len(s), Elements(s))
  <2>1. at \in [1..Len(s) -> Elements(s)]
    BY DEF Elements
  <2>2. \A i, j \in 1..Len(s) : at[i] = at[j] => i = j
    BY DEF Distinct
  <2>3. \A e \in Elements(s) : \E i \in 1..Len(s) : at[i] = e
    BY DEF Elements
  <2> HIDE DEF at
  <2>4. QED
    BY <2>1, <2>2, <2>3, Fun_IsBij
<1> HIDE DEF at
<1>3. QED
  BY <1>1, <1>2, FS_Bijection DEF ExistsBijection

-----------------------------------------------------------------------------
(* The first class                                                         *)

SingleTypes ==
  /\ dirs \in [Models -> SUBSET Versions]
  /\ versions \in [Models -> [active : Versions, available : SUBSET Versions] \cup {None}]
  /\ loaded \in [Models -> Versions \cup {None}]
  /\ asked \in [Requests -> [op : {"load", "unload", "switch"}, m : Models,
                               v : Versions \cup {None}] \cup {Single!Idle}]
  /\ holder \in Requests \cup {None} /\ up \in {"new", "yes", "blocked", "no"}
  /\ explicit \subseteq Models

\* Each loaded model has the time of its last use, and one only.
TimesKept ==
  /\ lastUsed \in Seq(Models) /\ Distinct(lastUsed)
  /\ Elements(lastUsed) = Single!Loaded /\ healthy = Single!Loaded

\* Nothing is loaded or asked before the directories are read.
FreshIsEmpty ==
  up = "new" => Single!Loaded = {} /\ \A r \in Requests : asked[r] = Single!Idle

SwitchesName == \A r \in Requests : asked[r].op = "switch" => asked[r].v \in Versions

SingleInvariant ==
  /\ SingleTypes /\ TimesKept /\ FreshIsEmpty /\ SwitchesName
  /\ Single!ActiveServed

\* A use of a model moves it to the end of the order of uses.
LEMMA TouchKeepsTimes ==
  ASSUME lastUsed \in Seq(Models), Distinct(lastUsed), NEW m \in Models, Single!Touch(m)
  PROVE  /\ lastUsed' \in Seq(Models) /\ Distinct(lastUsed')
         /\ Elements(lastUsed') = Elements(lastUsed) \cup {m}
<1> DEFINE rest == RemoveFirst(lastUsed, m)
<1>1. lastUsed' = Append(rest, m)
  BY SameOperators DEF Single!Touch
<1>2. rest \in Seq(Models) /\ Distinct(rest) /\ Elements(rest) = Elements(lastUsed) \ {m}
  BY RemovedFirst
<1> HIDE DEF rest
<1>3. /\ Append(rest, m) \in Seq(Models) /\ Distinct(Append(rest, m))
      /\ Elements(Append(rest, m)) = Elements(rest) \cup {m}
  BY <1>2, AppendedLast
<1>4. QED
  BY <1>1, <1>2, <1>3

\* Dropping models drops the times of their last use with them.
LEMMA DropKeepsRest ==
  ASSUME SingleTypes, TimesKept, NEW S, NEW rest \in Seq(Models), Single!Drop(S, rest),
         Distinct(rest), Elements(rest) = Elements(lastUsed) \ S
  PROVE  /\ TimesKept' /\ loaded' \in [Models -> Versions \cup {None}]
         /\ Single!Loaded' = Single!Loaded \ S
         /\ \A m \in Single!Loaded' : loaded'[m] = loaded[m]
<1>1. Single!Loaded' = Single!Loaded \ S
  BY DEF Single!Drop, Single!Loaded, SingleTypes
<1>2. QED
  BY <1>1 DEF Single!Drop, Single!Loaded, SingleTypes, TimesKept

\* The order of uses counts what is loaded.
LEMMA LoadedCounted ==
  ASSUME TimesKept
  PROVE  IsFiniteSet(Single!Loaded) /\ Cardinality(Single!Loaded) = Len(lastUsed)
BY DistinctCounts DEF TimesKept

\* Fewer models are loaded, each as before.
LEMMA DropKeeps ==
  ASSUME SingleInvariant, NEW S, NEW rest \in Seq(Models), Single!Drop(S, rest),
         Distinct(rest), Elements(rest) = Elements(lastUsed) \ S,
         holder = None, UNCHANGED <<versions, holder>>
  PROVE  TimesKept' /\ Single!ActiveServed'
<1>1. /\ TimesKept' /\ Single!Loaded' = Single!Loaded \ S
      /\ \A m \in Single!Loaded' : loaded'[m] = loaded[m]
  BY DropKeepsRest DEF SingleInvariant
<1>2. /\ IsFiniteSet(Single!Loaded) /\ Cardinality(Single!Loaded) \in Nat
      /\ Cardinality(Single!Loaded) <= MaxLoaded \/ Cardinality(Single!Loaded) = 1
  BY LoadedCounted, FS_CardinalityType, SameOperators DEF SingleInvariant,
     Single!ActiveServed, Single!FewLoaded
<1>3. /\ Cardinality(Single!Loaded \ S) <= Cardinality(Single!Loaded)
      /\ Cardinality(Single!Loaded \ S) \in Nat
  BY <1>2, FS_Subset, FS_CardinalityType
<1>4. Single!FewLoaded'
  BY <1>1, <1>2, <1>3, LoadersAssumption, SameOperators DEF Single!FewLoaded
<1>5. \A m \in (Single!Loaded \ explicit)' : m \in Single!Loaded \ explicit
  BY <1>1 DEF Single!Drop
<1>6. Single!TellsServed'
  BY <1>1, <1>5 DEF SingleInvariant, Single!ActiveServed, Single!TellsServed, Single!HalfWay
<1>7. QED
  BY <1>1, <1>4, <1>6 DEF Single!ActiveServed

\* The scan makes the highest version of a directory the active one.
LEMMA ScanKeeps ==
  ASSUME SingleInvariant, Single!Scan
  PROVE  SingleInvariant'
<1>1. \A m \in Models : dirs[m] # {} => Single!Max(dirs[m]) \in dirs[m]
  <2> SUFFICES ASSUME NEW m \in Models, dirs[m] # {} PROVE Max(dirs[m]) \in dirs[m]
    BY SameOperators
  <2>1. dirs[m] \in SUBSET Nat /\ IsFiniteSet(dirs[m])
    BY ModelInfoAssumption, FS_Subset DEF SingleInvariant, SingleTypes
  <2>2. QED
    BY <2>1, MaxOfNats
<1>2. SingleTypes'
  BY <1>1 DEF SingleInvariant, SingleTypes, Single!Scan
<1>3. Single!ActiveServed'
  <2>1. Single!Loaded = {} /\ Single!Loaded' = {} /\ \A r \in Requests : asked[r] = Single!Idle
    BY DEF SingleInvariant, Single!Scan, FreshIsEmpty, Single!Loaded
  <2>2. holder = None /\ UNCHANGED <<holder, asked, loaded>>
    <3>1. holder # None => Single!MustUnload(asked[holder]) /\ holder \in Requests
      BY DEF SingleInvariant, SingleTypes, Single!ActiveServed
    <3>2. QED
      BY <2>1, <3>1 DEF Single!Scan, Single!MustUnload, Single!Idle
  <2>3. Single!FewLoaded' /\ Single!TellsServed'
    BY <2>1, <2>2 DEF SingleInvariant, Single!ActiveServed, Single!FewLoaded, Single!TellsServed
  <2>4. QED
    BY <2>2, <2>3 DEF Single!ActiveServed
<1>4. QED
  BY <1>2, <1>3 DEF SingleInvariant, TimesKept, FreshIsEmpty, SwitchesName,
     Single!Loaded, Single!Scan

\* The call that waits for itself has asked for something.
LEMMA HolderAsked ==
  ASSUME SingleInvariant
  PROVE  holder # None => /\ holder \in Requests /\ asked[holder] # Single!Idle
                          /\ Single!MustUnload(asked[holder])
BY DEF SingleInvariant, SingleTypes, Single!ActiveServed, Single!MustUnload, Single!Idle

\* Asking, refusing and sticking leave the tables alone.
LEMMA TablesStay ==
  ASSUME SingleInvariant, SingleTypes', FreshIsEmpty', SwitchesName',
         UNCHANGED <<loaded, lastUsed, healthy, explicit>>,
         \A m \in Models : versions'[m] = versions[m] \/ Single!HalfWay(m)',
         holder # None => /\ holder' = holder /\ UNCHANGED versions
                          /\ asked'[holder] = asked[holder],
         holder = None /\ holder' # None => Single!MustUnload(asked[holder])'
  PROVE  SingleInvariant'
<1>1. TimesKept' /\ Single!FewLoaded' /\ Single!Loaded' = Single!Loaded
  BY DEF SingleInvariant, TimesKept, Single!Loaded, Single!ActiveServed, Single!FewLoaded
<1>2. Single!TellsServed'
  <2> SUFFICES ASSUME NEW m \in Single!Loaded \ explicit
               PROVE  loaded[m] = versions'[m].active \/ Single!HalfWay(m)'
    BY <1>1 DEF Single!TellsServed
  <2>1. m \in Models
    BY DEF Single!Loaded
  <2>2. loaded[m] = versions[m].active \/ Single!HalfWay(m)
    BY DEF SingleInvariant, Single!ActiveServed, Single!TellsServed
  <2>3. Single!HalfWay(m) => Single!HalfWay(m)'
    BY DEF Single!HalfWay
  <2>4. QED
    BY <2>1, <2>2, <2>3
<1>3. holder' # None => Single!MustUnload(asked[holder])'
  <2>1. CASE holder # None
    BY <1>1, <2>1 DEF SingleInvariant, Single!ActiveServed, Single!MustUnload
  <2>2. CASE holder = None
    BY <2>2
  <2>3. QED
    BY <2>1, <2>2
<1>4. QED
  BY <1>1, <1>2, <1>3 DEF SingleInvariant, Single!ActiveServed

\* A call is asked for.
LEMMA AskOneKeeps ==
  ASSUME SingleInvariant, NEW r \in Requests, NEW m \in Models,
         NEW v \in Versions \cup {None},
         NEW op \in {"load", "unload", "switch"}, op = "switch" => v \in Versions,
         Single!Ask(r, op, m, v)
  PROVE  SingleInvariant'
<1>1. /\ asked[r] = Single!Idle
      /\ asked' = [asked EXCEPT ![r] = [op |-> op, m |-> m, v |-> v]]
      /\ UNCHANGED <<dirs, versions, loaded, lastUsed, healthy, holder, up, explicit>>
  BY DEF Single!Ask
<1>2. SingleTypes' /\ FreshIsEmpty' /\ SwitchesName'
  BY <1>1 DEF SingleInvariant, SingleTypes, FreshIsEmpty, SwitchesName, Single!Ask,
     Single!Idle, Single!Loaded
<1>3. holder # None => asked'[holder] = asked[holder]
  BY <1>1, HolderAsked DEF SingleInvariant, SingleTypes
<1>4. QED
  BY <1>1, <1>2, <1>3, TablesStay

\* A call raises before it changes anything.
LEMMA RefusedOneKeeps ==
  ASSUME SingleInvariant, NEW r \in Requests,
         Single!LoadRefused(r) \/ Single!SwitchRefused(r)
  PROVE  SingleInvariant'
<1>1. /\ holder = None /\ UNCHANGED <<dirs, versions, loaded, lastUsed, healthy, holder, up, explicit>>
      /\ asked' = [asked EXCEPT ![r] = Single!Idle]
  BY DEF Single!LoadRefused, Single!SwitchRefused, Single!Returns, Single!Takes
<1>2. SingleTypes' /\ FreshIsEmpty' /\ SwitchesName'
  BY <1>1 DEF SingleInvariant, SingleTypes, FreshIsEmpty, SwitchesName, Single!Idle,
     Single!Loaded
<1>3. QED
  BY <1>1, <1>2, TablesStay

\* A call that takes the lock again holds it for ever.
LEMMA SticksKeeps ==
  ASSUME SingleInvariant, NEW r \in Requests,
         (\E low \in BOOLEAN : Single!LoadSticks(r, low)) \/ Single!SwitchSticks(r)
  PROVE  SingleInvariant'
<1>1. CASE \E low \in BOOLEAN : Single!LoadSticks(r, low)
  <2>1. /\ holder = None /\ holder' = r /\ r # None /\ asked[r].op = "load" /\ asked[r].m \in Models
        /\ UNCHANGED <<dirs, versions, loaded, lastUsed, healthy, asked, up, explicit>>
    BY <1>1, LoadersAssumption DEF SingleInvariant, SingleTypes, Single!LoadSticks,
       Single!Sticks, Single!Takes, Single!Idle
  <2>2. SingleTypes' /\ FreshIsEmpty' /\ SwitchesName'
    BY <2>1 DEF SingleInvariant, SingleTypes, FreshIsEmpty, SwitchesName, Single!Loaded
  <2>3. Single!MustUnload(asked[r])
    BY <1>1, <2>1 DEF Single!LoadSticks, Single!MustUnload, Single!Loaded
  <2>4. Single!MustUnload(asked[holder])'
    BY <2>1, <2>3 DEF Single!MustUnload, Single!Loaded
  <2>5. QED
    BY <2>1, <2>2, <2>4, TablesStay
<1>2. CASE Single!SwitchSticks(r)
  <2>1. /\ asked[r].op = "switch" /\ asked[r].m \in Models /\ asked[r].v \in Versions
        /\ versions[asked[r].m] # None
    BY <1>2, ModelInfoAssumption DEF SingleInvariant, SingleTypes, SwitchesName,
       Single!SwitchSticks, Single!Takes, Single!Idle, Single!Known
  <2>2. versions' \in
          [Models -> [active : Versions, available : SUBSET Versions] \cup {None}]
    BY <1>2, <2>1 DEF SingleInvariant, SingleTypes, Single!SwitchSticks, Single!Known
  <2>3. /\ holder = None /\ holder' = r /\ r # None
        /\ versions' = [versions EXCEPT ![asked[r].m].active = asked[r].v]
        /\ UNCHANGED <<dirs, loaded, lastUsed, healthy, asked, up, explicit>>
    BY <1>2, LoadersAssumption DEF Single!SwitchSticks, Single!Sticks, Single!Takes
  <2>4. SingleTypes' /\ FreshIsEmpty' /\ SwitchesName'
    BY <2>2, <2>3 DEF SingleInvariant, SingleTypes, FreshIsEmpty, SwitchesName, Single!Loaded
  <2>5. \A m \in Models : versions'[m] = versions[m] \/ Single!HalfWay(m)'
    BY <2>1, <2>3 DEF SingleInvariant, SingleTypes, Single!HalfWay
  <2>6. Single!MustUnload(asked[holder])'
    <3>1. versions'[asked[r].m].active = asked[r].v
      <4>1. versions[asked[r].m] \in [active : Versions, available : SUBSET Versions]
        BY <2>1 DEF SingleInvariant, SingleTypes
      <4>2. versions'[asked[r].m] = [versions[asked[r].m] EXCEPT !.active = asked[r].v]
        BY <2>1, <2>3 DEF SingleInvariant, SingleTypes
      <4>3. QED
        BY <4>1, <4>2
    <3>2. QED
      BY <2>1, <2>3, <3>1 DEF Single!MustUnload
  <2>7. QED
    BY <2>3, <2>4, <2>5, <2>6, TablesStay
<1>3. QED
  BY <1>1, <1>2

\* A model that is loaded is used.
LEMMA CachedKeeps ==
  ASSUME SingleInvariant, NEW r \in Requests,
         Single!LoadCached(r) \/ Single!SwitchCached(r)
  PROVE  SingleInvariant'
<1>1. asked[r].m \in Single!Loaded /\ Single!Touch(asked[r].m) /\ asked[r] # Single!Idle
  BY ModelInfoAssumption DEF SingleInvariant, SingleTypes, SwitchesName,
     Single!LoadCached, Single!SwitchCached, Single!Takes, Single!Idle, Single!Loaded
<1>2. TimesKept'
  BY <1>1, TouchKeepsTimes DEF SingleInvariant, TimesKept, Single!LoadCached,
     Single!SwitchCached, Single!Loaded
<1>3. SingleTypes' /\ FreshIsEmpty' /\ SwitchesName'
  BY DEF SingleInvariant, SingleTypes, FreshIsEmpty, SwitchesName, Single!LoadCached,
     Single!SwitchCached, Single!Returns, Single!Idle, Single!Loaded
<1>4. Single!ActiveServed'
  <2>1. /\ holder = None /\ UNCHANGED <<loaded, versions, explicit, holder>>
    BY DEF Single!LoadCached, Single!SwitchCached, Single!Returns, Single!Takes
  <2>2. Single!Loaded' = Single!Loaded
    BY <2>1 DEF Single!Loaded
  <2>3. QED
    BY <2>1, <2>2 DEF SingleInvariant, Single!ActiveServed, Single!FewLoaded,
       Single!TellsServed, Single!HalfWay
<1>5. QED
  BY <1>2, <1>3, <1>4 DEF SingleInvariant

\* A model is loaded when there is room for it.
LEMMA LoadNewKeeps ==
  ASSUME SingleInvariant, NEW r \in Requests, Single!LoadNew(r)
  PROVE  SingleInvariant'
<1> DEFINE m == asked[r].m
           w == IF asked[r].v = None THEN versions[m].active ELSE asked[r].v
<1>1. /\ m \in Models /\ m \notin Single!Loaded /\ Single!Touch(m) /\ asked[r] # Single!Idle
      /\ w \in Versions /\ loaded' = [loaded EXCEPT ![m] = w]
      /\ healthy' = healthy \cup {m} /\ Single!HasRoom /\ holder = None
      /\ explicit' = IF asked[r].v = None THEN explicit \ {m} ELSE explicit \cup {m}
      /\ asked' = [asked EXCEPT ![r] = Single!Idle]
      /\ UNCHANGED <<dirs, versions, up, holder>>
  BY DEF SingleInvariant, SingleTypes, Single!LoadNew, Single!Takes, Single!Idle,
     Single!Returns
<1> HIDE DEF w
<1>2. Single!Loaded' = Single!Loaded \cup {m} /\ w # None
  BY <1>1, ModelInfoAssumption DEF SingleInvariant, SingleTypes, Single!Loaded
<1>3. TimesKept'
  BY <1>1, <1>2, TouchKeepsTimes DEF SingleInvariant, TimesKept
<1>4. SingleTypes'
  BY <1>1 DEF SingleInvariant, SingleTypes, Single!Idle
<1>5. FreshIsEmpty' /\ SwitchesName'
  BY <1>1 DEF SingleInvariant, FreshIsEmpty, SwitchesName, Single!Idle, SingleTypes
<1>6. Single!FewLoaded'
  <2>1. IsFiniteSet(Single!Loaded) /\ Cardinality(Single!Loaded) \in Nat
    BY LoadedCounted, FS_CardinalityType DEF SingleInvariant
  <2>2. Cardinality(Single!Loaded \cup {m}) = Cardinality(Single!Loaded) + 1
    BY <1>1, <2>1, FS_AddElement
  <2>3. CASE Single!Loaded = {}
    <3>1. Cardinality(Single!Loaded \cup {m}) = 1
      BY <2>2, <2>3, FS_EmptySet
    <3>2. QED
      BY <1>2, <3>1, SameOperators DEF Single!FewLoaded
  <2>4. CASE ~Single!Full
    <3>1. Cardinality(Single!Loaded) < MaxLoaded
      BY <2>1, <2>4, LoadersAssumption, SameOperators DEF Single!Full
    <3>2. Cardinality(Single!Loaded') <= MaxLoaded
      BY <1>2, <2>1, <2>2, <3>1, LoadersAssumption
    <3>3. QED
      BY <3>2, SameOperators DEF Single!FewLoaded
  <2>5. QED
    BY <1>1, <2>3, <2>4 DEF Single!HasRoom
<1>7. Single!TellsServed'
  <2> SUFFICES ASSUME NEW n \in (Single!Loaded \ explicit)'
               PROVE  loaded'[n] = versions[n].active
    BY <1>1 DEF Single!TellsServed
  <2>1. CASE n = m
    <3>1. asked[r].v = None
      BY <1>1, <2>1
    <3>2. QED
      BY <1>1, <2>1, <3>1 DEF w, SingleInvariant, SingleTypes
  <2>2. CASE n # m
    <3>1. n \in Single!Loaded \ explicit /\ loaded'[n] = loaded[n]
      BY <1>1, <1>2, <2>2 DEF SingleInvariant, SingleTypes
    <3>2. QED
      BY <1>1, <3>1 DEF SingleInvariant, Single!ActiveServed, Single!TellsServed, Single!HalfWay
  <2>3. QED
    BY <2>1, <2>2
<1>8. Single!ActiveServed'
  BY <1>1, <1>6, <1>7 DEF Single!ActiveServed
<1>9. QED
  BY <1>3, <1>4, <1>5, <1>8 DEF SingleInvariant

\* One model is unloaded.
LEMMA UnloadOneModelKeeps ==
  ASSUME SingleInvariant, NEW r \in Requests, Single!Unload(r)
  PROVE  SingleInvariant'
<1> DEFINE m == asked[r].m
           rest == RemoveFirst(lastUsed, m)
<1>1. /\ Single!Drop({m}, rest) /\ asked[r] # Single!Idle
      /\ asked' = [asked EXCEPT ![r] = Single!Idle]
      /\ holder = None /\ UNCHANGED <<dirs, versions, up, holder>>
  BY SameOperators DEF Single!Unload, Single!Takes, Single!Idle, Single!Returns
<1>2. rest \in Seq(Models) /\ Distinct(rest) /\ Elements(rest) = Elements(lastUsed) \ {m}
  BY RemovedFirst DEF SingleInvariant, TimesKept
<1> HIDE DEF rest, m
<1>3. TimesKept' /\ Single!ActiveServed'
  BY <1>1, <1>2, DropKeeps
<1>4. SingleTypes' /\ FreshIsEmpty' /\ SwitchesName'
  BY <1>1 DEF SingleInvariant, SingleTypes, FreshIsEmpty, SwitchesName, Single!Drop,
     Single!Idle
<1>5. QED
  BY <1>3, <1>4 DEF SingleInvariant

\* A cleanup round drops the models used longest ago.
LEMMA CleanupKeeps ==
  ASSUME SingleInvariant, NEW n \in 1..Len(lastUsed), Single!CleanupRound(n)
  PROVE  SingleInvariant'
<1> DEFINE S == {lastUsed[i] : i \in 1..n}
           rest == SubSeq(lastUsed, n + 1, Len(lastUsed))
<1>1. /\ Single!Drop(S, rest) /\ up = "yes" /\ holder = None
      /\ UNCHANGED <<dirs, versions, asked, up, holder>>
  BY DEF Single!CleanupRound
<1>2. /\ lastUsed \in Seq(Models) /\ Distinct(lastUsed) /\ DOMAIN lastUsed = 1..Len(lastUsed)
      /\ Len(lastUsed) \in Nat
  BY DEF SingleInvariant, TimesKept
<1>3. /\ rest \in Seq(Models) /\ Len(rest) = Len(lastUsed) - n
      /\ \A i \in 1..Len(lastUsed) - n : rest[i] = lastUsed[n + i]
  <2>1. /\ n + 1 \in Int /\ Len(lastUsed) \in Int
        /\ \A i \in n + 1..Len(lastUsed) : lastUsed[i] \in Models
    BY <1>2
  <2>2. /\ rest \in Seq(Models)
        /\ Len(rest) = IF n + 1 <= Len(lastUsed) THEN Len(lastUsed) - (n + 1) + 1 ELSE 0
        /\ \A i \in 1..Len(lastUsed) - (n + 1) + 1 : rest[i] = lastUsed[(n + 1) + i - 1]
    BY <2>1, SubSeqProperties
  <2> HIDE DEF rest
  <2>3. Len(rest) = Len(lastUsed) - n
    <3>1. \A a, b \in Nat : a <= b => (IF a + 1 <= b THEN b - (a + 1) + 1 ELSE 0) = b - a
      OBVIOUS
    <3>2. n \in Nat /\ Len(lastUsed) \in Nat /\ n <= Len(lastUsed)
      BY <1>2
    <3>3. QED
      BY <2>2, <3>1, <3>2
  <2>4. ASSUME NEW i \in 1..Len(lastUsed) - n
        PROVE  rest[i] = lastUsed[n + i]
    <3>1. i \in 1..Len(lastUsed) - (n + 1) + 1 /\ (n + 1) + i - 1 = n + i
      BY <1>2
    <3>2. QED
      BY <2>2, <3>1
  <2>5. QED
    BY <2>2, <2>3, <2>4
<1> HIDE DEF rest
<1>4. DOMAIN rest = 1..Len(lastUsed) - n
  BY <1>3
<1>5. Distinct(rest)
  <2> SUFFICES ASSUME NEW i \in DOMAIN rest, NEW j \in DOMAIN rest, rest[i] = rest[j]
               PROVE  i = j
    BY DEF Distinct
  <2>1. n + i \in DOMAIN lastUsed /\ n + j \in DOMAIN lastUsed
    BY <1>2, <1>4
  <2>2. lastUsed[n + i] = lastUsed[n + j]
    BY <1>3, <1>4
  <2>3. n + i = n + j
    BY <1>2, <2>1, <2>2 DEF Distinct
  <2>4. QED
    BY <1>4, <2>3
<1>6. Elements(rest) = Elements(lastUsed) \ S
  <2>1. Elements(rest) \subseteq Elements(lastUsed) \ S
    <3> SUFFICES ASSUME NEW i \in 1..Len(lastUsed) - n PROVE rest[i] \in Elements(lastUsed) \ S
      BY <1>4 DEF Elements
    <3>1. n + i \in DOMAIN lastUsed /\ rest[i] = lastUsed[n + i]
      BY <1>2, <1>3
    <3>2. \A j \in 1..n : lastUsed[j] # lastUsed[n + i]
      BY <1>2, <3>1 DEF Distinct
    <3>3. QED
      BY <3>1, <3>2 DEF Elements
  <2>2. Elements(lastUsed) \ S \subseteq Elements(rest)
    <3> SUFFICES ASSUME NEW i \in 1..Len(lastUsed), lastUsed[i] \notin S
                 PROVE  lastUsed[i] \in Elements(rest)
      BY <1>2 DEF Elements
    <3>1. i - n \in 1..Len(lastUsed) - n /\ n + (i - n) = i
      BY <1>2
    <3>2. rest[i - n] = lastUsed[i]
      BY <1>3, <3>1
    <3>3. QED
      BY <1>4, <3>1, <3>2 DEF Elements
  <2>3. QED
    BY <2>1, <2>2
<1> HIDE DEF S
<1>7. TimesKept' /\ Single!ActiveServed'
  BY <1>1, <1>3, <1>5, <1>6, DropKeeps
<1>8. SingleTypes' /\ FreshIsEmpty' /\ SwitchesName'
  BY <1>1 DEF SingleInvariant, SingleTypes, FreshIsEmpty, SwitchesName, Single!Drop
<1>9. QED
  BY <1>7, <1>8 DEF SingleInvariant

\* A shutdown drops everything, unless the lock is held.
LEMMA ShutdownKeeps ==
  ASSUME SingleInvariant, Single!Shutdown
  PROVE  SingleInvariant'
<1>1. <<>> \in Seq(Models) /\ Distinct(<<>>) /\ Elements(<<>>) = {}
  BY DEF Distinct, Elements
<1>2. SingleTypes' /\ FreshIsEmpty' /\ SwitchesName'
  BY DEF SingleInvariant, SingleTypes, FreshIsEmpty, SwitchesName, Single!Shutdown,
     Single!Drop
<1>3. CASE holder = None
  <2>1. TimesKept' /\ Single!ActiveServed'
    BY <1>1, <1>3, DropKeeps DEF Single!Shutdown, SingleInvariant, TimesKept
  <2>2. QED
    BY <1>2, <2>1 DEF SingleInvariant
<1>4. CASE holder # None
  <2>1. UNCHANGED <<loaded, lastUsed, healthy, explicit, versions, asked, holder>>
    BY <1>4 DEF Single!Shutdown, Single!Drop, SingleInvariant, SingleTypes
  <2>2. QED
    BY <1>2, <1>4, <2>1, TablesStay
<1>5. QED
  BY <1>3, <1>4

\* Rounds of the background tasks, and a directory that disappears.
LEMMA QuietOneKeeps ==
  ASSUME SingleInvariant,
         \/ Single!HealthRound \/ Single!TaskBlocks
         \/ \E m \in Models, v \in Versions : Single!DirectoryGone(m, v)
         \/ UNCHANGED <<singleVars, loaded>>
  PROVE  SingleInvariant'
<1>1. /\ UNCHANGED <<versions, loaded, lastUsed, asked, holder, explicit>> /\ healthy' = healthy
      /\ (UNCHANGED up \/ up' = "blocked") /\ dirs' \in [Models -> SUBSET Versions]
  BY DEF SingleInvariant, SingleTypes, TimesKept, Single!HealthRound, Single!TaskBlocks,
     Single!DirectoryGone, singleVars
<1>2. SingleTypes' /\ FreshIsEmpty' /\ SwitchesName'
  BY <1>1 DEF SingleInvariant, SingleTypes, FreshIsEmpty, SwitchesName, Single!Loaded
<1>3. QED
  BY <1>1, <1>2, TablesStay

LEMMA SingleStep ==
  ASSUME SingleInvariant, Single!Next
  PROVE  SingleInvariant'
<1>1. ASSUME NEW r \in Requests, NEW m \in Models,
             \/ \E v \in Versions \cup {None} : Single!Ask(r, "load", m, v)
             \/ Single!Ask(r, "unload", m, None)
             \/ \E v \in Versions : Single!Ask(r, "switch", m, v)
      PROVE  SingleInvariant'
  BY <1>1, AskOneKeeps
<1>2. ASSUME NEW r \in Requests, Single!Serve(r)
      PROVE  SingleInvariant'
  BY <1>2, CachedKeeps, LoadNewKeeps, RefusedOneKeeps, UnloadOneModelKeeps, SticksKeeps
     DEF Single!Serve
<1>3. QED
  BY <1>1, <1>2, ScanKeeps, QuietOneKeeps, ShutdownKeeps, CleanupKeeps DEF Single!Next

LEMMA SingleInit ==
  ASSUME Single!Init
  PROVE  SingleInvariant
<1>1. Single!Loaded = {} /\ Cardinality({}) = 0
  BY FS_EmptySet DEF Single!Init, Single!Loaded
<1>2. TimesKept
  BY <1>1 DEF Single!Init, TimesKept, Distinct, Elements
<1>3. Single!ActiveServed
  BY <1>1, SameOperators, LoadersAssumption
  DEF Single!Init, Single!ActiveServed, Single!FewLoaded, Single!TellsServed
<1>4. QED
  BY <1>1, <1>2, <1>3 DEF SingleInvariant, Single!Init, SingleTypes, FreshIsEmpty,
     SwitchesName, Single!Idle

LEMMA SingleTypeOK ==
  ASSUME SingleInvariant
  PROVE  Single!SingleLockTypeOK
BY LoadedCounted, SameOperators DEF SingleInvariant, SingleTypes, TimesKept, Elements,
   Single!SingleLockTypeOK

-----------------------------------------------------------------------------
(* The class with version tables                                           *)

TableCalls ==
  [at : {"waiting", "loading", "validating", "cleaning", "stuck"}, m : TableModels,
   op : {"load", "unload", "switch"}, v : Versions \cup {None}]

TablesTyped ==
  /\ registered \in [TableModels -> SUBSET Versions]
  /\ loaded \in [TableModels -> Seq(Versions) \cup {None}]
  /\ active \in [TableModels -> Versions \cup {None}]
  /\ metered \in [TableModels -> SUBSET Versions]
  /\ torn \subseteq TableModels

TableTypes ==
  /\ TablesTyped
  /\ line \in [TableModels -> Seq(Requests)]
  /\ work \in [Requests -> TableCalls \cup {Table!Idle}]

\* A call that has not returned is in the line of its model, and it is the
\* first of it when it has passed the lock.
WorkQueues ==
  \A r \in Requests : work[r] # Table!Idle =>
    /\ r \in Elements(line[work[r].m])
    /\ work[r].at # "waiting" => Head(line[work[r].m]) = r

\* What a call is about to store or has taken out is not in the table.
CallOK(x) ==
  /\ x.at \in {"loading", "validating"} => x.op = "load" /\ x.v \in Versions
  /\ x.at = "cleaning" => x.op = "unload"
  /\ x.op = "switch" => x.v \in Versions
  /\ x.at \in {"loading", "cleaning"} => x.v \notin Table!Listed(x.m)

WorkOK == \A r \in Requests : work[r] # Table!Idle => CallOK(work[r])

EachLoadedOnce == \A m \in TableModels : loaded[m] # None => Distinct(loaded[m])

TablesAgree(m) ==
  Table!Settled(m) =>
    /\ active[m] = None <=> Table!Listed(m) = {}
    /\ active[m] # None => active[m] \in Table!Listed(m)
    /\ Table!Listed(m) \subseteq metered[m]

TableInvariant ==
  /\ TableTypes /\ WorkQueues /\ WorkOK /\ EachLoadedOnce
  /\ \A m \in TableModels : TablesAgree(m)

\* Who has the lock of a model.
Serves(r) == work[r] # Table!Idle /\ Head(line[work[r].m]) = r

\* Nobody but who has the lock of a model is past it.
LEMMA OneServes ==
  ASSUME TableInvariant, NEW r \in Requests, Serves(r), NEW q \in Requests \ {r},
         work[q] # Table!Idle, work[q].m = work[r].m
  PROVE  work[q].at = "waiting"
BY DEF TableInvariant, WorkQueues, Serves

\* When a call returns, the next one in its line has the lock.
LEMMA ReturnKeepsLines ==
  ASSUME TableInvariant, NEW r \in Requests, Serves(r),
         Table!Returns(r)
  PROVE  /\ work' \in [Requests -> TableCalls \cup {Table!Idle}]
         /\ line' \in [TableModels -> Seq(Requests)] /\ WorkQueues'
<1>1. work[r] \in TableCalls /\ work[r].m \in TableModels
  BY DEF TableInvariant, TableTypes, TableCalls, Serves
<1> DEFINE m == work[r].m
           s == line[m]
<1>2. s \in Seq(Requests) /\ s # <<>> /\ Head(s) = r
  BY <1>1 DEF TableInvariant, TableTypes, WorkQueues, Serves, Elements
<1>3. /\ Tail(s) \in Seq(Requests)
      /\ \A q \in Requests \ {r} : q \in Elements(s) => q \in Elements(Tail(s))
  <2>1. /\ Tail(s) \in Seq(Requests) /\ Len(Tail(s)) = Len(s) - 1 /\ Len(s) \in Nat
        /\ \A i \in 1..Len(s) - 1 : Tail(s)[i] = s[i + 1]
    BY <1>2
  <2>2. ASSUME NEW q \in Requests \ {r}, q \in Elements(s)
        PROVE  q \in Elements(Tail(s))
    <3>1. PICK i \in 1..Len(s) : s[i] = q
      BY <1>2, <2>2 DEF Elements
    <3>2. i # 1
      BY <1>2, <3>1
    <3>3. i - 1 \in DOMAIN Tail(s) /\ Tail(s)[i - 1] = q
      BY <2>1, <3>1, <3>2
    <3>4. QED
      BY <3>3 DEF Elements
  <2>3. QED
    BY <2>1, <2>2
<1>4. /\ work' = [work EXCEPT ![r] = Table!Idle] /\ line' = [line EXCEPT ![m] = Tail(s)]
  BY DEF Table!Returns
<1>5. /\ work' \in [Requests -> TableCalls \cup {Table!Idle}]
      /\ line' \in [TableModels -> Seq(Requests)]
  BY <1>1, <1>3, <1>4 DEF TableInvariant, TableTypes
<1>6. WorkQueues'
  <2> SUFFICES ASSUME NEW q \in Requests, work'[q] # Table!Idle
               PROVE  /\ q \in Elements(line'[work'[q].m])
                      /\ work'[q].at # "waiting" => Head(line'[work'[q].m]) = q
    BY DEF WorkQueues
  <2>1. q # r /\ work'[q] = work[q] /\ work[q].m \in TableModels
    BY <1>4 DEF TableInvariant, TableTypes, TableCalls
  <2>2. CASE work[q].m = m
    <3>1. work[q].at = "waiting"
      BY <2>1, <2>2, OneServes
    <3>2. q \in Elements(s)
      BY <2>1, <2>2 DEF TableInvariant, WorkQueues
    <3>3. line'[m] = Tail(s)
      BY <1>1, <1>4 DEF TableInvariant, TableTypes
    <3>4. QED
      BY <1>3, <2>1, <2>2, <3>1, <3>2, <3>3
  <2>3. CASE work[q].m # m
    <3>1. line'[work[q].m] = line[work[q].m]
      BY <1>4, <2>1, <2>3 DEF TableInvariant, TableTypes
    <3>2. QED
      BY <2>1, <3>1 DEF TableInvariant, WorkQueues
  <2>4. QED
    BY <2>2, <2>3
<1>7. QED
  BY <1>5, <1>6

\* A call that goes on keeps its place in the line.
LEMMA CallMoves ==
  ASSUME TableInvariant, NEW r \in Requests, Serves(r), NEW x \in TableCalls,
         x.m = work[r].m, work' = [work EXCEPT ![r] = x], line' = line
  PROVE  work' \in [Requests -> TableCalls \cup {Table!Idle}] /\ WorkQueues'
BY DEF TableInvariant, TableTypes, TableCalls, WorkQueues, Serves, Table!Idle

\* A model that a call does not name, or that it only reads, stays as it is.
LEMMA OtherModelsStay ==
  ASSUME TableInvariant, NEW r \in Requests, NEW m \in TableModels,
         UNCHANGED <<loaded[m], active[m], metered[m]>>, m \in torn <=> m \in torn',
         ~(work[r].at = "cleaning" /\ work[r].m = m /\ work[r].v = None),
         NEW x, work' = [work EXCEPT ![r] = x]
  PROVE  TablesAgree(m)' /\ Table!Listed(m)' = Table!Listed(m)
<1>1. Table!Listed(m)' = Table!Listed(m)
  BY DEF Table!Listed
<1>2. Table!Settled(m)' => Table!Settled(m)
  <2> SUFFICES ASSUME Table!Settled(m)', NEW q \in Requests
               PROVE  /\ m \notin torn
                      /\ ~(work[q].at = "cleaning" /\ work[q].m = m /\ work[q].v = None)
    BY DEF Table!Settled
  <2>1. q # r => work'[q] = work[q]
    BY DEF TableInvariant, TableTypes
  <2>2. QED
    BY <2>1 DEF Table!Settled
<1>3. QED
  BY <1>1, <1>2 DEF TableInvariant, TablesAgree

\* A call that serves changes the tables of its model only, so that the
\* invariant is kept when the tables of that model agree again.
LEMMA TableStepKeeps ==
  ASSUME TableInvariant, NEW r \in Requests, Serves(r),
         NEW m \in TableModels, work[r].m = m,
         TablesTyped', EachLoadedOnce', TablesAgree(m)',
         \A n \in TableModels \ {m} :
           UNCHANGED <<loaded[n], active[n], metered[n]>> /\ (n \in torn <=> n \in torn'),
         \/ Table!Returns(r)
         \/ \E x \in TableCalls : /\ x.m = m /\ CallOK(x)'
                                  /\ work' = [work EXCEPT ![r] = x] /\ line' = line
  PROVE  TableInvariant'
<1>1. work[r] \in TableCalls /\ work[r].m \in TableModels
  BY DEF TableInvariant, TableTypes, TableCalls, Serves
<1>2. PICK x \in TableCalls \cup {Table!Idle} :
        /\ work' = [work EXCEPT ![r] = x]
        /\ x # Table!Idle => CallOK(x)' /\ x.m = work[r].m
  BY DEF Table!Returns
<1>3. /\ work' \in [Requests -> TableCalls \cup {Table!Idle}]
      /\ line' \in [TableModels -> Seq(Requests)] /\ WorkQueues'
  BY ReturnKeepsLines, CallMoves DEF TableInvariant, TableTypes
<1>4. \A n \in TableModels \ {m} : TablesAgree(n)' /\ Table!Listed(n)' = Table!Listed(n)
  BY <1>2, OtherModelsStay
<1>5. WorkOK'
  <2> SUFFICES ASSUME NEW q \in Requests, work'[q] # Table!Idle
               PROVE  CallOK(work[q])'
    BY DEF WorkOK
  <2>1. CASE q = r
    BY <1>2, <2>1 DEF TableInvariant, TableTypes
  <2>2. CASE q # r
    <3>1. work'[q] = work[q] /\ CallOK(work[q]) /\ work[q].m \in TableModels
      BY <1>2, <2>2 DEF TableInvariant, TableTypes, TableCalls, WorkOK
    <3>2. CASE work[q].m = work[r].m
      <4>1. work[q].at = "waiting"
        BY <2>2, <3>1, <3>2, OneServes
      <4>2. QED
        BY <3>1, <4>1 DEF CallOK
    <3>3. CASE work[q].m # work[r].m
      BY <1>4, <3>1, <3>3 DEF CallOK
    <3>4. QED
      BY <3>2, <3>3
  <2>3. QED
    BY <2>1, <2>2
<1>6. \A n \in TableModels : TablesAgree(n)'
  BY <1>4
<1>7. QED
  BY <1>3, <1>5, <1>6 DEF TableInvariant, TableTypes

\* A call that holds the lock of its model serves.
LEMMA HoldsServes ==
  ASSUME TableInvariant, NEW r \in Requests, NEW op, NEW a, Table!Holds(r, op, a),
         a # "idle"
  PROVE  /\ Serves(r) /\ work[r] \in TableCalls /\ work[r].m \in TableModels /\ CallOK(work[r])
         /\ work[r].op = op /\ work[r].at = a
BY DEF TableInvariant, TableTypes, TableCalls, WorkOK, Serves, Table!Holds, Table!Idle

\* Steps that change no table.
LEMMA QuietTableStep ==
  ASSUME TableInvariant, NEW r \in Requests, Serves(r),
         UNCHANGED <<registered, loaded, active, metered, torn>>,
         ~(work[r].at = "cleaning" /\ work[r].v = None),
         \/ Table!Returns(r)
         \/ \E x \in TableCalls : /\ x.m = work[r].m /\ CallOK(x)
                                  /\ work' = [work EXCEPT ![r] = x] /\ line' = line
  PROVE  TableInvariant'
<1>1. work[r] \in TableCalls /\ work[r].m \in TableModels
  BY DEF TableInvariant, TableTypes, TableCalls, Serves
<1>2. \E x : work' = [work EXCEPT ![r] = x]
  BY DEF Table!Returns
<1> PICK m \in TableModels : m = work[r].m
  BY <1>1
<1>3. TablesAgree(m)'
  BY <1>2, OtherModelsStay
<1>4. TablesTyped' /\ EachLoadedOnce'
  BY DEF TableInvariant, TableTypes, TablesTyped, EachLoadedOnce
<1>5. \A x \in TableCalls : CallOK(x) => CallOK(x)'
  BY DEF CallOK, Table!Listed
<1>6. QED
  BY <1>3, <1>4, <1>5, TableStepKeeps

\* A load finds its version, and whether it is loaded.
LEMMA LookupKeeps ==
  ASSUME TableInvariant, NEW r \in Requests, Table!Lookup(r)
  PROVE  TableInvariant'
<1> DEFINE m == work[r].m
           w == IF work[r].v = None THEN Table!Max(registered[m]) ELSE work[r].v
<1>1. Table!Holds(r, "load", "waiting")
  BY DEF Table!Lookup
<1>2. /\ Serves(r) /\ work[r] \in TableCalls /\ m \in TableModels
      /\ work[r].op = "load" /\ work[r].at = "waiting"
  BY <1>1, HoldsServes
<1>3. registered[m] # {} => Table!Max(registered[m]) \in Versions
  <2>1. /\ registered[m] \in SUBSET Nat /\ IsFiniteSet(registered[m])
        /\ registered[m] \subseteq Versions
    BY <1>2, ModelInfoAssumption, FS_Subset DEF TableInvariant, TableTypes, TablesTyped
  <2>2. QED
    BY <2>1, MaxOfNats, SameOperators
<1> HIDE DEF w
<1>4. CASE Table!Returns(r)
  BY <1>2, <1>4, QuietTableStep DEF Table!Lookup
<1>5. CASE ~Table!Returns(r)
  <2>1. /\ registered[m] # {} /\ work[r].v \in registered[m] \cup {None}
        /\ w \notin Table!Listed(m)
        /\ work' = [work EXCEPT ![r].at = "loading", ![r].v = w] /\ line' = line
        /\ UNCHANGED <<registered, loaded, active, metered, torn>>
    BY <1>5 DEF Table!Lookup, w
  <2>2. w \in Versions
    BY <1>2, <1>3, <2>1 DEF w, TableInvariant, TableTypes, TablesTyped
  <2> DEFINE y == [work[r] EXCEPT !.at = "loading"]
             x == [y EXCEPT !.v = w]
  <2>3. work' = [work EXCEPT ![r] = x] /\ line' = line
    BY <1>2, <2>1 DEF TableInvariant, TableTypes
  <2>4. x \in TableCalls /\ x.m = m /\ CallOK(x)
    <3>1. y \in TableCalls /\ y.at = "loading" /\ y.m = m /\ y.op = "load"
      BY <1>2 DEF TableCalls
    <3> HIDE DEF y
    <3>2. x \in TableCalls /\ x.at = "loading" /\ x.m = m /\ x.op = "load" /\ x.v = w
      BY <2>2, <3>1 DEF TableCalls
    <3> HIDE DEF x
    <3>3. QED
      BY <1>2, <2>1, <2>2, <3>2 DEF CallOK
  <2>5. QED
    BY <1>2, <2>1, <2>3, <2>4, QuietTableStep
<1>6. QED
  BY <1>4, <1>5

\* A load that raised or was validated, and an unload of nothing, return.
LEMMA QuietReturnsKeep ==
  ASSUME TableInvariant, NEW r \in Requests,
         Table!LoadFails(r) \/ Table!Validated(r) \/ Table!UnloadNothing(r)
  PROVE  TableInvariant'
<1>1. \E op, a : Table!Holds(r, op, a) /\ a \in {"loading", "validating", "waiting"}
  BY DEF Table!LoadFails, Table!Validated, Table!UnloadNothing
<1>2. Serves(r) /\ work[r].at # "cleaning"
  BY <1>1, HoldsServes
<1>3. QED
  BY <1>2, QuietTableStep DEF Table!LoadFails, Table!Validated, Table!UnloadNothing

\* A switch that loads waits for the lock it holds.
LEMMA SwitchSticksKeeps ==
  ASSUME TableInvariant, NEW r \in Requests, Table!SwitchSticks(r)
  PROVE  TableInvariant'
<1>1. /\ Serves(r) /\ work[r] \in TableCalls /\ work[r].m \in TableModels /\ CallOK(work[r])
      /\ work[r].op = "switch" /\ work[r].at = "waiting"
  BY HoldsServes DEF Table!SwitchSticks
<1> DEFINE x == [work[r] EXCEPT !.at = "stuck"]
<1>2. work' = [work EXCEPT ![r] = x] /\ line' = line
  BY DEF Table!SwitchSticks, Table!Goes
<1>3. x \in TableCalls /\ x.m = work[r].m /\ CallOK(x)
  BY <1>1 DEF TableCalls, CallOK
<1>4. QED
  BY <1>1, <1>2, <1>3, QuietTableStep DEF Table!SwitchSticks

\* A load adds its version, which nobody else has added meanwhile.
LEMMA StoreKeeps ==
  ASSUME TableInvariant, NEW r \in Requests, Table!Store(r)
  PROVE  TableInvariant'
<1>1. /\ Serves(r) /\ work[r] \in TableCalls /\ CallOK(work[r])
      /\ work[r].op = "load" /\ work[r].at = "loading"
  BY HoldsServes DEF Table!Store
<1>2. PICK m \in TableModels, v \in Versions :
        work[r].m = m /\ work[r].v = v /\ v \notin Table!Listed(m)
  BY <1>1 DEF TableCalls, CallOK
<1>3. /\ loaded' = [loaded EXCEPT ![m] = IF @ = None THEN <<v>> ELSE Append(@, v)]
      /\ metered' = [metered EXCEPT ![m] = @ \cup {v}]
      /\ active' = [active EXCEPT ![m] = IF @ = None THEN v ELSE @]
      /\ work' = [work EXCEPT ![r].at = "validating"] /\ line' = line
      /\ UNCHANGED <<registered, torn>>
  BY <1>2 DEF Table!Store, Table!Goes
<1>4. TablesTyped
  BY DEF TableInvariant, TableTypes
<1>5. TablesTyped'
  BY <1>3, <1>4 DEF TablesTyped
<1>6. loaded'[m] # None /\ Distinct(loaded'[m]) /\ Elements(loaded'[m]) = Table!Listed(m) \cup {v}
  <2>1. CASE loaded[m] = None
    <3>1. loaded'[m] = <<v>> /\ Table!Listed(m) = {}
      BY <1>3, <1>4, <2>1 DEF TablesTyped, Table!Listed
    <3>2. <<v>> \in Seq(Versions) /\ Distinct(<<v>>) /\ Elements(<<v>>) = {v}
      BY DEF Distinct, Elements
    <3>3. QED
      BY <3>1, <3>2, LoadersAssumption
  <2>2. CASE loaded[m] # None
    <3>1. /\ loaded[m] \in Seq(Versions) /\ Distinct(loaded[m]) /\ v \notin Elements(loaded[m])
          /\ Table!Listed(m) = Elements(loaded[m])
      BY <1>2, <1>4, <2>2 DEF TablesTyped, TableInvariant, EachLoadedOnce, Table!Listed,
         Elements
    <3>2. loaded'[m] = Append(loaded[m], v)
      BY <1>3, <1>4, <2>2 DEF TablesTyped
    <3>3. /\ Append(loaded[m], v) \in Seq(Versions) /\ Distinct(Append(loaded[m], v))
          /\ Elements(Append(loaded[m], v)) = Elements(loaded[m]) \cup {v}
      BY <3>1, AppendedLast
    <3>4. QED
      BY <3>1, <3>2, <3>3, LoadersAssumption
  <2>3. QED
    BY <2>1, <2>2
<1>7. EachLoadedOnce'
  BY <1>3, <1>4, <1>6 DEF TableInvariant, EachLoadedOnce, TablesTyped
<1>8. TablesAgree(m)'
  <2>1. Table!Listed(m)' = Table!Listed(m) \cup {v}
    BY <1>6 DEF Table!Listed, Elements
  <2>2. Table!Settled(m)' => Table!Settled(m)
    BY <1>1, <1>3 DEF Table!Settled, TableInvariant, TableTypes
  <2>3. /\ active'[m] = IF active[m] = None THEN v ELSE active[m]
        /\ metered'[m] = metered[m] \cup {v} /\ v # None
    BY <1>3, <1>4, ModelInfoAssumption DEF TablesTyped
  <2>4. QED
    BY <2>1, <2>2, <2>3 DEF TablesAgree, TableInvariant
<1>9. \E x \in TableCalls :
        x.m = m /\ CallOK(x)' /\ work' = [work EXCEPT ![r] = x] /\ line' = line
  <2>1. PICK x \in TableCalls : x = [work[r] EXCEPT !.at = "validating"]
    BY <1>1 DEF TableCalls
  <2>2. x.at = "validating" /\ x.op = "load" /\ x.v \in Versions /\ x.m = m
    BY <1>1, <1>2, <2>1 DEF TableCalls
  <2>3. CallOK(x)'
    BY <2>2 DEF CallOK
  <2>4. QED
    BY <1>3, <2>1, <2>2, <2>3 DEF TableInvariant, TableTypes
<1>10. \A n \in TableModels \ {m} :
         UNCHANGED <<loaded[n], active[n], metered[n]>> /\ (n \in torn <=> n \in torn')
  BY <1>3, <1>4 DEF TablesTyped
<1>11. QED
  BY <1>1, <1>2, <1>5, <1>7, <1>8, <1>10, <1>9, TableStepKeeps

\* An unload takes one version out and chooses the active one anew.
LEMMA UnloadOneKeeps ==
  ASSUME TableInvariant, NEW r \in Requests, Table!UnloadOne(r)
  PROVE  TableInvariant'
<1>1. /\ Serves(r) /\ work[r] \in TableCalls /\ CallOK(work[r])
      /\ work[r].op = "unload" /\ work[r].at = "waiting"
  BY HoldsServes DEF Table!UnloadOne
<1>2. PICK m \in TableModels, v \in Versions \cup {None} : work[r].m = m /\ work[r].v = v
  BY <1>1 DEF TableCalls
<1> DEFINE rest == RemoveFirst(loaded[m], v)
<1>3. /\ v \in Table!Listed(m)
      /\ active' = [active EXCEPT ![m] =
           IF @ # v THEN @ ELSE IF rest = <<>> THEN None ELSE Head(rest)]
      /\ loaded' = [loaded EXCEPT ![m] = rest]
      /\ work' = [work EXCEPT ![r].at = "cleaning"] /\ line' = line
      /\ UNCHANGED <<registered, metered, torn>>
  BY <1>2, SameOperators DEF Table!UnloadOne, Table!Goes
<1>4. TablesTyped
  BY DEF TableInvariant, TableTypes
<1>5. /\ loaded[m] \in Seq(Versions) /\ Distinct(loaded[m]) /\ Table!Listed(m) = Elements(loaded[m])
      /\ v \in Versions
  BY <1>3, <1>4 DEF TablesTyped, Table!Listed, Elements, TableInvariant, EachLoadedOnce
<1>6. rest \in Seq(Versions) /\ Distinct(rest) /\ Elements(rest) = Table!Listed(m) \ {v}
  BY <1>5, RemovedFirst
<1> HIDE DEF rest
<1>7. /\ rest # None /\ (rest = <<>> <=> Elements(rest) = {})
      /\ rest # <<>> => Head(rest) \in Elements(rest)
  BY <1>6, LoadersAssumption DEF Elements
<1>8. TablesTyped' /\ loaded'[m] = rest
  BY <1>3, <1>4, <1>6, <1>7 DEF TablesTyped
<1>9. EachLoadedOnce'
  BY <1>3, <1>4, <1>6 DEF TableInvariant, EachLoadedOnce, TablesTyped
<1>10. Table!Listed(m)' = Table!Listed(m) \ {v}
  BY <1>6, <1>7, <1>8 DEF Table!Listed, Elements
<1>11. TablesAgree(m)'
  <2>1. Table!Settled(m)' => Table!Settled(m)
    BY <1>1, <1>3 DEF Table!Settled, TableInvariant, TableTypes
  <2>2. /\ active'[m] = IF active[m] # v THEN active[m] ELSE IF rest = <<>> THEN None ELSE Head(rest)
        /\ metered'[m] = metered[m] /\ v # None /\ active'[m] \in Versions \cup {None}
    BY <1>3, <1>4, <1>5, <1>8, ModelInfoAssumption DEF TablesTyped
  <2>3. Table!Settled(m)' => /\ active[m] \in Table!Listed(m) /\ active[m] # None
                             /\ Table!Listed(m) \subseteq metered[m]
    BY <1>3, <2>1 DEF TablesAgree, TableInvariant
  <2>4. None \notin Table!Listed(m)
    BY <1>5, ModelInfoAssumption DEF Elements
  <2>5. QED
    BY <1>6, <1>7, <1>10, <2>2, <2>3, <2>4 DEF TablesAgree
<1>12. \E x \in TableCalls :
         x.m = m /\ CallOK(x)' /\ work' = [work EXCEPT ![r] = x] /\ line' = line
  <2>1. PICK x \in TableCalls : x = [work[r] EXCEPT !.at = "cleaning"]
    BY <1>1 DEF TableCalls
  <2>2. x.at = "cleaning" /\ x.op = "unload" /\ x.v = v /\ x.m = m
    BY <1>1, <1>2, <2>1 DEF TableCalls
  <2>3. CallOK(x)'
    BY <1>10, <2>2 DEF CallOK
  <2>4. QED
    BY <1>3, <2>1, <2>2, <2>3 DEF TableInvariant, TableTypes
<1>13. \A n \in TableModels \ {m} :
         UNCHANGED <<loaded[n], active[n], metered[n]>> /\ (n \in torn <=> n \in torn')
  BY <1>3, <1>4 DEF TablesTyped
<1>14. QED
  BY <1>1, <1>2, <1>8, <1>9, <1>11, <1>13, <1>12, TableStepKeeps

\* The metrics of that version go, and the table of a model without any.
LEMMA OneCleanedKeeps ==
  ASSUME TableInvariant, NEW r \in Requests, Table!OneCleaned(r)
  PROVE  TableInvariant'
<1>1. /\ Serves(r) /\ work[r] \in TableCalls /\ CallOK(work[r]) /\ work[r].at = "cleaning"
  BY HoldsServes DEF Table!OneCleaned
<1>2. PICK m \in TableModels, v \in Versions :
        work[r].m = m /\ work[r].v = v /\ v \notin Table!Listed(m)
  BY <1>1 DEF TableCalls, CallOK, Table!OneCleaned
<1>3. /\ metered' = [metered EXCEPT ![m] = @ \ {v}]
      /\ loaded' = [loaded EXCEPT ![m] = IF @ = <<>> THEN None ELSE @]
      /\ Table!Returns(r) /\ UNCHANGED <<registered, active, torn>>
  BY <1>2 DEF Table!OneCleaned
<1>4. TablesTyped
  BY DEF TableInvariant, TableTypes
<1>5. TablesTyped'
  BY <1>3, <1>4 DEF TablesTyped
<1>6. EachLoadedOnce'
  BY <1>3, <1>4 DEF TableInvariant, EachLoadedOnce, TablesTyped
<1>7. TablesAgree(m)'
  <2>1. Table!Listed(m)' = Table!Listed(m)
    <3>1. CASE loaded[m] = <<>>
      <4>1. loaded'[m] = None
        BY <1>3, <1>4, <3>1 DEF TablesTyped
      <4>2. QED
        BY <3>1, <4>1 DEF Table!Listed
    <3>2. CASE loaded[m] # <<>>
      <4>1. loaded'[m] = loaded[m]
        BY <1>3, <1>4, <3>2 DEF TablesTyped
      <4>2. QED
        BY <4>1 DEF Table!Listed
    <3>3. QED
      BY <3>1, <3>2
  <2>2. Table!Settled(m)' => Table!Settled(m)
    BY <1>2, <1>3, ModelInfoAssumption DEF Table!Settled, Table!Returns, TableInvariant,
       TableTypes
  <2>3. metered'[m] = metered[m] \ {v} /\ active'[m] = active[m]
    BY <1>3, <1>4 DEF TablesTyped
  <2>4. QED
    BY <1>2, <2>1, <2>2, <2>3 DEF TablesAgree, TableInvariant
<1>8. \A n \in TableModels \ {m} :
        UNCHANGED <<loaded[n], active[n], metered[n]>> /\ (n \in torn <=> n \in torn')
  BY <1>3, <1>4 DEF TablesTyped
<1>9. QED
  BY <1>1, <1>2, <1>3, <1>5, <1>6, <1>7, <1>8, TableStepKeeps

\* An unload of all versions takes out the next one.
LEMMA UnloadNextKeeps ==
  ASSUME TableInvariant, NEW r \in Requests, Table!UnloadNext(r)
  PROVE  TableInvariant'
<1>1. /\ Serves(r) /\ work[r] \in TableCalls /\ CallOK(work[r]) /\ work[r].op = "unload"
  BY HoldsServes DEF Table!UnloadNext
<1>2. PICK m \in TableModels : work[r].m = m
  BY <1>1 DEF TableCalls
<1>3. /\ work[r].v = None /\ loaded[m] \notin {None, <<>>}
      /\ loaded' = [loaded EXCEPT ![m] = Tail(@)]
      /\ work' = [work EXCEPT ![r].at = "cleaning"] /\ line' = line
      /\ UNCHANGED <<registered, active, metered, torn>>
  BY <1>2 DEF Table!UnloadNext, Table!Goes
<1>4. TablesTyped
  BY DEF TableInvariant, TableTypes
<1>5. loaded[m] \in Seq(Versions) /\ loaded[m] # <<>> /\ Distinct(loaded[m])
  BY <1>3, <1>4 DEF TablesTyped, TableInvariant, EachLoadedOnce
<1>6. Tail(loaded[m]) \in Seq(Versions) /\ Distinct(Tail(loaded[m]))
  BY <1>5, TailDistinct
<1>7. TablesTyped'
  BY <1>3, <1>4, <1>6 DEF TablesTyped
<1>8. EachLoadedOnce'
  BY <1>3, <1>4, <1>6 DEF TableInvariant, EachLoadedOnce, TablesTyped
<1>9. PICK x \in TableCalls : x = [work[r] EXCEPT !.at = "cleaning"]
  BY <1>1 DEF TableCalls
<1>10. /\ x.at = "cleaning" /\ x.op = "unload" /\ x.v = None /\ x.m = m
       /\ work' = [work EXCEPT ![r] = x] /\ line' = line
  BY <1>1, <1>2, <1>3, <1>9 DEF TableCalls, TableInvariant, TableTypes
<1>11. TablesAgree(m)'
  BY <1>10 DEF TablesAgree, Table!Settled, TableInvariant, TableTypes
<1>12. \A n \in TableModels \ {m} :
         UNCHANGED <<loaded[n], active[n], metered[n]>> /\ (n \in torn <=> n \in torn')
  BY <1>3, <1>4 DEF TablesTyped
<1>13. CallOK(x)'
  <2>1. None \notin Table!Listed(m)'
    BY <1>7, ModelInfoAssumption DEF Table!Listed, TablesTyped
  <2>2. QED
    BY <1>10, <2>1 DEF CallOK
<1>14. QED
  BY <1>1, <1>2, <1>7, <1>8, <1>10, <1>11, <1>12, <1>13, TableStepKeeps

\* An unload of all versions ends.
LEMMA AllCleanedKeeps ==
  ASSUME TableInvariant, NEW r \in Requests, Table!AllCleaned(r)
  PROVE  TableInvariant'
<1>1. Serves(r) /\ work[r] \in TableCalls
  BY HoldsServes DEF Table!AllCleaned
<1>2. PICK m \in TableModels : work[r].m = m
  BY <1>1 DEF TableCalls
<1>3. /\ metered' = [metered EXCEPT ![m] = {}]
      /\ active' = [active EXCEPT ![m] = None]
      /\ loaded' = [loaded EXCEPT ![m] = None]
      /\ torn' = torn \ {m} /\ Table!Returns(r) /\ UNCHANGED registered
  BY <1>2 DEF Table!AllCleaned
<1>4. TablesTyped
  BY DEF TableInvariant, TableTypes
<1>5. TablesTyped'
  BY <1>3, <1>4 DEF TablesTyped
<1>6. EachLoadedOnce'
  BY <1>3, <1>4 DEF TableInvariant, EachLoadedOnce, TablesTyped
<1>7. TablesAgree(m)'
  BY <1>3, <1>4 DEF TablesAgree, Table!Listed, TablesTyped
<1>8. \A n \in TableModels \ {m} :
        UNCHANGED <<loaded[n], active[n], metered[n]>> /\ (n \in torn <=> n \in torn')
  BY <1>3, <1>4 DEF TablesTyped
<1>9. QED
  BY <1>1, <1>2, <1>3, <1>5, <1>6, <1>7, <1>8, TableStepKeeps

\* An unload of all versions that raises leaves the model torn.
LEMMA CleanupRaisesKeeps ==
  ASSUME TableInvariant, NEW r \in Requests, Table!CleanupRaises(r)
  PROVE  TableInvariant'
<1>1. Serves(r) /\ work[r] \in TableCalls
  BY HoldsServes DEF Table!CleanupRaises
<1>2. PICK m \in TableModels : work[r].m = m
  BY <1>1 DEF TableCalls
<1>3. CASE work[r].v # None
  BY <1>1, <1>3, QuietTableStep DEF Table!CleanupRaises
<1>4. CASE work[r].v = None
  <2>1. /\ torn' = torn \cup {m} /\ Table!Returns(r)
        /\ UNCHANGED <<registered, loaded, active, metered>>
    BY <1>2, <1>4 DEF Table!CleanupRaises
  <2>2. TablesTyped' /\ EachLoadedOnce'
    BY <2>1 DEF TableInvariant, TableTypes, TablesTyped, EachLoadedOnce
  <2>3. TablesAgree(m)'
    BY <2>1 DEF TablesAgree, Table!Settled
  <2>4. QED
    BY <1>1, <1>2, <2>1, <2>2, <2>3, TableStepKeeps
<1>5. QED
  BY <1>3, <1>4

\* A switch makes a loaded version the active one.
LEMMA SwitchKeeps ==
  ASSUME TableInvariant, NEW r \in Requests, Table!Switch(r)
  PROVE  TableInvariant'
<1>1. /\ Serves(r) /\ work[r] \in TableCalls /\ CallOK(work[r])
      /\ work[r].op = "switch" /\ work[r].at = "waiting"
  BY HoldsServes DEF Table!Switch
<1>2. PICK m \in TableModels, v \in Versions : work[r].m = m /\ work[r].v = v
  BY <1>1 DEF TableCalls, CallOK
<1>3. /\ v \in registered[m] => v \in Table!Listed(m)
      /\ active' = [active EXCEPT ![m] = IF v \in registered[m] THEN v ELSE @]
      /\ Table!Returns(r) /\ UNCHANGED <<registered, loaded, metered, torn>>
  BY <1>2 DEF Table!Switch
<1>4. TablesTyped
  BY DEF TableInvariant, TableTypes
<1>5. TablesTyped' /\ EachLoadedOnce'
  BY <1>3, <1>4 DEF TablesTyped, TableInvariant, EachLoadedOnce
<1>6. TablesAgree(m)'
  <2>1. Table!Listed(m)' = Table!Listed(m)
    BY <1>3 DEF Table!Listed
  <2>2. Table!Settled(m)' => Table!Settled(m)
    BY <1>1, <1>3 DEF Table!Settled, Table!Returns, TableInvariant, TableTypes
  <2>3. active'[m] = IF v \in registered[m] THEN v ELSE active[m]
    BY <1>3, <1>4 DEF TablesTyped
  <2>4. QED
    BY <1>3, <2>1, <2>2, <2>3, ModelInfoAssumption DEF TablesAgree, TableInvariant
<1>7. \A n \in TableModels \ {m} :
        UNCHANGED <<loaded[n], active[n], metered[n]>> /\ (n \in torn <=> n \in torn')
  BY <1>3, <1>4 DEF TablesTyped
<1>8. QED
  BY <1>1, <1>2, <1>3, <1>5, <1>6, <1>7, TableStepKeeps

\* A call joins the line of its model.
LEMMA AskTableKeeps ==
  ASSUME TableInvariant, NEW r \in Requests, NEW m \in TableModels,
         NEW v \in Versions \cup {None},
         NEW op \in {"load", "unload", "switch"}, op = "switch" => v \in Versions,
         Table!Ask(r, op, m, v)
  PROVE  TableInvariant'
<1> DEFINE x == [at |-> "waiting", op |-> op, m |-> m, v |-> v]
<1>1. /\ work[r] = Table!Idle /\ work' = [work EXCEPT ![r] = x]
      /\ line' = [line EXCEPT ![m] = Append(@, r)]
      /\ UNCHANGED <<registered, loaded, active, metered, torn>>
  BY DEF Table!Ask
<1>2. x \in TableCalls /\ x.m = m /\ x.at = "waiting" /\ x.op = op /\ x.v = v /\ x # Table!Idle
  BY DEF TableCalls, Table!Idle
<1> HIDE DEF x
<1>3. TableTypes'
  BY <1>1, <1>2 DEF TableInvariant, TableTypes, TablesTyped
<1>4. \A n \in TableModels : /\ Elements(line[n]) \subseteq Elements(line'[n])
                             /\ Elements(line[n]) # {} => Head(line'[n]) = Head(line[n])
  <2> SUFFICES ASSUME NEW n \in TableModels
               PROVE  /\ Elements(line[n]) \subseteq Elements(line'[n])
                      /\ Elements(line[n]) # {} => Head(line'[n]) = Head(line[n])
    OBVIOUS
  <2>1. line[n] \in Seq(Requests) /\ line'[n] = IF n = m THEN Append(line[n], r) ELSE line[n]
    BY <1>1 DEF TableInvariant, TableTypes
  <2>2. /\ Len(Append(line[n], r)) = Len(line[n]) + 1 /\ Len(line[n]) \in Nat
        /\ \A i \in 1..Len(line[n]) : Append(line[n], r)[i] = line[n][i]
    BY <2>1
  <2>3. Elements(line[n]) \subseteq Elements(Append(line[n], r))
    BY <2>1, <2>2 DEF Elements
  <2>4. Elements(line[n]) # {} => Head(Append(line[n], r)) = Head(line[n])
    BY <2>1, <2>2 DEF Elements
  <2>5. QED
    BY <2>1, <2>3, <2>4
<1>5. r \in Elements(line'[m])
  <2>1. line[m] \in Seq(Requests) /\ line'[m] = Append(line[m], r)
    BY <1>1 DEF TableInvariant, TableTypes
  <2>2. Len(line[m]) + 1 \in DOMAIN line'[m] /\ line'[m][Len(line[m]) + 1] = r
    BY <2>1
  <2>3. QED
    BY <2>2 DEF Elements
<1>6. WorkQueues'
  <2> SUFFICES ASSUME NEW q \in Requests, work'[q] # Table!Idle
               PROVE  /\ q \in Elements(line'[work'[q].m])
                      /\ work'[q].at # "waiting" => Head(line'[work'[q].m]) = q
    BY DEF WorkQueues
  <2>1. CASE q = r
    BY <1>1, <1>2, <1>5, <2>1 DEF TableInvariant, TableTypes
  <2>2. CASE q # r
    <3>1. work'[q] = work[q] /\ work[q].m \in TableModels
      BY <1>1, <2>2 DEF TableInvariant, TableTypes, TableCalls
    <3>2. QED
      BY <1>4, <3>1 DEF TableInvariant, WorkQueues
  <2>3. QED
    BY <2>1, <2>2
<1>7. WorkOK'
  <2> SUFFICES ASSUME NEW q \in Requests, work'[q] # Table!Idle PROVE CallOK(work[q])'
    BY DEF WorkOK
  <2>1. CASE q = r
    <3>1. work'[q] = x
      BY <1>1, <2>1 DEF TableInvariant, TableTypes
    <3>2. QED
      BY <1>2, <3>1 DEF CallOK
  <2>2. CASE q # r
    <3>1. work'[q] = work[q] /\ CallOK(work[q])
      BY <1>1, <2>2 DEF TableInvariant, TableTypes, WorkOK
    <3>2. QED
      BY <1>1, <3>1 DEF CallOK, Table!Listed
  <2>3. QED
    BY <2>1, <2>2
<1>8. EachLoadedOnce'
  BY <1>1 DEF TableInvariant, EachLoadedOnce
<1>9. \A n \in TableModels : TablesAgree(n)'
  <2> SUFFICES ASSUME NEW n \in TableModels PROVE TablesAgree(n)'
    OBVIOUS
  <2>1. ~(work[r].at = "cleaning" /\ work[r].m = n /\ work[r].v = None)
    BY <1>1 DEF Table!Idle
  <2>2. QED
    BY <1>1, <2>1, OtherModelsStay
<1>10. QED
  BY <1>3, <1>6, <1>7, <1>8, <1>9 DEF TableInvariant

\* Registering a version changes no table and no call.
LEMMA CallsAndTablesStay ==
  ASSUME TableInvariant, registered' \in [TableModels -> SUBSET Versions],
         UNCHANGED <<loaded, active, metered, line, work, torn>>
  PROVE  TableInvariant'
<1>1. TableTypes' /\ EachLoadedOnce'
  BY DEF TableInvariant, TableTypes, TablesTyped, EachLoadedOnce
<1>2. WorkQueues'
  BY DEF TableInvariant, WorkQueues
<1>3. WorkOK'
  <2>1. \A x : CallOK(x)' <=> CallOK(x)
    BY DEF CallOK, Table!Listed
  <2>2. QED
    BY <2>1 DEF TableInvariant, WorkOK
<1>4. \A n \in TableModels : TablesAgree(n)'
  <2> SUFFICES ASSUME NEW n \in TableModels PROVE TablesAgree(n)'
    OBVIOUS
  <2>1. Table!Settled(n)' <=> Table!Settled(n)
    BY DEF Table!Settled
  <2>2. Table!Listed(n)' = Table!Listed(n)
    BY DEF Table!Listed
  <2>3. QED
    BY <2>1, <2>2 DEF TableInvariant, TablesAgree
<1>5. QED
  BY <1>1, <1>2, <1>3, <1>4 DEF TableInvariant

LEMMA RegisterKeeps ==
  ASSUME TableInvariant, NEW m \in TableModels, NEW v \in Versions, Table!Register(m, v)
  PROVE  TableInvariant'
<1>1. /\ registered' \in [TableModels -> SUBSET Versions]
      /\ UNCHANGED <<loaded, active, metered, line, work, torn>>
  BY DEF Table!Register, TableInvariant, TableTypes, TablesTyped
<1>2. QED
  BY <1>1, CallsAndTablesStay

LEMMA TableStays ==
  ASSUME TableInvariant, UNCHANGED <<tableVars, loaded>>
  PROVE  TableInvariant'
BY CallsAndTablesStay DEF TableInvariant, TableTypes, TablesTyped, tableVars

LEMMA TableStep ==
  ASSUME TableInvariant, Table!Next
  PROVE  TableInvariant'
<1>1. ASSUME NEW r \in Requests, NEW m \in TableModels,
             \/ \E v \in Versions \cup {None} : Table!Ask(r, "load", m, v)
             \/ \E v \in Versions, op \in {"unload", "switch"} : Table!Ask(r, op, m, v)
             \/ Table!UnloadAll(r, m) \/ Table!GetActive(r, m)
      PROVE  TableInvariant'
  <2>1. active[m] \in Versions \cup {None}
    BY DEF TableInvariant, TableTypes, TablesTyped
  <2>2. QED
    BY <1>1, <2>1, AskTableKeeps DEF Table!UnloadAll, Table!GetActive
<1>2. ASSUME NEW r \in Requests, Table!Step(r)
      PROVE  TableInvariant'
  BY <1>2, LookupKeeps, StoreKeeps, QuietReturnsKeep, UnloadOneKeeps, OneCleanedKeeps,
     UnloadNextKeeps, AllCleanedKeeps, CleanupRaisesKeeps, SwitchKeeps,
     SwitchSticksKeeps DEF Table!Step
<1>3. QED
  BY <1>1, <1>2, RegisterKeeps DEF Table!Next

LEMMA TableInit ==
  ASSUME Table!Init
  PROVE  TableInvariant
BY DEF Table!Init, TableInvariant, TableTypes, TablesTyped, WorkQueues, WorkOK,
   EachLoadedOnce, TablesAgree, Table!Listed, Elements

LEMMA TableTypeOK ==
  ASSUME TableInvariant
  PROVE  Table!VersionTableTypeOK /\ Table!ActiveIsLoaded
BY DEF TableInvariant, TableTypes, TablesTyped, TableCalls, TablesAgree,
   Table!VersionTableTypeOK, Table!ActiveIsLoaded

-----------------------------------------------------------------------------
(* The class that a process has                                            *)

\* The tables of the last class are those of its beginning unless it is chosen.
LoadersInvariant ==
  /\ draft = "single" => SingleInvariant
  /\ draft = "table" => TableInvariant
  /\ Invariant

\* Every class begins in its invariant, and every step keeps it.
LEMMA LoadersInitInvariant == LoadersInit => LoadersInvariant
BY SingleInit, TableInit, InitInvariant DEF LoadersInit, LoadersInvariant, NoInfo

LEMMA LoadersNextInvariant ==
  LoadersInvariant /\ [LoadersNext]_loaderVars => LoadersInvariant'
<1> SUFFICES ASSUME LoadersInvariant, [LoadersNext]_loaderVars PROVE LoadersInvariant'
  OBVIOUS
<1>1. CASE NextSingle
  <2>1. Invariant'
    BY <1>1, StutterKeeps DEF NextSingle, LoadersInvariant
  <2>2. QED
    BY <1>1, <2>1, SingleStep DEF NextSingle, LoadersInvariant
<1>2. CASE NextTable
  <2>1. Invariant'
    BY <1>2, StutterKeeps DEF NextTable, LoadersInvariant
  <2>2. QED
    BY <1>2, <2>1, TableStep DEF NextTable, LoadersInvariant
<1>3. CASE NextInfo
  <2>1. Invariant'
    BY <1>3, NextInvariant DEF NextInfo, LoadersInvariant
  <2>2. QED
    BY <1>3, <2>1 DEF NextInfo, LoadersInvariant
<1>4. CASE UNCHANGED loaderVars
  <2>1. Invariant'
    BY <1>4, StutterKeeps DEF loaderVars, LoadersInvariant
  <2>2. QED
    BY <1>4, <2>1, QuietOneKeeps, TableStays DEF loaderVars, LoadersInvariant
<1>5. QED
  BY <1>1, <1>2, <1>3, <1>4 DEF LoadersNext

LEMMA LoadersInvariantHolds == LoadersFairSpec => []LoadersInvariant
BY LoadersInitInvariant, LoadersNextInvariant, PTL DEF LoadersFairSpec

\* The tables of the class that is chosen have their types: a model that the
\* first class has loaded has its health status and one time of its last use.
THEOREM LoadersTypeCorrect == LoadersFairSpec => []LoadersTypeOK
<1>1. Invariant => ModelInfoTypeOK
  BY DEF Invariant, TablesOK, Calls, ModelInfoTypeOK
<1>2. LoadersInvariant => LoadersTypeOK
  BY <1>1, SingleTypeOK, TableTypeOK DEF LoadersInvariant, LoadersTypeOK
<1>3. QED
  BY <1>2, LoadersInvariantHolds, PTL

\* The first class has no more models loaded than its maximum, or one where the
\* maximum is 0, which its clean-up lets pass (loader.py:205, 551). It serves the
\* active version of a model, unless a call named another one or is the switch of
\* that model that waits for itself; and such a call stays where it is: what it
\* would have to unload stays loaded through every call, clean-up and shutdown.
THEOREM ActiveAlwaysServed == LoadersFairSpec => []ActiveServed
<1>1. LoadersInvariant => ActiveServed
  BY DEF LoadersInvariant, SingleInvariant, ActiveServed
<1>2. QED
  BY <1>1, LoadersInvariantHolds, PTL

\* The active version of a model is loaded and a loaded version has metrics,
\* whatever loads, unloads and switches are under way (loader.py:1561).
THEOREM ActiveAlwaysLoaded == LoadersFairSpec => []ActiveIsLoaded
<1>1. LoadersInvariant => ActiveIsLoaded
  BY TableTypeOK DEF LoadersInvariant, ActiveIsLoaded
<1>2. QED
  BY <1>1, LoadersInvariantHolds, PTL
=============================================================================
