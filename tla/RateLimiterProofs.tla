-------------------------- MODULE RateLimiterProofs -------------------------
(***************************************************************************)
(* Theorems about the rate limiter library, for any processes, requests,   *)
(* keys and limits.                                                        *)
(*                                                                         *)
(* A window is overrun by the checks that have counted and not yet added.  *)
(* The sum of these and of the entries is bounded when a check counts, and *)
(* no step but a count makes it grow.                                      *)
(***************************************************************************)
EXTENDS RateLimiter, FiniteSetTheorems, TLAPS

Past == 0..clock

WindowTask == [at : {"trim", "count", "oldest", "add", "expire"}, key : Keys, now : Past]
ReadTask == [at : {"read"}, key : Keys, now : Past]
SpendingTask == [at : {"write", "expire"}, key : Keys, now : Past, tokens : Nat]

(* What a check may stand at, under the strategy that is configured.       *)
TaskOK(x) ==
  \/ x = Idle
  \/ strategy = "window" /\ x \in WindowTask
  \/ strategy = "bucket" /\ x \in ReadTask
  \/ strategy = "bucket" /\ x \in SpendingTask /\ x.tokens < Burst[x.key]

(* The strategy fills its own tables only, and nothing is of the future.   *)
RedisOK ==
  /\ clock \in Nat /\ strategy \in {"window", "bucket"}
  /\ entries \in [Keys -> SUBSET Past]
  /\ bucket \in [Keys -> [updated : Past, tokens : Nat] \cup {None}]
  /\ deadline \in [Keys -> Nat \cup {None}]
  /\ strategy = "window" => \A k \in Keys : bucket[k] = None
  /\ strategy = "bucket" => \A k \in Keys : entries[k] = {}

TasksOK == DOMAIN task = Requests /\ \A r \in Requests : TaskOK(task[r])

Adders(k) == {r \in Requests : task[r].at = "add" /\ task[r].key = k}

Crowd(k) ==
  (entries[k] # {} \/ Adders(k) # {}) =>
    Cardinality(entries[k]) + Cardinality(Adders(k)) < Limit[k] + Cardinality(Requests)

Invariant == RedisOK /\ TasksOK /\ (\A k \in Keys : Crowd(k)) /\ KeysOutliveTheirWindow

-----------------------------------------------------------------------------
\* Request r goes to x, and the rest of the requests stay where they are.
TaskBecomes(r, x) ==
  /\ DOMAIN task' = Requests
  /\ task'[r] = x
  /\ \A q \in Requests : q # r => task'[q] = task[q]

\* One task changes to one that has its shape.
LEMMA TaskKeeps ==
  ASSUME TasksOK, NEW r \in Requests, NEW x, TaskBecomes(r, x), TaskOK(x),
         UNCHANGED <<clock, strategy>>
  PROVE  TasksOK'
  BY DEF TasksOK, TaskBecomes, TaskOK, WindowTask, ReadTask, SpendingTask, Past

\* Both sets are finite.
LEMMA CrowdFinite ==
  ASSUME RedisOK, NEW k \in Keys
  PROVE  /\ IsFiniteSet(entries[k]) /\ Cardinality(entries[k]) \in Nat
         /\ IsFiniteSet(Adders(k)) /\ Cardinality(Adders(k)) \in Nat
         /\ Cardinality(Adders(k)) <= Cardinality(Requests)
         /\ Cardinality(Requests) \in Nat
<1>1. IsFiniteSet(Past)
  BY FS_Interval DEF RedisOK, Past
<1>2. entries[k] \in SUBSET Past
  BY DEF RedisOK
<1>3. Adders(k) \in SUBSET Requests
  BY DEF Adders
<1>4. QED
  BY <1>1, <1>2, <1>3, LimiterAssumption, FS_Subset, FS_CardinalityType

\* The crowd of a key does not grow with fewer entries and fewer adders.
LEMMA CrowdShrinks ==
  ASSUME RedisOK, NEW k \in Keys, Crowd(k),
         entries'[k] \subseteq entries[k], Adders(k)' \subseteq Adders(k)
  PROVE  Crowd(k)'
<1>1. /\ IsFiniteSet(entries[k]) /\ Cardinality(entries[k]) \in Nat
      /\ IsFiniteSet(Adders(k)) /\ Cardinality(Adders(k)) \in Nat
      /\ Cardinality(Requests) \in Nat
  BY CrowdFinite
<1>2. /\ Cardinality(entries'[k]) <= Cardinality(entries[k])
      /\ Cardinality(Adders(k)') <= Cardinality(Adders(k))
      /\ Cardinality(entries'[k]) \in Nat /\ Cardinality(Adders(k)') \in Nat
  BY <1>1, FS_Subset, FS_CardinalityType
<1>3. Limit[k] \in Nat
  BY LimiterAssumption
<1>4. CASE entries'[k] = {} /\ Adders(k)' = {}
  BY <1>4 DEF Crowd
<1>5. CASE entries[k] # {} \/ Adders(k) # {}
  BY <1>1, <1>2, <1>3, <1>5 DEF Crowd
<1>6. QED
  BY <1>4, <1>5

\* The form in which the actions write a task.
LEMMA BecomesBy ==
  ASSUME TasksOK, NEW r \in Requests, NEW x, task' = [task EXCEPT ![r] = x]
  PROVE  TaskBecomes(r, x)
  BY DEF TasksOK, TaskBecomes

\* A request that goes elsewhere than to its add joins no adders.
LEMMA NobodyJoins ==
  ASSUME NEW r \in Requests, NEW x, TaskBecomes(r, x), x.at # "add", NEW k
  PROVE  Adders(k)' \subseteq Adders(k)
  BY DEF TaskBecomes, Adders

\* The expire of a check is to do until it is done or the check has failed.
LEMMA UnfinishedStays ==
  ASSUME NEW r \in Requests, NEW x, TaskBecomes(r, x), NEW k, NEW now, Unfinished(k, now),
         cut \subseteq cut',
         task[r].at = "expire" => [key |-> task[r].key, now |-> task[r].now] \in cut'
  PROVE  Unfinished(k, now)'
  BY DEF Unfinished, TaskBecomes

\* A key that Redis leaves alone lives as long as before.
LEMMA OutliveStays ==
  ASSUME NEW k \in Keys, EntriesOutlive(k), BucketOutlives(k),
         entries'[k] \subseteq entries[k], bucket'[k] = bucket[k],
         entries'[k] # {} => deadline'[k] = deadline[k],
         bucket'[k] # None => deadline'[k] = deadline[k],
         k \in late => k \in late',
         \A now : Unfinished(k, now) => Unfinished(k, now)'
  PROVE  EntriesOutlive(k)' /\ BucketOutlives(k)'
<1>1. EntriesOutlive(k)'
  BY DEF EntriesOutlive
<1>2. BucketOutlives(k)'
  BY DEF BucketOutlives
<1>3. QED
  BY <1>1, <1>2

\* A task changes and Redis does not: only the crowds remain to be looked at.
LEMMA QuietMove ==
  ASSUME Invariant, NEW r \in Requests, NEW x, TaskBecomes(r, x), TaskOK(x),
         UNCHANGED <<clock, strategy, redisVars, late>>, cut \subseteq cut',
         task[r].at = "expire" => [key |-> task[r].key, now |-> task[r].now] \in cut'
  PROVE  RedisOK' /\ TasksOK' /\ KeysOutliveTheirWindow'
<1>1. UNCHANGED <<clock, strategy, entries, bucket, deadline, late>>
  BY DEF redisVars
<1>2. RedisOK'
  BY <1>1 DEF Invariant, RedisOK, Past
<1>3. TasksOK'
  BY <1>1, TaskKeeps DEF Invariant
<1>4. KeysOutliveTheirWindow'
  BY <1>1, UnfinishedStays, OutliveStays DEF Invariant, KeysOutliveTheirWindow
<1>5. QED
  BY <1>2, <1>3, <1>4

\* The same, for a task that does not go to its add.
LEMMA QuietMoveKeeps ==
  ASSUME Invariant, NEW r \in Requests, NEW x, TaskBecomes(r, x), TaskOK(x), x.at # "add",
         UNCHANGED <<clock, strategy, redisVars, late>>, cut \subseteq cut',
         task[r].at = "expire" => [key |-> task[r].key, now |-> task[r].now] \in cut'
  PROVE  Invariant'
<1>1. ASSUME NEW k \in Keys PROVE Crowd(k)'
  BY NobodyJoins, CrowdShrinks DEF Invariant, redisVars
<1>2. QED
  BY <1>1, QuietMove DEF Invariant

\* Nothing changes that the invariant is about.
LEMMA StutterKeeps ==
  ASSUME Invariant, UNCHANGED <<clock, strategy, task, redisVars, historyVars>>
  PROVE  Invariant'
<1>1. UNCHANGED <<clock, strategy, task, entries, bucket, deadline, cut, late>>
  BY DEF redisVars, historyVars
<1>2. RedisOK' /\ TasksOK'
  BY <1>1 DEF Invariant, RedisOK, TasksOK, TaskOK, WindowTask, ReadTask, SpendingTask, Past
<1>3. \A k \in Keys : Crowd(k)'
  BY <1>1 DEF Invariant, Crowd, Adders
<1>4. \A k, now : Unfinished(k, now)' = Unfinished(k, now)
  BY <1>1 DEF Unfinished
<1>5. KeysOutliveTheirWindow'
  BY <1>1, <1>4, OutliveStays DEF Invariant, KeysOutliveTheirWindow
<1>6. QED
  BY <1>2, <1>3, <1>5 DEF Invariant

\* What a task at a place is.
LEMMA TaskAt ==
  ASSUME TasksOK, NEW r \in Requests
  PROVE  /\ task[r].at = "idle" => task[r] = Idle
         /\ task[r].at \in {"trim", "count", "oldest", "add"} =>
              strategy = "window" /\ task[r] \in WindowTask
         /\ task[r].at = "read" => strategy = "bucket" /\ task[r] \in ReadTask
         /\ task[r].at = "write" =>
              strategy = "bucket" /\ task[r] \in SpendingTask /\ task[r].tokens < Burst[task[r].key]
         /\ task[r].at = "expire" =>
              \/ strategy = "window" /\ task[r] \in WindowTask
              \/ /\ strategy = "bucket" /\ task[r] \in SpendingTask
                 /\ task[r].tokens < Burst[task[r].key]
  BY DEF TasksOK, TaskOK, WindowTask, ReadTask, SpendingTask, Idle

-----------------------------------------------------------------------------
\* A check begins, over Redis or locally.
LEMMA CallKeeps == ASSUME Invariant, NEW r \in Requests, Call(r) PROVE Invariant'
<1>1. PICK k \in Keys : Check(r, k)
  BY DEF Call
<1>2. UNCHANGED <<clock, strategy, redisVars, historyVars>> /\ task[r].at = "idle"
  BY <1>1 DEF Check, At
<1>3. CASE UNCHANGED task
  BY <1>2, <1>3, StutterKeeps
<1>4. ASSUME NEW x, task' = [task EXCEPT ![r] = x],
             x = [at |-> IF strategy = "window" THEN "trim" ELSE "read", key |-> k, now |-> clock]
      PROVE  Invariant'
  <2>1. TaskBecomes(r, x) /\ x.at # "add"
    BY <1>4, BecomesBy DEF Invariant
  <2>2. TaskOK(x)
    BY <1>4 DEF Invariant, RedisOK, TaskOK, WindowTask, ReadTask, Past
  <2>3. QED
    BY <1>2, <2>1, <2>2, QuietMoveKeeps DEF historyVars
<1>5. QED
  BY <1>1, <1>3, <1>4 DEF Check

\* The count is the one step that makes a crowd grow, up to its bound.
LEMMA CountKeeps == ASSUME Invariant, NEW r \in Requests, Count(r) PROVE Invariant'
<1> DEFINE full == Cardinality(entries[task[r].key]) >= Limit[task[r].key]
           x == [task[r] EXCEPT !.at = IF full THEN "oldest" ELSE "add"]
<1>1. /\ UNCHANGED <<clock, strategy, redisVars, cut, late>>
      /\ UNCHANGED entries
      /\ task[r].at = "count" /\ task' = [task EXCEPT ![r] = x]
  BY DEF Count, At, Goto, redisVars, historyVars
<1>2. strategy = "window" /\ task[r] \in WindowTask
  BY <1>1, TaskAt DEF Invariant
<1>3. /\ x \in WindowTask /\ x.key = task[r].key /\ x.key \in Keys
      /\ x.at = IF full THEN "oldest" ELSE "add"
  BY <1>2 DEF WindowTask
<1> HIDE DEF x
<1>4. TaskBecomes(r, x) /\ TaskOK(x)
  BY <1>1, <1>2, <1>3, BecomesBy DEF Invariant, TaskOK
<1>5. CASE full
  BY <1>1, <1>3, <1>4, <1>5, QuietMoveKeeps
<1>6. CASE ~full
  <2>1. RedisOK' /\ TasksOK' /\ KeysOutliveTheirWindow'
    BY <1>1, <1>4, QuietMove
  <2>2. ASSUME NEW k \in Keys PROVE Crowd(k)'
    <3>1. CASE k = task[r].key
      <4> Adders(k)' \in SUBSET Requests
        BY DEF Adders
      <4>1. /\ Cardinality(entries'[k]) \in Nat /\ Cardinality(Adders(k)') \in Nat
            /\ Cardinality(Requests) \in Nat
            /\ Cardinality(Adders(k)') <= Cardinality(Requests)
        BY <1>1, CrowdFinite, LimiterAssumption, FS_Subset, FS_CardinalityType DEF Invariant
      <4>2. Cardinality(entries'[k]) < Limit[k] /\ Limit[k] \in Nat
        BY <1>1, <1>6, <3>1, <4>1, LimiterAssumption
      <4>3. QED
        BY <4>1, <4>2 DEF Crowd
    <3>2. CASE k # task[r].key
      <4>1. Adders(k)' \subseteq Adders(k)
        BY <1>3, <1>4, <3>2 DEF TaskBecomes, Adders
      <4>2. QED
        BY <1>1, <4>1, CrowdShrinks DEF Invariant
    <3>3. QED
      BY <3>1, <3>2
  <2>3. QED
    BY <2>1, <2>2 DEF Invariant
<1>7. QED
  BY <1>5, <1>6

\* A trim drops entries, and the key with its last one; a window has no bucket.
LEMMA TrimKeeps == ASSUME Invariant, NEW r \in Requests, Trim(r) PROVE Invariant'
<1> DEFINE x == [task[r] EXCEPT !.at = "count"]
           key == task[r].key
<1>1. /\ UNCHANGED <<clock, strategy, cut, late, bucket>>
      /\ task[r].at = "trim" /\ task' = [task EXCEPT ![r] = x]
      /\ entries' = [entries EXCEPT ![key] = {t \in @ : t > task[r].now - Window}]
      /\ deadline' = [k \in Keys |-> IF k = key /\ entries'[k] = {} THEN None ELSE deadline[k]]
  BY DEF Trim, At, Goto, historyVars
<1>2. strategy = "window" /\ task[r] \in WindowTask
  BY <1>1, TaskAt DEF Invariant
<1>3. x \in WindowTask /\ x.at = "count"
  BY <1>2 DEF WindowTask
<1> HIDE DEF x
<1>4. TaskBecomes(r, x) /\ TaskOK(x)
  BY <1>1, <1>2, <1>3, BecomesBy DEF Invariant, TaskOK
<1>5. \A k \in Keys : entries'[k] \subseteq entries[k] /\ (k # key => entries'[k] = entries[k])
  BY <1>1 DEF Invariant, RedisOK
<1>6. entries' \in [Keys -> SUBSET Past] /\ key \in Keys
  BY <1>1, <1>2 DEF Invariant, RedisOK, WindowTask
<1>7. RedisOK' /\ TasksOK'
  BY <1>1, <1>2, <1>4, <1>6, TaskKeeps DEF Invariant, RedisOK, Past
<1>8. ASSUME NEW k \in Keys PROVE Crowd(k)'
  BY <1>3, <1>4, <1>5, NobodyJoins, CrowdShrinks DEF Invariant
<1>9. KeysOutliveTheirWindow'
  <2> SUFFICES ASSUME NEW k \in Keys PROVE EntriesOutlive(k)' /\ BucketOutlives(k)'
    BY DEF KeysOutliveTheirWindow
  <2>1. bucket'[k] = None /\ bucket'[k] = bucket[k]
    BY <1>1, <1>2 DEF Invariant, RedisOK
  <2>2. entries'[k] # {} => deadline'[k] = deadline[k]
    BY <1>1
  <2>3. \A now : Unfinished(k, now) => Unfinished(k, now)'
    BY <1>1, <1>4, UnfinishedStays
  <2>4. QED
    BY <1>1, <1>5, <2>1, <2>2, <2>3, OutliveStays DEF Invariant, KeysOutliveTheirWindow
<1>10. QED
  BY <1>7, <1>8, <1>9 DEF Invariant

\* A check that adds leaves the adders, and its entry joins the entries.
LEMMA AddKeeps == ASSUME Invariant, NEW r \in Requests, Add(r) PROVE Invariant'
<1> DEFINE x == [task[r] EXCEPT !.at = "expire"]
           key == task[r].key
<1>1. /\ UNCHANGED <<clock, strategy, cut, late, bucket, deadline>>
      /\ task[r].at = "add" /\ task' = [task EXCEPT ![r] = x]
      /\ entries' = [entries EXCEPT ![key] = @ \cup {task[r].now}]
  BY DEF Add, At, Goto, historyVars
<1>2. strategy = "window" /\ task[r] \in WindowTask
  BY <1>1, TaskAt DEF Invariant
<1>3. /\ x \in WindowTask /\ x.at = "expire" /\ x.key = key /\ x.now = task[r].now
      /\ key \in Keys /\ task[r].now \in Past
  BY <1>2 DEF WindowTask
<1> HIDE DEF x
<1>4. TaskBecomes(r, x) /\ TaskOK(x)
  BY <1>1, <1>2, <1>3, BecomesBy DEF Invariant, TaskOK
<1>5. /\ entries' \in [Keys -> SUBSET Past]
      /\ entries'[key] = entries[key] \cup {task[r].now}
      /\ \A k \in Keys : k # key => entries'[k] = entries[k]
  BY <1>1, <1>3 DEF Invariant, RedisOK
<1>6. RedisOK' /\ TasksOK'
  BY <1>1, <1>2, <1>4, <1>5, TaskKeeps DEF Invariant, RedisOK, Past
<1>7. ASSUME NEW k \in Keys PROVE Crowd(k)'
  <2>1. CASE k # key
    BY <1>3, <1>4, <1>5, <2>1, NobodyJoins, CrowdShrinks DEF Invariant
  <2>2. CASE k = key
    <3>1. r \in Adders(k) /\ Adders(k)' = Adders(k) \ {r}
      BY <1>1, <1>3, <1>4, <2>2 DEF Adders, TaskBecomes
    <3>2. /\ IsFiniteSet(entries[k]) /\ Cardinality(entries[k]) \in Nat
          /\ IsFiniteSet(Adders(k)) /\ Cardinality(Adders(k)) \in Nat
          /\ Cardinality(Requests) \in Nat
      BY CrowdFinite DEF Invariant
    <3>3. /\ Cardinality(Adders(k)') = Cardinality(Adders(k)) - 1
          /\ Cardinality(entries'[k]) \in {Cardinality(entries[k]), Cardinality(entries[k]) + 1}
      <4>1. Cardinality(Adders(k) \ {r}) = Cardinality(Adders(k)) - 1
        BY <3>1, <3>2, FS_RemoveElement
      <4>2. Cardinality(entries[k] \cup {task[r].now}) =
              IF task[r].now \in entries[k] THEN Cardinality(entries[k])
                                            ELSE Cardinality(entries[k]) + 1
        BY <3>2, FS_AddElement
      <4>3. QED
        BY <1>5, <2>2, <3>1, <4>1, <4>2
    <3>4. Cardinality(entries[k]) + Cardinality(Adders(k)) < Limit[k] + Cardinality(Requests)
      BY <3>1 DEF Invariant, Crowd
    <3>5. Limit[k] \in Nat
      BY LimiterAssumption
    <3>6. QED
      BY <3>2, <3>3, <3>4, <3>5 DEF Crowd
  <2>3. QED
    BY <2>1, <2>2
<1>8. KeysOutliveTheirWindow'
  <2> SUFFICES ASSUME NEW k \in Keys PROVE EntriesOutlive(k)' /\ BucketOutlives(k)'
    BY DEF KeysOutliveTheirWindow
  <2>1. \A now : Unfinished(k, now) => Unfinished(k, now)'
    BY <1>1, <1>4, UnfinishedStays
  <2>2. CASE k # key
    BY <1>1, <1>5, <2>1, <2>2, OutliveStays DEF Invariant, KeysOutliveTheirWindow
  <2>3. CASE k = key
    <3>1. task'[r].at = "expire" /\ task'[r].key = k /\ task'[r].now = task[r].now
      BY <1>3, <1>4, <2>3 DEF TaskBecomes
    <3>2. ASSUME NEW t \in entries'[k]
          PROVE  Unfinished(k, t)' \/ (deadline[k] # None /\ t + 2 * Window <= deadline[k])
      <4>1. CASE t = task[r].now
        BY <3>1, <4>1 DEF Unfinished
      <4>2. CASE t \in entries[k]
        <5>1. EntriesOutlive(k)
          BY DEF Invariant, KeysOutliveTheirWindow
        <5>2. QED
          BY <2>1, <4>2, <5>1 DEF EntriesOutlive
      <4>3. QED
        BY <1>5, <2>3, <4>1, <4>2
    <3>3. bucket[k] = None
      BY <1>2 DEF Invariant, RedisOK
    <3>4. QED
      BY <1>1, <3>2, <3>3 DEF EntriesOutlive, BucketOutlives
  <2>4. QED
    BY <2>2, <2>3
<1>9. QED
  BY <1>6, <1>7, <1>8 DEF Invariant

\* A check of a bucket reads it, and ends or goes to its write.
LEMMA ReadKeeps == ASSUME Invariant, NEW r \in Requests, Read(r) PROVE Invariant'
<1> DEFINE k == task[r].key
           level == IF bucket[k] = None THEN Burst[k]
                    ELSE bucket[k].tokens + (task[r].now - bucket[k].updated)
           tokens == IF level < Burst[k] THEN level ELSE Burst[k]
           x == IF tokens < 1 THEN Idle
                ELSE [at |-> "write", key |-> k, now |-> task[r].now, tokens |-> tokens - 1]
<1>1. /\ UNCHANGED <<clock, strategy, redisVars, cut, late>>
      /\ task[r].at = "read" /\ task' = [task EXCEPT ![r] = x]
  BY DEF Read, At, historyVars
<1>2. strategy = "bucket" /\ task[r] \in ReadTask
  BY <1>1, TaskAt DEF Invariant
<1>3. k \in Keys /\ task[r].now \in Past /\ Burst[k] \in Nat
  BY <1>2, LimiterAssumption DEF ReadTask
<1>4. level \in Int
  BY <1>3 DEF Invariant, RedisOK, Past
<1> HIDE DEF level
<1>5. tokens \in Int /\ tokens <= Burst[k]
  BY <1>3, <1>4
<1> HIDE DEF tokens
<1>6. TaskOK(x) /\ x.at # "add"
  BY <1>2, <1>3, <1>5 DEF TaskOK, SpendingTask, Idle
<1> HIDE DEF x
<1>7. QED
  BY <1>1, <1>6, BecomesBy, QuietMoveKeeps DEF Invariant

\* A write gives the bucket what the check has read and spent.
LEMMA WriteKeeps == ASSUME Invariant, NEW r \in Requests, Write(r) PROVE Invariant'
<1> DEFINE x == [task[r] EXCEPT !.at = "expire"]
           key == task[r].key
<1>1. /\ UNCHANGED <<clock, strategy, late, entries, deadline>>
      /\ cut' = {c \in cut : c.key # key}
      /\ task[r].at = "write" /\ task' = [task EXCEPT ![r] = x]
      /\ bucket' = [bucket EXCEPT ![key] = [updated |-> task[r].now, tokens |-> task[r].tokens]]
  BY DEF Write, At, Goto
<1>2. strategy = "bucket" /\ task[r] \in SpendingTask /\ task[r].tokens < Burst[key]
  BY <1>1, TaskAt DEF Invariant
<1>3. /\ x \in SpendingTask /\ x.at = "expire" /\ x.key = key /\ x.now = task[r].now
      /\ x.tokens = task[r].tokens
      /\ key \in Keys /\ task[r].now \in Past /\ task[r].tokens \in Nat
  BY <1>2 DEF SpendingTask
<1> HIDE DEF x
<1>4. TaskBecomes(r, x) /\ TaskOK(x)
  BY <1>1, <1>2, <1>3, BecomesBy DEF Invariant, TaskOK
<1>5. /\ bucket' \in [Keys -> [updated : Past, tokens : Nat] \cup {None}]
      /\ \A k \in Keys : k # key => bucket'[k] = bucket[k]
  BY <1>1, <1>3 DEF Invariant, RedisOK
<1>6. RedisOK' /\ TasksOK'
  BY <1>1, <1>2, <1>4, <1>5, TaskKeeps DEF Invariant, RedisOK, Past
<1>7. ASSUME NEW k \in Keys PROVE Crowd(k)'
  BY <1>1, <1>3, <1>4, NobodyJoins, CrowdShrinks DEF Invariant
<1>8. KeysOutliveTheirWindow'
  <2> SUFFICES ASSUME NEW k \in Keys PROVE EntriesOutlive(k)' /\ BucketOutlives(k)'
    BY DEF KeysOutliveTheirWindow
  <2>1. CASE k # key
    <3>1. \A now : Unfinished(k, now) => Unfinished(k, now)'
      BY <1>1, <1>4, <2>1 DEF Unfinished, TaskBecomes
    <3>2. QED
      BY <1>1, <1>5, <2>1, <3>1, OutliveStays DEF Invariant, KeysOutliveTheirWindow
  <2>2. CASE k = key
    <3>1. entries'[k] = {}
      BY <1>1, <1>2 DEF Invariant, RedisOK
    <3>2. bucket'[k].updated = task[r].now
      BY <1>1, <2>2 DEF Invariant, RedisOK
    <3>3. Unfinished(k, bucket[k].updated)'
      BY <1>3, <1>4, <2>2, <3>2 DEF Unfinished, TaskBecomes
    <3>4. QED
      BY <3>1, <3>3 DEF EntriesOutlive, BucketOutlives
  <2>3. QED
    BY <2>1, <2>2
<1>9. QED
  BY <1>6, <1>7, <1>8 DEF Invariant

\* The deadline a check gives is far enough for everything of the past.
LEMMA ExpireKeeps == ASSUME Invariant, NEW r \in Requests, Expire(r) PROVE Invariant'
<1> DEFINE key == task[r].key
           ttl == IF strategy = "window" THEN Window * 2 ELSE (Burst[key] - task[r].tokens) + Window
<1>1. /\ UNCHANGED <<clock, strategy, entries, bucket>> /\ Renewed(r)
      /\ task[r].at = "expire" /\ task' = [task EXCEPT ![r] = Idle]
      /\ deadline' = [deadline EXCEPT ![key] = IF Exists(key) THEN clock + ttl ELSE None]
  BY DEF Expire, At, End
<1>2. TaskBecomes(r, Idle) /\ TaskOK(Idle) /\ Idle.at # "add"
  BY <1>1, BecomesBy DEF Invariant, TaskOK, Idle
<1>3. key \in Keys /\ Burst[key] \in Nat /\ Window \in Nat /\ clock \in Nat
  BY <1>1, TaskAt, LimiterAssumption DEF Invariant, WindowTask, SpendingTask, RedisOK
<1>4. /\ ttl \in Nat /\ task[r].now \in Past
      /\ strategy = "window" => ttl = 2 * Window
      /\ strategy = "bucket" => /\ ttl = (Burst[key] - task[r].tokens) + Window /\ Window < ttl
                                /\ task[r].tokens \in Nat
  BY <1>1, <1>3, TaskAt DEF Invariant, WindowTask, SpendingTask, RedisOK
<1> HIDE DEF ttl
<1>5. /\ deadline' \in [Keys -> Nat \cup {None}]
      /\ \A k \in Keys : k # key => deadline'[k] = deadline[k]
      /\ Exists(key) => deadline'[key] = clock + ttl
  BY <1>1, <1>3, <1>4 DEF Invariant, RedisOK
<1>6. RedisOK' /\ TasksOK'
  BY <1>1, <1>2, <1>5, TaskKeeps DEF Invariant, RedisOK, Past
<1>7. ASSUME NEW k \in Keys PROVE Crowd(k)'
  BY <1>1, <1>2, NobodyJoins, CrowdShrinks DEF Invariant
<1>8. KeysOutliveTheirWindow'
  <2> SUFFICES ASSUME NEW k \in Keys PROVE EntriesOutlive(k)' /\ BucketOutlives(k)'
    BY DEF KeysOutliveTheirWindow
  <2>1. CASE k # key
    <3>1. \A now : Unfinished(k, now) => Unfinished(k, now)'
      BY <1>1, <1>2, <2>1 DEF Unfinished, TaskBecomes, Renewed
    <3>2. k \in late => k \in late'
      BY <1>1, <2>1 DEF Renewed
    <3>3. QED
      BY <1>1, <1>5, <2>1, <3>1, <3>2, OutliveStays DEF Invariant, KeysOutliveTheirWindow
  <2>2. CASE k = key /\ strategy = "window"
    <3>1. ASSUME NEW t \in entries[k]
          PROVE  deadline'[k] # None /\ t + 2 * Window <= deadline'[k]
      <4>1. t \in Past /\ Exists(key)
        BY <2>2 DEF Invariant, RedisOK, Exists
      <4>2. deadline'[k] = clock + 2 * Window
        BY <1>4, <1>5, <2>2, <4>1
      <4>3. QED
        BY <1>3, <4>1, <4>2, LimiterAssumption DEF Past
    <3>2. EntriesOutlive(k)'
      BY <1>1, <3>1 DEF EntriesOutlive
    <3>3. bucket[k] = None
      BY <2>2 DEF Invariant, RedisOK
    <3>4. QED
      BY <1>1, <3>2, <3>3 DEF BucketOutlives
  <2>3. CASE k = key /\ strategy = "bucket"
    <3>1. EntriesOutlive(k)'
      BY <1>1, <2>3 DEF Invariant, RedisOK, EntriesOutlive
    <3>2. ASSUME bucket[k] # None
          PROVE  /\ deadline'[k] # None /\ bucket[k].updated + Window < deadline'[k]
                 /\ k \in late' \/ bucket[k].updated + (Burst[k] - bucket[k].tokens) + Window <= deadline'[k]
      <4>1. bucket[k].updated \in Past /\ Exists(key)
        BY <2>3, <3>2 DEF Invariant, RedisOK, Exists
      <4>2. deadline'[k] = clock + ttl
        BY <1>5, <2>3, <4>1
      <4>3. deadline'[k] # None /\ bucket[k].updated + Window < deadline'[k]
        BY <1>3, <1>4, <2>3, <4>1, <4>2, LimiterAssumption DEF Past
      <4>4. k \in late' \/ bucket[k] = [updated |-> task[r].now, tokens |-> task[r].tokens]
        BY <1>1, <2>3 DEF Renewed
      <4>5. ASSUME bucket[k] = [updated |-> task[r].now, tokens |-> task[r].tokens]
            PROVE  bucket[k].updated + (Burst[k] - bucket[k].tokens) + Window <= deadline'[k]
        <5>1. bucket[k].updated = task[r].now /\ bucket[k].tokens = task[r].tokens
          BY <4>5
        <5>2. QED
          BY <1>3, <1>4, <2>3, <4>2, <5>1 DEF Past
      <4>6. QED
        BY <4>3, <4>4, <4>5
    <3>3. BucketOutlives(k)'
      BY <1>1, <3>2 DEF BucketOutlives
    <3>4. QED
      BY <3>1, <3>3
  <2>4. QED
    BY <2>1, <2>2, <2>3 DEF Invariant, RedisOK
<1>9. QED
  BY <1>6, <1>7, <1>8 DEF Invariant

\* A check ends, refused or made again locally after an error.
LEMMA EndKeeps ==
  ASSUME Invariant, NEW r \in Requests, Oldest(r) \/ Fail(r)
  PROVE  Invariant'
<1>1. /\ UNCHANGED <<clock, strategy, redisVars, late>> /\ task' = [task EXCEPT ![r] = Idle]
      /\ cut \subseteq cut'
      /\ task[r].at = "expire" => [key |-> task[r].key, now |-> task[r].now] \in cut'
  BY DEF Oldest, Fail, At, End, historyVars
<1>2. TaskBecomes(r, Idle) /\ TaskOK(Idle) /\ Idle.at # "add"
  BY <1>1, BecomesBy DEF Invariant, TaskOK, Idle
<1>3. QED
  BY <1>1, <1>2, QuietMoveKeeps

\* Time passes, and Redis drops the keys whose deadline it is.
LEMMA TickKeeps == ASSUME Invariant, Tick PROVE Invariant'
<1> DEFINE over(k) == deadline[k] # None /\ deadline[k] <= clock'
<1>1. /\ clock' = clock + 1 /\ UNCHANGED <<strategy, task>>
      /\ cut' = {c \in cut : ~over(c.key)} /\ late' = {k \in late : ~over(k)}
      /\ entries' = [k \in Keys |-> IF over(k) THEN {} ELSE entries[k]]
      /\ bucket' = [k \in Keys |-> IF over(k) THEN None ELSE bucket[k]]
      /\ deadline' = [k \in Keys |-> IF over(k) THEN None ELSE deadline[k]]
  BY DEF Tick
<1> HIDE DEF over
<1>2. clock \in Nat /\ clock' \in Nat /\ clock <= clock' /\ \A t \in Past : t \in Past'
  BY <1>1 DEF Invariant, RedisOK, Past
<1>3. entries' \in [Keys -> SUBSET (Past')]
  <2>1. \A k \in Keys : (IF over(k) THEN {} ELSE entries[k]) \in SUBSET (Past')
    BY <1>2 DEF Invariant, RedisOK
  <2>2. QED
    BY <1>1, <2>1
<1>4. bucket' \in [Keys -> [updated : Past', tokens : Nat] \cup {None}]
  <2>1. \A k \in Keys :
          (IF over(k) THEN None ELSE bucket[k]) \in [updated : Past', tokens : Nat] \cup {None}
    BY <1>2 DEF Invariant, RedisOK
  <2>2. QED
    BY <1>1, <2>1
<1>5. deadline' \in [Keys -> Nat \cup {None}]
  BY <1>1 DEF Invariant, RedisOK
<1>6. RedisOK'
  BY <1>1, <1>2, <1>3, <1>4, <1>5 DEF Invariant, RedisOK
<1>7. TasksOK'
  <2>1. ASSUME NEW r \in Requests PROVE TaskOK(task[r])'
    <3>1. TaskOK(task[r])
      BY DEF Invariant, TasksOK
    <3>2. QED
      BY <1>1, <1>2, <3>1 DEF TaskOK, WindowTask, ReadTask, SpendingTask, Past
  <2>2. QED
    BY <1>1, <2>1 DEF Invariant, TasksOK
<1>8. ASSUME NEW k \in Keys PROVE Crowd(k)'
  <2>1. entries'[k] \subseteq entries[k] /\ Adders(k)' \subseteq Adders(k)
    BY <1>1 DEF Adders
  <2>2. QED
    BY <2>1, CrowdShrinks DEF Invariant
<1>9. KeysOutliveTheirWindow'
  <2> SUFFICES ASSUME NEW k \in Keys PROVE EntriesOutlive(k)' /\ BucketOutlives(k)'
    BY DEF KeysOutliveTheirWindow
  <2>1. CASE over(k)
    BY <1>1, <2>1 DEF EntriesOutlive, BucketOutlives
  <2>2. CASE ~over(k)
    <3>1. \A now : Unfinished(k, now) => Unfinished(k, now)'
      BY <1>1, <2>2 DEF Unfinished
    <3>2. QED
      BY <1>1, <2>2, <3>1, OutliveStays DEF Invariant, KeysOutliveTheirWindow
  <2>3. QED
    BY <2>1, <2>2
<1>10. QED
  BY <1>6, <1>7, <1>8, <1>9 DEF Invariant

LEMMA InitInvariant == Init => Invariant
<1> SUFFICES ASSUME Init PROVE Invariant
  OBVIOUS
<1>1. RedisOK /\ TasksOK
  BY DEF Init, RedisOK, TasksOK, TaskOK, Idle, Past
<1>2. ASSUME NEW k \in Keys PROVE Crowd(k)
  <2>1. entries[k] = {} /\ Adders(k) = {}
    BY DEF Init, Adders, Idle
  <2>2. QED
    BY <2>1 DEF Crowd
<1>3. KeysOutliveTheirWindow
  BY DEF Init, KeysOutliveTheirWindow, EntriesOutlive, BucketOutlives
<1>4. QED
  BY <1>1, <1>2, <1>3 DEF Invariant

LEMMA NextInvariant == Invariant /\ [Next]_limiterVars => Invariant'
<1> SUFFICES ASSUME Invariant, [Next]_limiterVars PROVE Invariant'
  OBVIOUS
<1>1. CASE UNCHANGED limiterVars
  BY <1>1, StutterKeeps DEF limiterVars
<1>2. ASSUME NEW r \in Requests,
             \/ Call(r)
             \/ Trim(r) \/ Count(r) \/ Oldest(r) \/ Add(r)
             \/ Read(r) \/ Write(r)
             \/ Expire(r)
             \/ Fail(r)
      PROVE  Invariant'
  BY <1>2, CallKeeps, TrimKeeps, CountKeeps, EndKeeps, AddKeeps, ReadKeeps, WriteKeeps, ExpireKeeps
<1>3. ASSUME NEW p \in Procs, Cleanup(p) \/ Close(p) PROVE Invariant'
  <2>1. UNCHANGED <<clock, strategy, task, redisVars, historyVars>>
    BY <1>3 DEF Cleanup, Close
  <2>2. QED
    BY <2>1, StutterKeeps
<1>4. QED
  BY <1>1, <1>2, <1>3, TickKeeps DEF Next

LEMMA SpecInvariant == Spec => []Invariant
  BY InitInvariant, NextInvariant, PTL DEF Spec

-----------------------------------------------------------------------------
\* The Redis window of a key exceeds its limit by fewer requests than are under
\* way at once, for any number of processes (_check_redis_rate_limit).
THEOREM WindowOverrunBounded == Spec => []OverrunBounded
<1>1. Invariant => OverrunBounded
  <2> SUFFICES ASSUME Invariant, NEW k \in Keys, entries[k] # {}
               PROVE  Cardinality(entries[k]) < Limit[k] + Cardinality(Requests)
    BY DEF OverrunBounded
  <2>1. /\ Cardinality(entries[k]) \in Nat /\ Cardinality(Adders(k)) \in Nat
        /\ Cardinality(Requests) \in Nat /\ Limit[k] \in Nat
    BY CrowdFinite, LimiterAssumption DEF Invariant
  <2>2. Cardinality(entries[k]) + Cardinality(Adders(k)) < Limit[k] + Cardinality(Requests)
    BY DEF Invariant, Crowd
  <2>3. QED
    BY <2>1, <2>2
<1>2. QED
  BY <1>1, SpecInvariant, PTL

\* What a finished check has stored in Redis lives for two windows in a sorted
\* set, and in a hash for more than one, until it is full again when the check
\* that wrote it was the last to give a deadline (_check_redis_rate_limit):
\* whatever checks, errors, clean-ups and shutdowns interleave, for any limits.
THEOREM KeysAlwaysOutlive == Spec => []KeysOutliveTheirWindow
  BY SpecInvariant, PTL DEF Invariant

-----------------------------------------------------------------------------
(* Types.  What a process counts locally is of the past and within limits. *)
Counts == [requests : SUBSET Past, tokens : Nat, updated : Past]

UsageOK(k, u) == u \in Counts /\ u.tokens <= Burst[k]

LocalOK ==
  /\ clock <= MaxTime
  /\ mode \in [Procs -> {"redis", "local", "closed"}]
  /\ stuck \subseteq Procs
  /\ cut \subseteq [key : Keys, now : Past] /\ late \subseteq Keys
  /\ \A k \in Keys : bucket[k] # None => bucket[k].tokens <= Burst[k]
  /\ usage \in [Procs -> [Keys -> Counts \cup {None}]]
  /\ \A p \in Procs, k \in Keys : usage[p][k] # None => UsageOK(k, usage[p][k])

\* The tokens of a bucket grow to the limit and not beyond.
LEMMA RefillBound ==
  ASSUME RedisOK, NEW k \in Keys, NEW tokens \in Nat, NEW updated \in Past
  PROVE  Refill(k, tokens, updated) \in Nat /\ Refill(k, tokens, updated) <= Burst[k]
  BY LimiterAssumption DEF RedisOK, Refill, Past

\* Either strategy leaves a usage as it should be.
LEMMA StrategiesKeep ==
  ASSUME RedisOK, NEW k \in Keys, NEW u, UsageOK(k, u)
  PROVE  UsageOK(k, WindowCheck(k, u).usage) /\ UsageOK(k, BucketCheck(k, u).usage)
<1>1. /\ u \in Counts /\ u.tokens <= Burst[k] /\ u.requests \subseteq Past
      /\ u.tokens \in Nat /\ u.updated \in Past /\ clock \in Past
  BY DEF UsageOK, Counts, RedisOK, Past
<1>2. UsageOK(k, WindowCheck(k, u).usage)
  <2>1. Live(u.requests) \subseteq Past
    BY <1>1 DEF Live
  <2>2. [u EXCEPT !.requests = Live(u.requests)] \in Counts
        /\ [u EXCEPT !.requests = Live(u.requests)].tokens = u.tokens
    BY <1>1, <2>1 DEF Counts
  <2>3. [u EXCEPT !.requests = Live(u.requests) \cup {clock}, !.updated = clock] \in Counts
        /\ [u EXCEPT !.requests = Live(u.requests) \cup {clock}, !.updated = clock].tokens = u.tokens
    BY <1>1, <2>1 DEF Counts
  <2>4. QED
    BY <1>1, <2>2, <2>3 DEF WindowCheck, UsageOK
<1>3. UsageOK(k, BucketCheck(k, u).usage)
  <2> DEFINE tokens == Refill(k, u.tokens, u.updated)
  <2>1. tokens \in Nat /\ tokens <= Burst[k] /\ Burst[k] \in Nat
    BY <1>1, RefillBound, LimiterAssumption
  <2> HIDE DEF tokens
  <2>2. ASSUME tokens >= 1
        PROVE  UsageOK(k, [u EXCEPT !.tokens = tokens - 1, !.updated = clock])
    <3>1. tokens - 1 \in Nat /\ tokens - 1 <= Burst[k]
      BY <2>1, <2>2
    <3>2. QED
      BY <1>1, <3>1 DEF UsageOK, Counts
  <2>3. BucketCheck(k, u).usage =
          IF tokens >= 1 THEN [u EXCEPT !.tokens = tokens - 1, !.updated = clock] ELSE u
    BY DEF BucketCheck, tokens
  <2>4. QED
    BY <2>2, <2>3
<1>4. QED
  BY <1>2, <1>3

\* So does a local check.
LEMMA LocalCheckKeeps ==
  ASSUME RedisOK, LocalOK, NEW p \in Procs, NEW k \in Keys, LocalCheck(p, k)
  PROVE  /\ stuck' \subseteq Procs
         /\ usage' \in [Procs -> [Keys -> Counts \cup {None}]]
         /\ \A q \in Procs, j \in Keys : usage'[q][j] # None => UsageOK(j, usage'[q][j])
<1> DEFINE u == IF usage[p][k] = None THEN Fresh ELSE usage[p][k]
           v == IF strategy = "window" THEN WindowCheck(k, u).usage ELSE BucketCheck(k, u).usage
<1>1. UsageOK(k, Fresh)
  BY LimiterAssumption DEF RedisOK, UsageOK, Counts, Fresh, Past
<1>2. UsageOK(k, u)
  BY <1>1 DEF LocalOK
<1>3. usage' = [usage EXCEPT ![p][k] = v] /\ stuck' \subseteq Procs
  BY DEF LocalCheck, LocalOK
<1> HIDE DEF u
<1>4. UsageOK(k, v)
  BY <1>2, StrategiesKeep
<1> HIDE DEF v
<1>5. v \in Counts
  BY <1>4 DEF UsageOK
<1>6. QED
  BY <1>3, <1>4, <1>5 DEF LocalOK

\* Clean-up forgets a usage or leaves it as it should be.
LEMMA CleanedKeeps ==
  ASSUME RedisOK, NEW k \in Keys, NEW u, UsageOK(k, u), Cleaned(k, u) # None
  PROVE  UsageOK(k, Cleaned(k, u))
<1>1. /\ u \in Counts /\ u.tokens <= Burst[k] /\ u.requests \subseteq Past
      /\ u.tokens \in Nat /\ u.updated \in Past /\ clock \in Past
  BY DEF UsageOK, Counts, RedisOK, Past
<1>2. UsageOK(k, [u EXCEPT !.tokens = Refill(k, u.tokens, u.updated), !.updated = clock])
  BY <1>1, RefillBound DEF UsageOK, Counts
<1>3. UsageOK(k, [u EXCEPT !.requests = Live(u.requests)])
  <2>1. Live(u.requests) \subseteq Past
    BY <1>1 DEF Live
  <2>2. QED
    BY <1>1, <2>1 DEF UsageOK, Counts
<1>4. QED
  BY <1>2, <1>3 DEF Cleaned

LEMMA CleanupKeepsLocal ==
  ASSUME RedisOK, LocalOK, NEW p \in Procs, Cleanup(p)
  PROVE  LocalOK'
<1> DEFINE row == [k \in Keys |-> IF usage[p][k] = None THEN None ELSE Cleaned(k, usage[p][k])]
<1>1. /\ UNCHANGED <<clock, mode, stuck, cut, late, bucket>>
      /\ usage' = [usage EXCEPT ![p] = row]
  BY DEF Cleanup, redisVars, historyVars
<1>2. \A k \in Keys : row[k] # None => UsageOK(k, row[k])
  BY CleanedKeeps DEF LocalOK
<1>3. row \in [Keys -> Counts \cup {None}]
  BY <1>2 DEF UsageOK
<1> HIDE DEF row
<1>4. usage' \in [Procs -> [Keys -> Counts \cup {None}]]
  BY <1>1, <1>3 DEF LocalOK
<1>5. \A q \in Procs, k \in Keys : usage'[q][k] # None => UsageOK(k, usage'[q][k])
  BY <1>1, <1>2 DEF LocalOK
<1>6. QED
  BY <1>1, <1>4, <1>5 DEF LocalOK, UsageOK, Counts, Past

LEMMA TickKeepsLocal == ASSUME RedisOK, LocalOK, Tick PROVE LocalOK'
<1>1. /\ clock' = clock + 1 /\ clock' <= MaxTime /\ UNCHANGED <<mode, stuck, usage>>
      /\ cut' \subseteq cut /\ late' \subseteq late
      /\ \A k \in Keys : bucket'[k] \in {None, bucket[k]}
  BY LimiterAssumption DEF Tick, RedisOK
<1>2. \A t \in Past : t \in Past'
  BY <1>1 DEF RedisOK, Past
<1>3. \A u \in Counts : u \in Counts'
  BY <1>2 DEF Counts
<1>4. usage' \in [Procs -> [Keys -> (Counts') \cup {None}]]
  BY <1>1, <1>3 DEF LocalOK
<1>5. cut' \subseteq [key : Keys, now : Past']
  BY <1>1, <1>2 DEF LocalOK
<1>6. QED
  BY <1>1, <1>3, <1>4, <1>5 DEF LocalOK, UsageOK

\* No step of a check, of a clean-up or of time takes a type away.
LEMMA LocalKeeps ==
  ASSUME Invariant, LocalOK, [Next]_limiterVars
  PROVE  LocalOK'
<1> USE DEF Invariant
<1> DEFINE HistoriesOK == cut \subseteq [key : Keys, now : Past] /\ late \subseteq Keys
<1>1. ASSUME UNCHANGED <<clock, mode, stuck, bucket, usage>>, HistoriesOK' PROVE LocalOK'
  BY <1>1 DEF LocalOK, UsageOK, Counts, Past
<1>2. ASSUME UNCHANGED <<clock, cut, late>> PROVE HistoriesOK'
  BY <1>2 DEF LocalOK, Past
<1>3. ASSUME NEW r \in Requests, Trim(r) \/ Count(r) \/ Oldest(r) \/ Add(r) \/ Read(r)
      PROVE  LocalOK'
  <2>1. UNCHANGED <<clock, mode, stuck, bucket, usage, cut, late>>
    BY <1>3 DEF Trim, Count, Oldest, Add, Read, redisVars, historyVars
  <2>2. QED
    BY <1>1, <1>2, <2>1
<1>4. ASSUME NEW p \in Procs, NEW k \in Keys, LocalCheck(p, k), HistoriesOK',
             UNCHANGED <<clock, mode, bucket>>
      PROVE  LocalOK'
  BY <1>4, LocalCheckKeeps DEF LocalOK, UsageOK, Counts, Past
<1>5. ASSUME NEW r \in Requests, Call(r) PROVE LocalOK'
  <2>1. PICK k \in Keys : Check(r, k)
    BY <1>5 DEF Call
  <2>2. Home[r] \in Procs
    BY LimiterAssumption
  <2>3. UNCHANGED <<clock, mode, cut, late, bucket>>
    BY <2>1 DEF Check, redisVars, historyVars
  <2>4. UNCHANGED <<usage, stuck>> \/ LocalCheck(Home[r], k)
    BY <2>1 DEF Check
  <2>5. QED
    BY <1>1, <1>2, <1>4, <2>2, <2>3, <2>4
<1>6. ASSUME NEW r \in Requests, task[r] # Idle PROVE task[r].key \in Keys /\ task[r].now \in Past
  BY <1>6 DEF TasksOK, TaskOK, WindowTask, ReadTask, SpendingTask
<1>7. ASSUME NEW r \in Requests, Fail(r) PROVE LocalOK'
  <2>1. task[r].key \in Keys /\ task[r].now \in Past /\ Home[r] \in Procs
    BY <1>6, <1>7, LimiterAssumption DEF Fail
  <2>2. UNCHANGED <<clock, mode, bucket, late>> /\ LocalCheck(Home[r], task[r].key)
    BY <1>7 DEF Fail, redisVars
  <2>3. cut' \subseteq cut \cup {[key |-> task[r].key, now |-> task[r].now]}
    BY <1>7 DEF Fail
  <2>4. HistoriesOK'
    BY <2>1, <2>2, <2>3 DEF LocalOK, Past
  <2>5. QED
    BY <1>4, <2>1, <2>2, <2>4
<1>8. ASSUME NEW r \in Requests, Expire(r) PROVE LocalOK'
  <2>1. UNCHANGED <<clock, mode, stuck, bucket, usage>> /\ Renewed(r) /\ task[r] # Idle
    BY <1>8 DEF Expire, At, Idle
  <2>2. cut' \subseteq cut /\ late' \subseteq late \cup {task[r].key} /\ task[r].key \in Keys
    BY <1>6, <2>1 DEF Renewed
  <2>3. HistoriesOK'
    BY <2>1, <2>2 DEF LocalOK, Past
  <2>4. QED
    BY <1>1, <2>1, <2>3
<1>9. ASSUME NEW r \in Requests, Write(r) PROVE LocalOK'
  <2>1. /\ UNCHANGED <<clock, mode, stuck, late, usage>> /\ cut' \subseteq cut
        /\ bucket' = [bucket EXCEPT ![task[r].key] =
                        [updated |-> task[r].now, tokens |-> task[r].tokens]]
    BY <1>9 DEF Write
  <2>2. /\ task[r].tokens \in Nat /\ task[r].tokens < Burst[task[r].key]
        /\ task[r].key \in Keys /\ Burst[task[r].key] \in Nat
    BY <1>9, TaskAt, LimiterAssumption DEF Write, At, SpendingTask
  <2>3. \A k \in Keys : bucket'[k] # None => bucket'[k].tokens <= Burst[k]
    BY <2>1, <2>2 DEF LocalOK, RedisOK
  <2>4. QED
    BY <2>1, <2>3 DEF LocalOK, UsageOK, Counts, Past
<1>10. ASSUME NEW p \in Procs, Close(p) PROVE LocalOK'
  BY <1>10 DEF Close, LocalOK, UsageOK, Counts, Past, redisVars, historyVars
<1>11. CASE UNCHANGED limiterVars
  BY <1>1, <1>2, <1>11 DEF limiterVars, redisVars, historyVars
<1>12. QED
  BY <1>3, <1>5, <1>7, <1>8, <1>9, <1>10, <1>11, CleanupKeepsLocal, TickKeepsLocal DEF Next

\* Redis, the checks and the local usage keep their types: no token is below
\* zero or above the limit, whatever check is made again after an error.
THEOREM LimiterTypeCorrect == Spec => []LimiterTypeOK
<1>1. Init => LocalOK
  BY LimiterAssumption DEF Init, LocalOK
<1>2. Spec => [](Invariant /\ LocalOK)
  BY <1>1, InitInvariant, NextInvariant, LocalKeeps, PTL DEF Spec
<1>3. Invariant /\ LocalOK => LimiterTypeOK
  <2> SUFFICES ASSUME Invariant, LocalOK PROVE LimiterTypeOK
    OBVIOUS
  <2>1. clock \in Times /\ Past \subseteq Times /\ stuck \subseteq Procs
        /\ cut \subseteq [key : Keys, now : Times] /\ late \subseteq Keys
    BY LimiterAssumption DEF Invariant, RedisOK, LocalOK, Times, Past
  <2>2. ASSUME NEW r \in Requests
        PROVE  task[r] = Idle \/ \E k \in Keys : task[r] \in Task(k) \cup Spending(k)
    <3>1. TaskOK(task[r])
      BY DEF Invariant, TasksOK
    <3>2. CASE task[r] \in WindowTask \cup ReadTask
      <4>1. task[r].key \in Keys /\ task[r] \in Task(task[r].key)
        BY <2>1, <3>2 DEF WindowTask, ReadTask, Task
      <4>2. QED
        BY <4>1
    <3>3. CASE task[r] \in SpendingTask /\ task[r].tokens < Burst[task[r].key]
      <4>1. task[r].key \in Keys /\ task[r].tokens \in Tokens(task[r].key)
        BY <3>3, LimiterAssumption DEF SpendingTask, Tokens
      <4>2. task[r] \in Spending(task[r].key)
        BY <2>1, <3>3, <4>1 DEF SpendingTask, Spending
      <4>3. QED
        BY <4>1, <4>2
    <3>4. QED
      BY <3>1, <3>2, <3>3 DEF TaskOK
  <2>3. entries \in [Keys -> SUBSET Times]
    BY <2>1 DEF Invariant, RedisOK
  <2>4. ASSUME NEW k \in Keys
        PROVE  bucket[k] \in [updated : Times, tokens : Tokens(k)] \cup {None}
    <3>1. CASE bucket[k] # None
      <4>1. bucket[k] \in [updated : Past, tokens : Nat]
        BY <3>1 DEF Invariant, RedisOK
      <4>2. bucket[k].tokens \in Tokens(k)
        BY <3>1, <4>1, LimiterAssumption DEF LocalOK, Tokens
      <4>3. QED
        BY <2>1, <4>1, <4>2
    <3>2. QED
      BY <3>1
  <2>5. ASSUME NEW p \in Procs, NEW k \in Keys PROVE usage[p][k] \in Local(k) \cup {None}
    BY <2>1, LimiterAssumption DEF LocalOK, UsageOK, Counts, Local, Tokens
  <2>6. QED
    BY <2>1, <2>2, <2>3, <2>4, <2>5 DEF LimiterTypeOK, Invariant, RedisOK, LocalOK
<1>4. QED
  BY <1>2, <1>3, PTL
=============================================================================
