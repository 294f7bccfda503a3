----------------------------- MODULE RateLimiter ----------------------------
(***************************************************************************)
(* The rate limiter library (utils/rate_limiter.py): server processes that *)
(* share counters in Redis, and count locally without it.                  *)
(*                                                                         *)
(* A process runs one event loop. A check over Redis is suspended at each  *)
(* command, and other checks, of this process or another, run in between;  *)
(* an error of any command makes the check start over locally. A local     *)
(* check does not suspend. It holds a lock that is not reentrant, and when *)
(* it allows the request it calls a method that takes the lock again: the  *)
(* thread of the event loop waits for itself from then on.                 *)
(*                                                                         *)
(* Time is counted in ticks, and refill_rate is one token a tick. Redis    *)
(* and the processes read the same clock. A key stands for a tenant and a  *)
(* resource type, limit and burst for its configuration.                   *)
(***************************************************************************)
EXTENDS Integers, FiniteSets

CONSTANTS
  Procs,      \* server processes
  Requests,   \* checks that can be under way at the same time
  Home,       \* the process that serves each request
  Keys,
  Limit,      \* of each key: config.limit
  Burst,      \* of each key: config.burst
  Window,
  MaxTime,    \* bound on the clock
  None

ASSUME LimiterAssumption ==
  /\ IsFiniteSet(Requests)
  /\ Home \in [Requests -> Procs]
  /\ Limit \in [Keys -> Nat]
  /\ Burst \in [Keys -> Nat]
  /\ Window \in Nat \ {0}
  /\ MaxTime \in Nat
  /\ None \notin Int

VARIABLES
  clock,
  strategy,   \* of every process: configured once
  mode,       \* of each process: where it counts, until its shutdown
  stuck,      \* processes whose event loop waits for the lock that it holds
  task,       \* the check that each request is in
  entries,    \* Redis: the sorted set of a key, as its scores
  bucket,     \* Redis: the hash of a key
  deadline,   \* Redis: when a key expires
  cut,        \* history: what is stored of checks that failed at their expire
  late,       \* history: keys that live by the tokens of a check that was overtaken
  usage       \* _usage of each process

redisVars == <<entries, bucket, deadline>>
historyVars == <<cut, late>>
limiterVars == <<clock, strategy, mode, stuck, task, redisVars, historyVars, usage>>

Times == 0..MaxTime
Tokens(k) == 0..Burst[k]

Idle == [at |-> "idle"]
Task(k) == [at : {"trim", "count", "oldest", "add", "read", "expire"}, key : {k}, now : Times]
Spending(k) == [at : {"write", "expire"}, key : {k}, now : Times, tokens : Tokens(k)]

\* A member of the list requests stands for itself: a process that has recorded
\* one is stuck, so it never records another at the same time.
Local(k) == [requests : SUBSET Times, tokens : Tokens(k), updated : Times]

LimiterTypeOK ==
  /\ clock \in Times
  /\ strategy \in {"window", "bucket"}
  /\ mode \in [Procs -> {"redis", "local", "closed"}]
  /\ stuck \subseteq Procs
  /\ \A r \in Requests : task[r] = Idle \/ \E k \in Keys : task[r] \in Task(k) \cup Spending(k)
  /\ entries \in [Keys -> SUBSET Times]
  /\ \A k \in Keys : bucket[k] \in [updated : Times, tokens : Tokens(k)] \cup {None}
  /\ deadline \in [Keys -> Nat \cup {None}]
  /\ cut \subseteq [key : Keys, now : Times]
  /\ late \subseteq Keys
  /\ \A p \in Procs, k \in Keys : usage[p][k] \in Local(k) \cup {None}

\* __init__, and initialize of the processes that are given a redis_url.
Init ==
  /\ clock = 0
  /\ strategy \in {"window", "bucket"}
  /\ mode \in [Procs -> {"redis", "local"}]
  /\ stuck = {}
  /\ task = [r \in Requests |-> Idle]
  /\ entries = [k \in Keys |-> {}]
  /\ bucket = [k \in Keys |-> None]
  /\ deadline = [k \in Keys |-> None]
  /\ cut = {}
  /\ late = {}
  /\ usage = [p \in Procs |-> [k \in Keys |-> None]]

-----------------------------------------------------------------------------
(* Strategies                                                              *)

Live(times) == {t \in times : t > clock - Window}

Refill(k, tokens, updated) ==
  LET full == tokens + (clock - updated)
  IN  IF full < Burst[k] THEN full ELSE Burst[k]

Fresh == [requests |-> {}, tokens |-> 0, updated |-> clock]

\* SlidingWindowStrategy.check_limit drops the old requests, allowed or not.
WindowCheck(k, u) ==
  LET live == Live(u.requests)
      allowed == Cardinality(live) < Limit[k]
  IN  [allowed |-> allowed,
       usage |-> IF allowed THEN [u EXCEPT !.requests = live \cup {clock}, !.updated = clock]
                            ELSE [u EXCEPT !.requests = live]]

\* TokenBucketStrategy.check_limit stores nothing for a request it refuses.
BucketCheck(k, u) ==
  LET tokens == Refill(k, u.tokens, u.updated)
  IN  [allowed |-> tokens >= 1,
       usage |-> IF tokens >= 1 THEN [u EXCEPT !.tokens = tokens - 1, !.updated = clock] ELSE u]

\* _check_local_rate_limit: a new usage starts with no request and no token.
LocalCheck(p, k) ==
  LET u == IF usage[p][k] = None THEN Fresh ELSE usage[p][k]
      result == IF strategy = "window" THEN WindowCheck(k, u) ELSE BucketCheck(k, u)
  IN  /\ usage' = [usage EXCEPT ![p][k] = result.usage]
      /\ stuck' = IF result.allowed THEN stuck \cup {p} ELSE stuck

-----------------------------------------------------------------------------
(* Checks                                                                  *)

Runs(r) == Home[r] \notin stuck

\* Only a check that is not over Redis goes on without the connection.
At(r, place) ==
  /\ Runs(r)
  /\ task[r].at = place
  /\ place # "idle" => mode[Home[r]] # "closed"

Goto(r, place) == task' = [task EXCEPT ![r].at = place]

End(r) == task' = [task EXCEPT ![r] = Idle]

\* check_rate_limit: over Redis up to the first command, locally to the end.
Check(r, k) ==
  /\ At(r, "idle")
  /\ IF mode[Home[r]] = "redis"
     THEN /\ task' = [task EXCEPT ![r] = [at |-> IF strategy = "window" THEN "trim" ELSE "read",
                                           key |-> k, now |-> clock]]
          /\ UNCHANGED <<usage, stuck>>
     ELSE LocalCheck(Home[r], k) /\ UNCHANGED task
  /\ UNCHANGED <<clock, strategy, mode, redisVars, historyVars>>

\* limit and limit_sync: a call that names a tenant is checked before it is made.
Call(r) == \E k \in Keys : Check(r, k)

\* zremrangebyscore(0, now - window)
Trim(r) ==
  /\ At(r, "trim")
  /\ LET k == task[r].key
     IN  entries' = [entries EXCEPT ![k] = {t \in @ : t > task[r].now - Window}]
  /\ deadline' = [k \in Keys |-> IF k = task[r].key /\ entries'[k] = {} THEN None ELSE deadline[k]]
  /\ Goto(r, "count")
  /\ UNCHANGED <<clock, strategy, mode, stuck, bucket, historyVars, usage>>

\* Faulty comparison: a full window still takes one.
CountBeyond(r) ==
  /\ At(r, "count")
  /\ LET full == Cardinality(entries[task[r].key]) > Limit[task[r].key]
     IN  Goto(r, IF full THEN "oldest" ELSE "add")
  /\ UNCHANGED <<clock, strategy, mode, stuck, redisVars, historyVars, usage>>

\* zcard, and the comparison with the limit.
Count(r) ==
  /\ At(r, "count")
  /\ LET full == Cardinality(entries[task[r].key]) >= Limit[task[r].key]
     IN  Goto(r, IF full THEN "oldest" ELSE "add")
  /\ UNCHANGED <<clock, strategy, mode, stuck, redisVars, historyVars, usage>>

\* zrange for retry_after, and the refusal.
Oldest(r) ==
  /\ At(r, "oldest")
  /\ End(r)
  /\ UNCHANGED <<clock, strategy, mode, stuck, redisVars, historyVars, usage>>

\* zadd under the time that the check began at: requests of one instant are one
\* member of the set.
Add(r) ==
  /\ At(r, "add")
  /\ entries' = [entries EXCEPT ![task[r].key] = @ \cup {task[r].now}]
  /\ Goto(r, "expire")
  /\ UNCHANGED <<clock, strategy, mode, stuck, bucket, deadline, historyVars, usage>>

\* Faulty arithmetic: a token is taken from an empty bucket.
ReadUnchecked(r) ==
  /\ At(r, "read")
  /\ LET k == task[r].key
         b == bucket[k]
         age == IF b = None THEN 0 ELSE task[r].now - b.updated
         full == IF b = None THEN Burst[k] ELSE b.tokens + age
         tokens == IF full < Burst[k] THEN full ELSE Burst[k]
     IN  task' = [task EXCEPT ![r] = [at |-> "write", key |-> k, now |-> task[r].now,
                                      tokens |-> tokens - 1]]
  /\ UNCHANGED <<clock, strategy, mode, stuck, redisVars, historyVars, usage>>

\* hmget, the refill since last_updated, which may be later than now, and the
\* refusal without a whole token.
Read(r) ==
  /\ At(r, "read")
  /\ LET k == task[r].key
         b == bucket[k]
         full == IF b = None THEN Burst[k] ELSE b.tokens + (task[r].now - b.updated)
         tokens == IF full < Burst[k] THEN full ELSE Burst[k]
     IN  task' = [task EXCEPT ![r] =
           IF tokens < 1 THEN Idle
           ELSE [at |-> "write", key |-> k, now |-> task[r].now, tokens |-> tokens - 1]]
  /\ UNCHANGED <<clock, strategy, mode, stuck, redisVars, historyVars, usage>>

\* hmset
Write(r) ==
  /\ At(r, "write")
  /\ bucket' = [bucket EXCEPT ![task[r].key] = [updated |-> task[r].now, tokens |-> task[r].tokens]]
  /\ Goto(r, "expire")
  /\ cut' = {c \in cut : c.key # task[r].key}
  /\ UNCHANGED <<clock, strategy, mode, stuck, entries, deadline, late, usage>>

Exists(k) == entries[k] # {} \/ bucket[k] # None

\* The key of r has a new deadline, and lives by the tokens of r: what was cut
\* before is covered, and r is late when the bucket is not the one it wrote.
Renewed(r) ==
  LET k == task[r].key
  IN  /\ cut' = {c \in cut : c.key # k}
      /\ late' = IF strategy = "bucket" /\ bucket[k] # [updated |-> task[r].now, tokens |-> task[r].tokens]
                 THEN late \cup {k} ELSE late \ {k}

\* Faulty expiry: the key lives for one window.
ExpireAfterWindow(r) ==
  /\ At(r, "expire")
  /\ LET k == task[r].key
     IN  deadline' = [deadline EXCEPT ![k] = IF Exists(k) THEN clock + Window ELSE None]
  /\ Renewed(r)
  /\ End(r)
  /\ UNCHANGED <<clock, strategy, mode, stuck, entries, bucket, usage>>

\* expire, and the answer True.
Expire(r) ==
  /\ At(r, "expire")
  /\ LET k == task[r].key
         ttl == IF strategy = "window" THEN Window * 2
                ELSE (Burst[k] - task[r].tokens) + Window
     IN  deadline' = [deadline EXCEPT ![k] = IF Exists(k) THEN clock + ttl ELSE None]
  /\ Renewed(r)
  /\ End(r)
  /\ UNCHANGED <<clock, strategy, mode, stuck, entries, bucket, usage>>

\* A command raises, or is sent after the connection is closed: the check is
\* made again locally. An error after the effect is an error of the next command.
Fail(r) ==
  /\ Runs(r)
  /\ task[r] # Idle
  /\ LocalCheck(Home[r], task[r].key)
  /\ End(r)
  /\ cut' = IF task[r].at = "expire" THEN cut \cup {[key |-> task[r].key, now |-> task[r].now]} ELSE cut
  /\ UNCHANGED <<clock, strategy, mode, redisVars, late>>

-----------------------------------------------------------------------------
(* Background                                                              *)

\* _periodic_cleanup: an empty window unused for two windows is forgotten.
Cleaned(k, u) ==
  LET kept == [u EXCEPT !.requests = Live(@)]
  IN  IF strategy = "bucket"
      THEN [u EXCEPT !.tokens = Refill(k, @, u.updated), !.updated = clock]
      ELSE IF kept.requests = {} /\ clock - u.updated > 2 * Window THEN None ELSE kept

Cleanup(p) ==
  /\ p \notin stuck
  /\ mode[p] # "closed"
  /\ usage' = [usage EXCEPT ![p] =
       [k \in Keys |-> IF @[k] = None THEN None ELSE Cleaned(k, @[k])]]
  /\ UNCHANGED <<clock, strategy, mode, stuck, task, redisVars, historyVars>>

\* close: the cleanup task is cancelled and awaited, then the connection closed.
\* One step: a process whose cleanup has ended is one whose cleanup does not run.
Close(p) ==
  /\ p \notin stuck
  /\ mode' = [mode EXCEPT ![p] = "closed"]
  /\ UNCHANGED <<clock, strategy, stuck, task, redisVars, historyVars, usage>>

\* Redis drops a key at its deadline, and what the histories say of it goes too.
Tick ==
  /\ clock < MaxTime
  /\ clock' = clock + 1
  /\ LET over(k) == deadline[k] # None /\ deadline[k] <= clock'
     IN  /\ entries' = [k \in Keys |-> IF over(k) THEN {} ELSE entries[k]]
         /\ bucket' = [k \in Keys |-> IF over(k) THEN None ELSE bucket[k]]
         /\ deadline' = [k \in Keys |-> IF over(k) THEN None ELSE deadline[k]]
         /\ cut' = {c \in cut : ~over(c.key)}
         /\ late' = {k \in late : ~over(k)}
  /\ UNCHANGED <<strategy, mode, stuck, task, usage>>

Next ==
  \/ \E r \in Requests :
       \/ Call(r)
       \/ Trim(r) \/ Count(r) \/ Oldest(r) \/ Add(r)
       \/ Read(r) \/ Write(r)
       \/ Expire(r)
       \/ Fail(r)
  \/ \E p \in Procs : Cleanup(p) \/ Close(p)
  \/ Tick

Spec == Init /\ [][Next]_limiterVars

-----------------------------------------------------------------------------
(* Properties                                                              *)

\* The window of a key holds more than its limit only by checks that were under
\* way together: each counted before the others added.
OverrunBounded ==
  \A k \in Keys : entries[k] # {} =>
    Cardinality(entries[k]) < Limit[k] + Cardinality(Requests)

\* The check that stored something of this instant on k has its expire still to
\* do, or never did it. (One of a process that waits for its own lock never does.)
Unfinished(k, now) ==
  \/ \E r \in Requests : task[r].at = "expire" /\ task[r].key = k /\ task[r].now = now
  \/ [key |-> k, now |-> now] \in cut

EntriesOutlive(k) ==
  \A t \in entries[k] :
    Unfinished(k, t) \/ (deadline[k] # None /\ t + 2 * Window <= deadline[k])

BucketOutlives(k) ==
  LET b == bucket[k]
  IN  b = None \/ Unfinished(k, b.updated) \/
        /\ deadline[k] # None
        /\ b.updated + Window < deadline[k]
        /\ k \in late \/ b.updated + (Burst[k] - b.tokens) + Window <= deadline[k]

\* What a finished check has stored lives for two windows in a sorted set, and
\* in a hash for more than one; and until the bucket is full again, when the
\* last deadline came from the check that wrote it.
KeysOutliveTheirWindow == \A k \in Keys : EntriesOutlive(k) /\ BucketOutlives(k)
=============================================================================
