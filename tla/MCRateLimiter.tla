---- MODULE MCRateLimiter ----
EXTENDS RateLimiter, TLC

CONSTANTS r1, r2, p1, p2, k1

\* One check at a time on each of two processes: Redis sees them overlap.
MCHome == [r \in Requests |-> IF r = r1 THEN p1 ELSE p2]

MCLimit == [k \in Keys |-> 1]
MCBurst == [k \in Keys |-> 2]

\* The processes are alike, each with its request.
Alike ==
  {f \in Permutations(Requests \cup Procs) :
     \A r \in Requests : f[r] \in Requests /\ f[Home[r]] = Home[f[r]]}
====
