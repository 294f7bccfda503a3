------------------------- MODULE RequestLimitsProofs -------------------------
(***************************************************************************)
(* Theorems about the request accounting of server.py, for any requests,   *)
(* tenants, limits and windows.                                            *)
(***************************************************************************)
EXTENDS RequestLimits, FiniteSetTheorems, TLAPS

\* The positions of the requests of t that were admitted at some times.
At(t, times) == {i \in DOMAIN admitted[t] : admitted[t][i] \in times}

\* No request was admitted in the future, nor later than a window after what
\* request_timestamps still holds: it was pruned when the last one came.
StampsInOrder ==
  \A t \in Tenants : \A i \in DOMAIN admitted[t] :
    admitted[t][i] <= clock /\ admitted[t][i] <= oldest[t] + Window

\* No window, wherever it begins, holds more requests than the limit.
WindowsHold ==
  \A t \in Tenants : \A from \in Times : Admitted(t, from..(from + Window)) <= Limit

Invariant == LimitsTypeOK /\ StampsInOrder /\ WindowsHold /\ CountExact

-----------------------------------------------------------------------------
(* Sets of positions                                                       *)

\* Positions are finitely many, and fewer for fewer times.
LEMMA PositionsFinite ==
  ASSUME LimitsTypeOK, NEW t \in Tenants, NEW S, NEW T,
         \A i \in DOMAIN admitted[t] : admitted[t][i] \in S => admitted[t][i] \in T
  PROVE  /\ IsFiniteSet(At(t, S)) /\ Admitted(t, S) = Cardinality(At(t, S))
         /\ Admitted(t, S) \in Nat
         /\ Admitted(t, S) <= Admitted(t, T)
<1>1. admitted[t] \in Seq(Times) /\ Len(admitted[t]) \in Nat
  BY DEF LimitsTypeOK
<1>2. DOMAIN admitted[t] = 1..Len(admitted[t])
  BY <1>1
<1>3. IsFiniteSet(1..Len(admitted[t]))
  BY <1>1, FS_Interval
<1>4. IsFiniteSet(At(t, S)) /\ IsFiniteSet(At(t, T))
  <2>1. At(t, S) \in SUBSET (1..Len(admitted[t])) /\ At(t, T) \in SUBSET (1..Len(admitted[t]))
    BY <1>2 DEF At
  <2>2. QED
    BY <1>3, <2>1, FS_Subset
<1>5. Cardinality(At(t, S)) <= Cardinality(At(t, T))
  <2>1. At(t, S) \in SUBSET At(t, T)
    BY DEF At
  <2>2. QED
    BY <1>4, <2>1, FS_Subset
<1>6. QED
  BY <1>4, <1>5, FS_CardinalityType DEF At, Admitted

\* One more request adds one to the times it is among, and nothing to others.
LEMMA OneMore ==
  ASSUME LimitsTypeOK, NEW t \in Tenants, NEW S,
         admitted' = [admitted EXCEPT ![t] = Append(@, clock)]
  PROVE  Admitted(t, S)' = IF clock \in S THEN Admitted(t, S) + 1 ELSE Admitted(t, S)
<1> DEFINE n == Len(admitted[t]) + 1
<1>1. admitted[t] \in Seq(Times) /\ Len(admitted[t]) \in Nat /\ clock \in Times
  BY DEF LimitsTypeOK
<1>2. admitted'[t] = Append(admitted[t], clock)
  BY DEF LimitsTypeOK
<1>3. /\ DOMAIN admitted'[t] = (DOMAIN admitted[t]) \cup {n} /\ n \notin DOMAIN admitted[t]
      /\ admitted'[t][n] = clock
      /\ \A i \in DOMAIN admitted[t] : admitted'[t][i] = admitted[t][i]
  BY <1>1, <1>2
<1>4. IsFiniteSet(At(t, S)) /\ Admitted(t, S) = Cardinality(At(t, S)) /\ n \notin At(t, S)
  BY <1>3, PositionsFinite DEF At
<1>5. {i \in DOMAIN admitted'[t] : admitted'[t][i] \in S} =
        IF clock \in S THEN At(t, S) \cup {n} ELSE At(t, S)
  BY <1>3 DEF At
<1>6. Admitted(t, S)' = Cardinality(IF clock \in S THEN At(t, S) \cup {n} ELSE At(t, S))
  BY <1>5 DEF Admitted
<1>7. Cardinality(At(t, S) \cup {n}) = Cardinality(At(t, S)) + 1
  BY <1>4, FS_AddElement
<1>8. QED
  BY <1>4, <1>6, <1>7

-----------------------------------------------------------------------------
(* The middleware                                                          *)

\* A request that is let through finds room in the window that ends now, and so
\* in every window that it falls into.
LEMMA AdmissionKeepsRate ==
  ASSUME Invariant, NEW t \in Tenants, Allows(t),
         admitted' = [admitted EXCEPT ![t] = Append(@, clock)],
         oldest' = [oldest EXCEPT ![t] = Start], UNCHANGED clock
  PROVE  StampsInOrder' /\ WindowsHold'
<1>1. /\ LimitsTypeOK /\ clock \in Nat /\ Window \in Nat /\ Limit \in Nat
      /\ Start \in Nat /\ clock <= Start + Window /\ Start <= clock
      /\ (Start = 0 \/ Start = clock - Window)
  BY LimitsAssumption DEF Invariant, LimitsTypeOK, Times, Start
<1>2. /\ admitted[t] \in Seq(Times) /\ Len(admitted[t]) \in Nat
      /\ admitted'[t] = Append(admitted[t], clock) /\ oldest'[t] = Start
      /\ \A u \in Tenants : u # t => admitted'[u] = admitted[u] /\ oldest'[u] = oldest[u]
  BY DEF Invariant, LimitsTypeOK
<1>3. \A i \in DOMAIN admitted[t] : admitted[t][i] \in Nat /\ admitted[t][i] <= clock
  <2>1. \A i \in DOMAIN admitted[t] : admitted[t][i] \in Times
    BY <1>2
  <2>2. QED
    BY <2>1 DEF Invariant, StampsInOrder, Times
<1>4. StampsInOrder'
  <2> SUFFICES ASSUME NEW u \in Tenants, NEW i \in DOMAIN admitted'[u]
               PROVE  admitted'[u][i] <= clock /\ admitted'[u][i] <= oldest'[u] + Window
    BY DEF StampsInOrder
  <2>1. CASE u = t
    <3>1. CASE i = Len(admitted[t]) + 1
      BY <1>1, <1>2, <2>1, <3>1
    <3>2. CASE i # Len(admitted[t]) + 1
      <4>1. i \in DOMAIN admitted[t] /\ admitted'[t][i] = admitted[t][i]
        BY <1>2, <2>1, <3>2
      <4>2. QED
        BY <1>1, <1>2, <1>3, <2>1, <4>1
    <3>3. QED
      BY <3>1, <3>2
  <2>2. CASE u # t
    BY <1>2, <2>2 DEF Invariant, StampsInOrder
  <2>3. QED
    BY <2>1, <2>2
<1>5. WindowsHold'
  <2> SUFFICES ASSUME NEW u \in Tenants, NEW from \in Times
               PROVE  Admitted(u, from..(from + Window))' <= Limit
    BY DEF WindowsHold
  <2> DEFINE W == from..(from + Window)
  <2>1. CASE u # t
    <3>1. Admitted(u, W)' = Admitted(u, W)
      BY <1>2, <2>1 DEF Admitted
    <3>2. QED
      BY <3>1 DEF Invariant, WindowsHold
  <2>2. CASE u = t /\ clock \in W
    <3>1. Start <= from
      BY <1>1, <2>2 DEF Times
    <3>2. \A i \in DOMAIN admitted[t] : admitted[t][i] \in W => admitted[t][i] \in Start..clock
      BY <1>1, <1>3, <3>1 DEF Times
    <3>3. /\ Admitted(t, W) \in Nat /\ Admitted(t, W) <= Admitted(t, Start..clock)
          /\ Admitted(t, Start..clock) \in Nat
      BY <1>1, <3>2, PositionsFinite
    <3>4. Admitted(t, W)' = Admitted(t, W) + 1
      BY <1>1, <2>2, OneMore
    <3>5. QED
      BY <1>1, <2>2, <3>3, <3>4 DEF Allows
  <2>3. CASE u = t /\ clock \notin W
    <3>1. Admitted(t, W)' = Admitted(t, W)
      BY <1>1, <2>3, OneMore
    <3>2. QED
      BY <2>3, <3>1 DEF Invariant, WindowsHold
  <2>4. QED
    BY <2>1, <2>2, <2>3
<1>6. QED
  BY <1>4, <1>5

\* A request that is refused prunes the list, and no more than that.
LEMMA PruningKeepsRate ==
  ASSUME Invariant, NEW t \in Tenants, oldest' = [oldest EXCEPT ![t] = Start],
         UNCHANGED <<clock, admitted>>
  PROVE  StampsInOrder' /\ WindowsHold'
<1>1. clock \in Nat /\ Window \in Nat /\ Start \in Nat /\ clock <= Start + Window
  BY LimitsAssumption DEF Invariant, LimitsTypeOK, Times, Start
<1>2. /\ oldest'[t] = Start /\ \A u \in Tenants : u # t => oldest'[u] = oldest[u]
      /\ \A u \in Tenants : admitted[u] \in Seq(Times)
  BY DEF Invariant, LimitsTypeOK
<1>3. \A u \in Tenants : \A i \in DOMAIN admitted[u] : admitted[u][i] \in Nat
  <2> SUFFICES ASSUME NEW u \in Tenants, NEW i \in DOMAIN admitted[u] PROVE admitted[u][i] \in Times
    BY DEF Times
  <2>1. QED
    BY <1>2
<1>4. StampsInOrder'
  BY <1>1, <1>2, <1>3 DEF Invariant, StampsInOrder
<1>5. WindowsHold'
  BY DEF Invariant, WindowsHold, Admitted
<1>6. QED
  BY <1>4, <1>5

LEMMA HandlingFinite ==
  ASSUME NEW t PROVE IsFiniteSet(Handling(t)) /\ Cardinality(Handling(t)) \in Nat
  BY LimitsAssumption, FS_Subset, FS_CardinalityType DEF Handling

\* One more request raises the count, one that ends takes it to zero at most.
LEMMA CountGoesUp ==
  ASSUME LimitsTypeOK, NEW t \in Tenants, NEW n \in Int, reported' = reported,
         usage' = [usage EXCEPT ![t]["concurrent_requests"] = n],
         n >= 0 \/ (usage[t]["concurrent_requests"] # None /\ usage[t]["concurrent_requests"] <= n)
  PROVE  CountNotLowered'
<1> DEFINE old(u) == usage[u]["concurrent_requests"]
<1>1. ASSUME NEW u \in Tenants PROVE old(u) \in Int \cup {None}
  BY <1>1 DEF LimitsTypeOK, Resources
<1>2. /\ usage'[t]["concurrent_requests"] = n
      /\ \A u \in Tenants : u # t => usage'[u]["concurrent_requests"] = old(u)
  BY DEF LimitsTypeOK, Resources
<1>3. \A value \in Values : value \in Int
  BY LimitsAssumption
<1> SUFFICES ASSUME NEW u \in Tenants, usage'[u]["concurrent_requests"] # None
             PROVE  \/ usage'[u]["concurrent_requests"] >= 0
                    \/ u \in reported /\ \E value \in Values : value <= usage'[u]["concurrent_requests"]
  BY DEF CountNotLowered
<1>4. CASE u # t
  BY <1>2, <1>4 DEF LimitsTypeOK, CountNotLowered
<1>5. CASE u = t /\ n < 0
  <2>1. old(t) \in Int /\ old(t) # None /\ old(t) <= n /\ old(t) < 0
    BY <1>1, <1>5
  <2>2. old(t) >= 0 \/ (t \in reported /\ \E value \in Values : value <= old(t))
    <3>1. CountNotLowered
      BY DEF LimitsTypeOK
    <3>2. QED
      BY <2>1, <3>1 DEF CountNotLowered
  <2>3. PICK value \in Values : t \in reported /\ value <= old(t)
    BY <2>1, <2>2
  <2>4. QED
    BY <1>2, <1>3, <1>5, <2>1, <2>3
<1>6. CASE u = t /\ n >= 0
  BY <1>2, <1>6
<1>7. QED
  BY <1>4, <1>5, <1>6

LEMMA ArriveKeeps ==
  ASSUME Invariant, NEW r \in Requests, NEW t \in Tenants, Arrive(r, t)
  PROVE  Invariant'
<1>1. handling[r] = None /\ UNCHANGED <<clock, checks, serving, reported, alerted>>
      /\ oldest' = [oldest EXCEPT ![t] = Start] /\ Start \in Times
  BY LimitsAssumption DEF Arrive, Invariant, LimitsTypeOK, Start, Times
<1>2. CASE Allows(t)
  <2>1. /\ admitted' = [admitted EXCEPT ![t] = Append(@, clock)]
        /\ usage' = [usage EXCEPT ![t]["concurrent_requests"] =
                       Amount(t, "concurrent_requests", 0) + 1]
        /\ handling' = [handling EXCEPT ![r] = t]
    BY <1>2 DEF Arrive
  <2>2. Amount(t, "concurrent_requests", 0) \in Int
    BY DEF Amount, Invariant, LimitsTypeOK, Resources
  <2>3. LimitsTypeOK'
    <3>1. CountNotLowered'
      <4>1. Amount(t, "concurrent_requests", 0) + 1 \in Int
        BY <2>2
      <4>2. \/ Amount(t, "concurrent_requests", 0) + 1 >= 0
            \/ /\ usage[t]["concurrent_requests"] # None
               /\ usage[t]["concurrent_requests"] <= Amount(t, "concurrent_requests", 0) + 1
        BY <2>2 DEF Amount
      <4>3. QED
        BY <1>1, <2>1, <4>1, <4>2, CountGoesUp DEF Invariant
    <3>2. QED
      BY <1>1, <2>1, <2>2, <3>1 DEF Invariant, LimitsTypeOK, Resources
  <2>4. CountExact'
    <3> SUFFICES ASSUME NEW u \in Tenants \ reported
                 PROVE  Amount(u, "concurrent_requests", 0)' = Cardinality(Handling(u)')
      BY <1>1 DEF CountExact
    <3>1. Amount(u, "concurrent_requests", 0) = Cardinality(Handling(u))
      BY DEF Invariant, CountExact
    <3>2. CASE u = t
      <4>1. Handling(u)' = Handling(u) \cup {r} /\ r \notin Handling(u)
        BY <1>1, <2>1, <3>2, LimitsAssumption DEF Handling, Invariant, LimitsTypeOK
      <4>2. Amount(u, "concurrent_requests", 0)' = Amount(u, "concurrent_requests", 0) + 1
        BY <2>1, <2>2, <3>2, LimitsAssumption DEF Amount, Invariant, LimitsTypeOK, Resources
      <4>3. QED
        <5>1. IsFiniteSet(Handling(u)) /\ Cardinality(Handling(u)) \in Nat
          BY HandlingFinite
        <5>2. Cardinality(Handling(u) \cup {r}) = Cardinality(Handling(u)) + 1
          BY <4>1, <5>1, FS_AddElement
        <5>3. QED
          BY <3>1, <4>1, <4>2, <5>2
    <3>3. CASE u # t
      <4>1. Handling(u)' = Handling(u)
        BY <1>1, <2>1, <3>3, LimitsAssumption DEF Handling, Invariant, LimitsTypeOK
      <4>2. Amount(u, "concurrent_requests", 0)' = Amount(u, "concurrent_requests", 0)
        BY <2>1, <3>3 DEF Amount, Invariant, LimitsTypeOK
      <4>3. QED
        BY <3>1, <4>1, <4>2
    <3>4. QED
      BY <3>2, <3>3
  <2>5. QED
    BY <1>1, <1>2, <2>1, <2>3, <2>4, AdmissionKeepsRate DEF Invariant
<1>3. CASE ~Allows(t)
  <2>1. UNCHANGED <<admitted, usage, handling>>
    BY <1>3 DEF Arrive
  <2>2. LimitsTypeOK' /\ CountExact'
    BY <1>1, <2>1 DEF Invariant, CountNotLowered, LimitsTypeOK, CountExact, Amount, Handling
  <2>3. QED
    BY <1>1, <2>1, <2>2, PruningKeepsRate DEF Invariant
<1>4. QED
  BY <1>2, <1>3

LEMMA FinishKeeps ==
  ASSUME Invariant, NEW r \in Requests, Finish(r)
  PROVE  Invariant'
<1> DEFINE t == handling[r]
           count == Amount(t, "concurrent_requests", 1) - 1
<1>1. /\ t \in Tenants /\ t # None
      /\ usage' = [usage EXCEPT ![t]["concurrent_requests"] = IF count < 0 THEN 0 ELSE count]
      /\ handling' = [handling EXCEPT ![r] = None]
      /\ UNCHANGED <<clock, admitted, oldest, checks, serving, reported, alerted>>
  BY DEF Finish, Invariant, LimitsTypeOK
<1>2. Amount(t, "concurrent_requests", 1) \in Int
  BY <1>1 DEF Amount, Invariant, LimitsTypeOK, Resources
<1>3. LimitsTypeOK'
  <2>1. (IF count < 0 THEN 0 ELSE count) \in Int /\ (IF count < 0 THEN 0 ELSE count) >= 0
    BY <1>2
  <2>2. CountNotLowered'
    BY <1>1, <2>1, CountGoesUp DEF Invariant
  <2>3. QED
    BY <1>1, <1>2, <2>2 DEF Invariant, LimitsTypeOK, Resources
<1>4. CountExact'
  <2> SUFFICES ASSUME NEW u \in Tenants \ reported
               PROVE  Amount(u, "concurrent_requests", 0)' = Cardinality(Handling(u)')
    BY <1>1 DEF CountExact
  <2>1. Amount(u, "concurrent_requests", 0) = Cardinality(Handling(u))
    BY DEF Invariant, CountExact
  <2>2. CASE u = t
    <3>1. Handling(u)' = Handling(u) \ {r} /\ r \in Handling(u)
      BY <1>1, <2>2, LimitsAssumption DEF Handling, Invariant, LimitsTypeOK
    <3>2. Cardinality(Handling(u)) # 0
      BY <3>1, HandlingFinite, FS_EmptySet
    <3>3. usage[t]["concurrent_requests"] = Cardinality(Handling(u)) /\ usage[t]["concurrent_requests"] # None
      BY <2>1, <2>2, <3>2 DEF Amount
    <3>4. Amount(u, "concurrent_requests", 0)' = Cardinality(Handling(u)) - 1
      BY <1>1, <2>2, <3>2, <3>3, HandlingFinite, LimitsAssumption
      DEF Amount, Invariant, LimitsTypeOK, Resources
    <3>5. QED
      BY <3>1, <3>4, HandlingFinite, FS_RemoveElement
  <2>3. CASE u # t
    <3>1. Handling(u)' = Handling(u)
      BY <1>1, <2>3, LimitsAssumption DEF Handling, Invariant, LimitsTypeOK
    <3>2. Amount(u, "concurrent_requests", 0)' = Amount(u, "concurrent_requests", 0)
      BY <1>1, <2>3 DEF Amount, Invariant, LimitsTypeOK
    <3>3. QED
      BY <2>1, <3>1, <3>2
  <2>4. QED
    BY <2>2, <2>3
<1>5. StampsInOrder' /\ WindowsHold'
  BY <1>1 DEF Invariant, StampsInOrder, WindowsHold, Admitted
<1>6. QED
  BY <1>3, <1>4, <1>5 DEF Invariant

-----------------------------------------------------------------------------
(* Reports, checks and the clock                                           *)

\* A report of the concurrent requests is outside the claim on their count.
LEMMA ReportKeeps ==
  ASSUME Invariant, NEW r \in Requests, NEW t \in Tenants, NEW x \in Resources,
         NEW value \in Values, Report(r, t, x, value)
  PROVE  Invariant'
<1>1. LimitsTypeOK'
  <2>1. CountNotLowered'
    <3> SUFFICES ASSUME NEW u \in Tenants, usage'[u]["concurrent_requests"] # None
                 PROVE  \/ usage'[u]["concurrent_requests"] >= 0
                        \/ /\ u \in reported'
                           /\ \E v \in Values : v <= usage'[u]["concurrent_requests"]
      BY DEF CountNotLowered
    <3>1. value \in Int /\ reported \subseteq reported' /\ usage' = [usage EXCEPT ![t][x] = value]
      BY LimitsAssumption DEF Report
    <3>2. CASE u = t /\ x = "concurrent_requests"
      <4>1. usage'[u]["concurrent_requests"] = value /\ u \in reported'
        BY <3>1, <3>2 DEF Report, Invariant, LimitsTypeOK, Resources
      <4>2. QED
        BY <3>1, <4>1
    <3>3. CASE ~(u = t /\ x = "concurrent_requests")
      <4>1. usage'[u]["concurrent_requests"] = usage[u]["concurrent_requests"]
        BY <3>1, <3>3 DEF Invariant, LimitsTypeOK, Resources
      <4>2. QED
        BY <3>1, <4>1 DEF Invariant, LimitsTypeOK, CountNotLowered
    <3>4. QED
      BY <3>2, <3>3
  <2>2. QED
    BY <2>1, LimitsAssumption DEF Report, Invariant, LimitsTypeOK
<1>2. StampsInOrder' /\ WindowsHold'
  BY DEF Report, Invariant, StampsInOrder, WindowsHold, Admitted
<1>3. CountExact'
  BY DEF Report, Invariant, LimitsTypeOK, CountExact, Amount, Handling, Resources
<1>4. QED
  BY <1>1, <1>2, <1>3 DEF Invariant

\* Checks and the end of the process write no usage, the clock moves on.
LEMMA OthersKeep ==
  ASSUME Invariant,
         \/ \E t \in Tenants, x \in Resources : CheckReported(t, x)
         \/ CheckAll \/ Shutdown \/ Tick \/ UNCHANGED limitsVars
  PROVE  Invariant'
<1>1. clock \in Times /\ MaxTime \in Nat
  BY LimitsAssumption DEF Invariant, LimitsTypeOK
<1>2. UNCHANGED <<admitted, oldest, handling, usage, reported>>
  BY DEF CheckReported, CheckAll, Shutdown, Tick, limitsVars
<1>3. clock' = clock \/ (clock' = clock + 1 /\ clock < MaxTime)
  <2>1. CASE Tick
    BY <2>1 DEF Tick
  <2>2. CASE ~Tick
    BY <2>2 DEF CheckReported, CheckAll, Shutdown, limitsVars
  <2>3. QED
    BY <2>1, <2>2
<1>4. /\ UNCHANGED <<admitted, oldest, handling, usage, reported>>
      /\ clock' \in {clock, clock + 1} /\ clock' \in Times
  BY <1>1, <1>2, <1>3 DEF Times
<1>5. LimitsTypeOK'
  BY <1>4
  DEF CountNotLowered, CheckReported, CheckAll, Shutdown, Tick, limitsVars, Alerting, Invariant, LimitsTypeOK
<1>6. StampsInOrder'
  BY <1>4, LimitsAssumption DEF Invariant, StampsInOrder, LimitsTypeOK, Times
<1>7. WindowsHold' /\ CountExact'
  BY <1>4 DEF Invariant, WindowsHold, Admitted, CountExact, Amount, Handling
<1>8. QED
  BY <1>5, <1>6, <1>7 DEF Invariant

LEMMA InitInvariant == Init => Invariant
<1> SUFFICES ASSUME Init PROVE Invariant
  OBVIOUS
<1>1. LimitsTypeOK /\ StampsInOrder
  BY LimitsAssumption DEF Init, LimitsTypeOK, CountNotLowered, StampsInOrder, Resources, Times
<1>2. WindowsHold
  <2> SUFFICES ASSUME NEW t \in Tenants, NEW S PROVE Admitted(t, S) <= Limit
    BY DEF WindowsHold
  <2>1. {i \in DOMAIN admitted[t] : admitted[t][i] \in S} = {}
    BY DEF Init
  <2>2. QED
    BY <2>1, FS_EmptySet, LimitsAssumption DEF Admitted
<1>3. CountExact
  <2> SUFFICES ASSUME NEW t \in Tenants PROVE Amount(t, "concurrent_requests", 0) = Cardinality(Handling(t))
    BY DEF CountExact
  <2>1. Handling(t) = {}
    BY LimitsAssumption DEF Init, Handling
  <2>2. QED
    BY <2>1, FS_EmptySet DEF Init, Amount, Resources
<1>4. QED
  BY <1>1, <1>2, <1>3 DEF Invariant

LEMMA NextInvariant == Invariant /\ [Next]_limitsVars => Invariant'
  BY ArriveKeeps, FinishKeeps, ReportKeeps, OthersKeep DEF Next

-----------------------------------------------------------------------------
\* The usage tables keep their types, whatever numbers are reported, negative ones
\* too; the count of concurrent requests is below zero only after somebody reported
\* such a number, and never below all that was reported (metrics_middleware,
\* report_resource_usage).
THEOREM LimitsTypeCorrect == Spec => []LimitsTypeOK
  BY InitInvariant, NextInvariant, PTL DEF Spec, Invariant

\* No window of any length, wherever it begins, holds more admitted requests of
\* a tenant than its limit, and the requests per minute that a tenant is shown
\* never exceed it, though they count timestamps that are older than a window
\* (check_rate_limit, get_tenant_usage).
THEOREM RateAlwaysHolds == Spec => []RateHolds
<1>1. Invariant => RateHolds
  <2> SUFFICES ASSUME Invariant, NEW t \in Tenants PROVE RequestsPerMinute(t) <= Limit
    BY DEF RateHolds, Invariant, WindowsHold
  <2>1. oldest[t] \in Times /\ clock \in Times /\ Window \in Nat /\ Limit \in Nat
    BY LimitsAssumption DEF Invariant, LimitsTypeOK
  <2>2. \A i \in DOMAIN admitted[t] :
          admitted[t][i] \in oldest[t]..clock => admitted[t][i] \in oldest[t]..(oldest[t] + Window)
    BY <2>1 DEF Invariant, StampsInOrder, Times
  <2>3. /\ RequestsPerMinute(t) <= Admitted(t, oldest[t]..(oldest[t] + Window))
        /\ RequestsPerMinute(t) \in Nat
    BY <2>2, PositionsFinite DEF Invariant, RequestsPerMinute
  <2>4. /\ Admitted(t, oldest[t]..(oldest[t] + Window)) <= Limit
        /\ Admitted(t, oldest[t]..(oldest[t] + Window)) \in Nat
    BY <2>1, PositionsFinite DEF Invariant, WindowsHold
  <2>5. QED
    BY <2>1, <2>3, <2>4
<1>2. QED
  BY <1>1, InitInvariant, NextInvariant, PTL DEF Spec

\* Unless a tenant reports the number itself, its count of concurrent requests
\* is the number of its requests under way, in whatever order requests of all
\* tenants arrive, are refused and end (metrics_middleware).
THEOREM CountAlwaysExact == Spec => []CountExact
  BY InitInvariant, NextInvariant, PTL DEF Spec, Invariant
==============================================================================
