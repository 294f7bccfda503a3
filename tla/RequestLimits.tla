---------------------------- MODULE RequestLimits ---------------------------
(***************************************************************************)
(* The request accounting of the monitoring server (server.py): the        *)
(* middleware that every request passes, the usage that tenants report,    *)
(* and the checks that raise alerts.                                       *)
(*                                                                         *)
(* The middleware is suspended while the request is handled, so requests   *)
(* interleave between its two halves; the periodic check and the handlers  *)
(* run to the end. Time is counted in ticks.                               *)
(***************************************************************************)
EXTENDS Integers, Sequences, FiniteSets

CONSTANTS
  Requests,   \* requests that can be under way at the same time
  Tenants,    \* values of X-Tenant-ID and of the tenant in a path
  Values,     \* what may be reported: any numbers
  Limit,      \* max_requests_per_minute
  Contexts,   \* max_contexts
  Window,     \* window_seconds
  MaxTime,    \* bound on the clock
  None

ASSUME LimitsAssumption ==
  /\ IsFiniteSet(Requests)
  /\ Values \subseteq Int
  /\ {Limit, Contexts, Window, MaxTime} \subseteq Nat
  /\ None \notin Int \cup Tenants

VARIABLES
  clock,
  admitted,   \* history: when each request of a tenant was admitted, in order
  oldest,     \* the first time that request_timestamps still holds
  handling,   \* the tenant of each request between the halves of the middleware
  usage,      \* tenant_usage
  checks,     \* checks that background_tasks still has to run
  serving,    \* the lifespan, between its startup and its shutdown
  reported,   \* history: tenants whose concurrent_requests was reported
  alerted     \* history: resources that were alerted about since they last changed

limitsVars == <<clock, admitted, oldest, handling, usage, checks, serving, reported, alerted>>

Times == 0..MaxTime

\* A request is counted under a name that no limit has.
Resources == {"max_contexts", "concurrent_requests"}

\* The count of concurrent requests is never below zero, unless
\* report_resource_usage, which takes any number, put it there, and then no lower
\* than it did: giving requests back takes it to zero at most.
CountNotLowered ==
  \A t \in Tenants :
    LET count == usage[t]["concurrent_requests"]
    IN  count # None =>
          count >= 0 \/ (t \in reported /\ \E value \in Values : value <= count)

\* The types of the variables, and that.
LimitsTypeOK ==
  /\ clock \in Times
  /\ admitted \in [Tenants -> Seq(Times)]
  /\ oldest \in [Tenants -> Times]
  /\ handling \in [Requests -> Tenants \cup {None}]
  /\ usage \in [Tenants -> [Resources -> Int \cup {None}]]
  /\ checks \subseteq Tenants \X Resources
  /\ serving \in BOOLEAN
  /\ reported \subseteq Tenants
  /\ alerted \subseteq Tenants \X Resources
  /\ CountNotLowered

Init ==
  /\ clock = 0
  /\ admitted = [t \in Tenants |-> << >>]
  /\ oldest = [t \in Tenants |-> 0]
  /\ handling = [r \in Requests |-> None]
  /\ usage = [t \in Tenants |-> [x \in Resources |-> None]]
  /\ checks = {}
  /\ serving = TRUE
  /\ reported = {}
  /\ alerted = {}

-----------------------------------------------------------------------------
\* How many requests of t were admitted at some times.
Admitted(t, times) == Cardinality({i \in DOMAIN admitted[t] : admitted[t][i] \in times})

\* The first time that is within the window now.
Start == IF clock < Window THEN 0 ELSE clock - Window

\* Faulty comparison: the limit itself is exceeded by one.
AllowsOneMore(t) == Admitted(t, Start..clock) <= Limit

\* check_rate_limit: fewer than the limit within the window, both ends included.
Allows(t) == Admitted(t, Start..clock) < Limit

Amount(t, x, default) == IF usage[t][x] = None THEN default ELSE usage[t][x]

\* Faulty count: the middleware counts before it checks the rate.
ArriveCounted(r, t) ==
  /\ serving
  /\ handling[r] = None
  /\ oldest' = [oldest EXCEPT ![t] = Start]
  /\ usage' = [usage EXCEPT ![t]["concurrent_requests"] = Amount(t, "concurrent_requests", 0) + 1]
  /\ IF Allows(t)
     THEN /\ admitted' = [admitted EXCEPT ![t] = Append(@, clock)]
          /\ handling' = [handling EXCEPT ![r] = t]
     ELSE UNCHANGED <<admitted, handling>>
  /\ UNCHANGED <<clock, checks, serving, reported, alerted>>

\* metrics_middleware up to call_next: a request over the limit is answered 429
\* and not counted.
Arrive(r, t) ==
  /\ serving
  /\ handling[r] = None
  /\ oldest' = [oldest EXCEPT ![t] = Start]
  /\ IF Allows(t)
     THEN /\ admitted' = [admitted EXCEPT ![t] = Append(@, clock)]
          /\ usage' = [usage EXCEPT ![t]["concurrent_requests"] =
                         Amount(t, "concurrent_requests", 0) + 1]
          /\ handling' = [handling EXCEPT ![r] = t]
     ELSE UNCHANGED <<admitted, usage, handling>>
  /\ UNCHANGED <<clock, checks, serving, reported, alerted>>

\* Faulty count: nothing keeps it from falling below zero after a report.
FinishUnguarded(r) ==
  /\ handling[r] # None
  /\ LET t == handling[r]
     IN  usage' = [usage EXCEPT ![t]["concurrent_requests"] =
                     Amount(t, "concurrent_requests", 1) - 1]
  /\ handling' = [handling EXCEPT ![r] = None]
  /\ UNCHANGED <<clock, admitted, oldest, checks, serving, reported, alerted>>

\* The finally of metrics_middleware, whether or not the handler raised.
Finish(r) ==
  /\ handling[r] # None
  /\ LET t == handling[r]
         count == Amount(t, "concurrent_requests", 1) - 1
     IN  usage' = [usage EXCEPT ![t]["concurrent_requests"] = IF count < 0 THEN 0 ELSE count]
  /\ handling' = [handling EXCEPT ![r] = None]
  /\ UNCHANGED <<clock, admitted, oldest, checks, serving, reported, alerted>>

\* report_resource_usage, for any tenant, whatever tenant the request is for, and
\* for any value: a negative one is stored like the others.
Report(r, t, x, value) ==
  /\ handling[r] # None
  /\ usage' = [usage EXCEPT ![t][x] = value]
  /\ checks' = checks \cup {<<t, x>>}
  /\ reported' = IF x = "concurrent_requests" THEN reported \cup {t} ELSE reported
  /\ alerted' = alerted \ {<<t, x>>}
  /\ UNCHANGED <<clock, admitted, oldest, handling, serving>>

\* Faulty ratio: only what is over the limit is alerted about.
OverLimit(t, x) == x = "max_contexts" /\ usage[t][x] # None /\ usage[t][x] > Contexts

\* At 80% of a limit. A limit of zero, or none under that name, alerts nobody.
OverThreshold(t, x) ==
  x = "max_contexts" /\ usage[t][x] # None /\ Contexts > 0 /\ usage[t][x] * 10 >= Contexts * 8

Alerting(over) == alerted' = alerted \cup {o \in over : OverThreshold(o[1], o[2])}

\* check_resource_limits, after the response that it was scheduled with.
CheckReported(t, x) ==
  /\ <<t, x>> \in checks
  /\ Alerting({<<t, x>>})
  /\ checks' = checks \ {<<t, x>>}
  /\ UNCHANGED <<clock, admitted, oldest, handling, usage, serving, reported>>

\* A round of periodic_resource_check.
CheckAll ==
  /\ serving
  /\ Alerting(Tenants \X Resources)
  /\ UNCHANGED <<clock, admitted, oldest, handling, usage, checks, serving, reported>>

\* The requests per minute of get_tenant_usage: the timestamps that are kept.
RequestsPerMinute(t) == Admitted(t, oldest[t]..clock)

\* lifespan: the periodic check is cancelled; requests under way end.
Shutdown ==
  /\ serving
  /\ serving' = FALSE
  /\ UNCHANGED <<clock, admitted, oldest, handling, usage, checks, reported, alerted>>

Tick ==
  /\ clock < MaxTime
  /\ clock' = clock + 1
  /\ UNCHANGED <<admitted, oldest, handling, usage, checks, serving, reported, alerted>>

Next ==
  \/ \E r \in Requests, t \in Tenants :
       \/ Arrive(r, t)
       \/ \E x \in Resources, value \in Values : Report(r, t, x, value)
  \/ \E r \in Requests : Finish(r)
  \/ \E t \in Tenants, x \in Resources : CheckReported(t, x)
  \/ CheckAll
  \/ Shutdown
  \/ Tick

Spec == Init /\ [][Next]_limitsVars

\* The event loop runs what is ready: the background tasks, and the sleeping
\* check when it wakes up. Handlers need not end.
FairSpec ==
  /\ Spec
  /\ \A t \in Tenants, x \in Resources : WF_limitsVars(CheckReported(t, x))
  /\ WF_limitsVars(CheckAll)

-----------------------------------------------------------------------------
(* Properties                                                              *)

Handling(t) == {r \in Requests : handling[r] = t}

\* A tenant is admitted no more requests in any window than its limit, and is
\* never shown more of them, though timestamps stay until its next request.
RateHolds ==
  \A t \in Tenants :
    /\ \A from \in Times : Admitted(t, from..(from + Window)) <= Limit
    /\ RequestsPerMinute(t) <= Limit

\* The count of concurrent requests is exact for a tenant unless somebody
\* reported that resource: every way out of a handler gives its request back.
CountExact ==
  \A t \in Tenants \ reported :
    Amount(t, "concurrent_requests", 0) = Cardinality(Handling(t))

High(t) == usage[t]["max_contexts"] # None /\ 10 * usage[t]["max_contexts"] >= 8 * Contexts

\* A use of 80% or more of a limit that is reported is alerted about, by the
\* check that the report schedules or by the periodic one, shutdown or not.
ReportsAreAlerted ==
  \A t \in Tenants :
    Contexts > 0 /\ High(t) ~> <<t, "max_contexts">> \in alerted \/ ~High(t)
=============================================================================
