------------------------------ MODULE CodeMode ------------------------------
(***************************************************************************)
(* Code Mode (api_codemode.py, codemode_tools.py, audit.py): code posted by*)
(* an agent is run by the gateway itself, at once or after an approval, and*)
(* logged in codemode_audit. What the code does is abstracted to whether   *)
(* it ends with a value that json.dumps accepts.                           *)
(*                                                                         *)
(* The handlers are coroutines that never await: while code runs nothing   *)
(* else does, but the process may die. A policy rule whose name contains   *)
(* "approval" turns an allow into a wait for an admin, who does not go     *)
(* through the policy again.                                               *)
(***************************************************************************)
EXTENDS AuthzStore, PolicyEngine

CONSTANTS
  Events,        \* submissions; also their event_id
  CodeExecute,   \* the action "codemode:execute"
  ApprovalNames, \* rule names that contain "approval"
  Global,        \* "_global", the tenant of a token without one
  AdminPayloads, \* rows an admin may post
  MaxRuns        \* bound on how often one submission is run

VARIABLES
  events,    \* codemode_audit: event -> row, None when there is none
  running,   \* the submission whose code is being run, and why, or None
  verdict,   \* history: what the policy said of a submission, or None
  approved,  \* history: the submissions an admin took up
  runs,      \* history: how often the code of a submission was started
  cut        \* history: how often a run ended without its record

codeVars == <<tokens, rules, events, running, verdict, approved, runs, cut>>
logVars == <<verdict, approved, runs, cut>>

Purposes == {"search", "execute", "approve"}

EventRow == [tenant : Tenants,
             action : {"search", "execute"},
             policy : {"allow", "deny", "pending_approval"},
             status : {"completed", "pending_approval", "denied"}]

Run == [event : Events, purpose : Purposes, tenant : Tenants]

Evaluation == [decision : Effects, rule : RuleNames \cup {None}]

CodeTypeOK ==
  /\ TokensTypeOK
  /\ RulesTypeOK
  /\ events \in [Events -> EventRow \cup {None}]
  /\ running \in Run \cup {None}
  /\ verdict \in [Events -> Evaluation \cup {None}]
  /\ approved \subseteq Events
  /\ runs \in [Events -> 0..MaxRuns]
  /\ cut \in [Events -> 0..MaxRuns]

ASSUME CodeAssumption ==
  /\ ApprovalNames \subseteq RuleNames
  /\ Global \in Tenants
  /\ CodeExecute \in Methods
  /\ AdminPayloads \subseteq TokenRow
  /\ MaxRuns \in Nat
  /\ None \notin EventRow \cup Evaluation \cup Run

CodeInit ==
  /\ AuthzInit
  /\ PolicyInit
  /\ events = [e \in Events |-> None]
  /\ running = None
  /\ verdict = [e \in Events |-> None]
  /\ approved = {}
  /\ runs = [e \in Events |-> 0]
  /\ cut = [e \in Events |-> 0]

-----------------------------------------------------------------------------
TokenTenant(t) == IF tokens[t].tenant = None THEN Global ELSE tokens[t].tenant

\* CodeModeExecutor begins to run the code of e.
Start(e, purpose, tenant) ==
  /\ runs[e] < MaxRuns
  /\ running' = [event |-> e, purpose |-> purpose, tenant |-> tenant]
  /\ runs' = [runs EXCEPT ![e] = @ + 1]

\* AuditLogger.log
Log(e, tenant, action, policy, status) ==
  events' = [events EXCEPT ![e] =
    [tenant |-> tenant, action |-> action, policy |-> policy, status |-> status]]

\* AuditLogger.update_status
UpdateStatus(e, status) == events' = [events EXCEPT ![e].status = status]

\* A submission is new: its event_id is a fresh uuid4.
Fresh(e) == events[e] = None /\ runs[e] = 0

\* POST /codemode/search: no policy check.
Search(t, e) ==
  /\ running = None
  /\ Fresh(e)
  /\ Permitted(t, "gateway:codemode:search", None)
  /\ Start(e, "search", TokenTenant(t))
  /\ UNCHANGED <<tokens, rules, events, verdict, approved, cut>>

\* codemode_execute admits the caller, for the tenant of its token.
MayExecuteCode(t) ==
  running = None /\ Permitted(t, "gateway:codemode:execute", None)

\* Faulty gate: the approval convention is looked at before the decision.
ExecuteApprovalFirst(t, e, s) ==
  LET tenant == TokenTenant(t)
      said == Evaluate(rules, [action |-> CodeExecute, resource |-> s, tenant |-> tenant])
  IN
  /\ MayExecuteCode(t)
  /\ Fresh(e)
  /\ verdict' = [verdict EXCEPT ![e] = said]
  /\ IF said.rule \in ApprovalNames
       THEN Log(e, tenant, "execute", "pending_approval", "pending_approval") /\ UNCHANGED <<running, runs>>
       ELSE IF said.decision = "deny"
              THEN Log(e, tenant, "execute", "deny", "denied") /\ UNCHANGED <<running, runs>>
              ELSE Start(e, "execute", tenant) /\ UNCHANGED events
  /\ UNCHANGED <<tokens, rules, approved, cut>>

\* POST /codemode/execute: denied, parked for an approval, or run at once.
ExecuteCode(t, e, s) ==
  LET tenant == TokenTenant(t)
      said == Evaluate(rules, [action |-> CodeExecute, resource |-> s, tenant |-> tenant])
  IN
  /\ MayExecuteCode(t)
  /\ Fresh(e)
  /\ verdict' = [verdict EXCEPT ![e] = said]
  /\ \/ /\ said.decision = "deny"
        /\ Log(e, tenant, "execute", "deny", "denied")
        /\ UNCHANGED <<running, runs>>
     \/ /\ said.decision = "allow" /\ said.rule \in ApprovalNames
        /\ Log(e, tenant, "execute", "pending_approval", "pending_approval")
        /\ UNCHANGED <<running, runs>>
     \/ /\ said.decision = "allow" /\ said.rule \notin ApprovalNames
        /\ Start(e, "execute", tenant)
        /\ UNCHANGED events
  /\ UNCHANGED <<tokens, rules, approved, cut>>

\* codemode_approve: an admin names an event that is there.
MayApprove(t, e) == running = None /\ IsAdmin(t) /\ events[e] # None

\* Faulty approval: any event but a denied one can be taken up.
ApproveUnlessDenied(t, e) ==
  /\ MayApprove(t, e)
  /\ events[e].status # "denied"
  /\ Start(e, "approve", events[e].tenant)
  /\ approved' = approved \cup {e}
  /\ UNCHANGED <<tokens, rules, events, verdict, cut>>

\* Faulty approval: a status of its own while the code runs.
ApproveMarking(t, e) ==
  /\ MayApprove(t, e)
  /\ events[e].status = "pending_approval"
  /\ Start(e, "approve", events[e].tenant)
  /\ UpdateStatus(e, "approved")
  /\ approved' = approved \cup {e}
  /\ UNCHANGED <<tokens, rules, verdict, cut>>

\* POST /codemode/approve/{event_id}: any other status is answered with an error.
Approve(t, e) ==
  /\ MayApprove(t, e)
  /\ events[e].status = "pending_approval"
  /\ Start(e, "approve", events[e].tenant)
  /\ approved' = approved \cup {e}
  /\ UNCHANGED <<tokens, rules, events, verdict, cut>>

\* The code ends, with a result or an error: update_status or log.
Finish ==
  /\ running # None
  /\ running' = None
  /\ LET e == running.event IN
     \/ running.purpose = "approve" /\ UpdateStatus(e, "completed")
     \/ running.purpose # "approve" /\ Log(e, running.tenant, running.purpose, "allow", "completed")
  /\ UNCHANGED <<tokens, rules, logVars>>

\* The code ends with a value json.dumps refuses: TypeError, and no record.
FinishUnserialisable ==
  /\ running # None
  /\ running' = None
  /\ cut' = [cut EXCEPT ![running.event] = @ + 1]
  /\ UNCHANGED <<tokens, rules, events, verdict, approved, runs>>

\* The process dies, with the code it was running, and is started again.
CodeCrash ==
  /\ running' = None
  /\ cut' = IF running = None THEN cut ELSE [cut EXCEPT ![running.event] = @ + 1]
  /\ UpsertToken(AdminToken, BootstrapRow)
  /\ UNCHANGED <<rules, events, verdict, approved, runs>>

\* The management handlers of the gateway, which share the two tables.
ManageTokens ==
  /\ running = None
  /\ \/ \E t \in Tokens, row \in AdminPayloads : UpsertToken(t, row)
     \/ \E t \in Tokens : RevokeToken(t)
  /\ UNCHANGED <<rules, events, running, logVars>>

ManageRules ==
  /\ running = None
  /\ \/ \E rule \in RulePayloads : AddRule(rule)
     \/ \E name \in RuleNames : RemoveRule(name)
  /\ UNCHANGED <<tokens, events, running, logVars>>

CodeNext ==
  \/ \E t \in Tokens, e \in Events :
       \/ Search(t, e)
       \/ \E s \in Servers : ExecuteCode(t, e, s)
       \/ Approve(t, e)
  \/ Finish
  \/ FinishUnserialisable
  \/ CodeCrash
  \/ ManageTokens
  \/ ManageRules

CodeSpec == CodeInit /\ [][CodeNext]_codeVars

-----------------------------------------------------------------------------
(* Properties                                                              *)

\* Code that was submitted for execution runs only if the policy allowed it
\* when it was submitted and, when the deciding rule asks for it, an admin has
\* taken it up - whatever rules were added, removed or rewritten since.
GateHolds ==
  \A e \in Events :
    runs[e] > 0 /\ verdict[e] # None =>
      /\ verdict[e].decision = "allow"
      /\ verdict[e].rule \in ApprovalNames => e \in approved

\* A submission is run a second time only when an earlier run was cut off
\* before its record was written.
RunsOncePerRecord ==
  \A e \in Events :
    /\ runs[e] <= 1 + cut[e]
    /\ events[e] # None /\ events[e].status = "completed"
         /\ (running = None \/ running.event # e) => runs[e] = 1 + cut[e]

\* A record that says completed or denied is final: its code does not run again.
ClosedEventsStayClosed ==
  [][\A e \in Events :
       events[e] # None /\ events[e].status # "pending_approval" =>
         events'[e] = events[e] /\ runs'[e] = runs[e]]_codeVars
=============================================================================
