----------------------------- MODULE Gatekeeper -----------------------------
(***************************************************************************)
(* What the gateway promises about each request, without saying how it     *)
(* decides: a request is settled once; it is forwarded only on an "allow"  *)
(* verdict; the verdict does not change while the call is out; and each    *)
(* request leaves exactly one ledger line, carrying the verdict it was     *)
(* decided on - unless it was refused outright, or the gateway went down   *)
(* while the call was out.                                                 *)
(***************************************************************************)
CONSTANTS
  Requests,   \* request identifiers, each used once
  Verdicts,   \* what the gateway may decide about a request
  Allowing,   \* the verdicts that let a call through
  NoVerdict

VARIABLES phase, verdict, ledger

gatekeeperVars == <<phase, verdict, ledger>>

Init ==
  /\ phase = [r \in Requests |-> "new"]
  /\ verdict = [r \in Requests |-> NoVerdict]
  /\ ledger = {}

\* Turned away before any decision: no ledger line.
Refuse(r) ==
  /\ phase[r] = "new"
  /\ phase' = [phase EXCEPT ![r] = "refused"]
  /\ UNCHANGED <<verdict, ledger>>

\* Decided and answered without a call: denied, planned or not deliverable.
Settle(r, v) ==
  /\ phase[r] = "new"
  /\ phase' = [phase EXCEPT ![r] = "closed"]
  /\ verdict' = [verdict EXCEPT ![r] = v]
  /\ ledger' = ledger \cup {<<r, v>>}

\* Decided and forwarded to the server.
Forward(r, v) ==
  /\ phase[r] = "new"
  /\ v \in Allowing
  /\ phase' = [phase EXCEPT ![r] = "forwarded"]
  /\ verdict' = [verdict EXCEPT ![r] = v]
  /\ UNCHANGED ledger

\* The call is over, whatever its outcome.
Record(r) ==
  /\ phase[r] = "forwarded"
  /\ phase' = [phase EXCEPT ![r] = "closed"]
  /\ ledger' = ledger \cup {<<r, verdict[r]>>}
  /\ UNCHANGED verdict

\* The gateway goes down: the calls that are out are never recorded.
GoDown ==
  /\ phase' = [r \in Requests |-> IF phase[r] = "forwarded" THEN "lost" ELSE phase[r]]
  /\ UNCHANGED <<verdict, ledger>>

Next ==
  \/ \E r \in Requests :
       \/ Refuse(r)
       \/ Record(r)
       \/ \E v \in Verdicts : Settle(r, v) \/ Forward(r, v)
  \/ GoDown

Spec == Init /\ [][Next]_gatekeeperVars
=============================================================================
