------------------------- MODULE MCContextManagers --------------------------
(***************************************************************************)
(* services/context_manager.py holds two classes named MCPContextManager.  *)
(* A process has one of them: this module chooses one, and runs it.        *)
(***************************************************************************)
EXTENDS Naturals, FiniteSets

CONSTANTS
  Tenants, TenantContextIds, TenantRequests, MaxContexts, MaxMemory, Workers,
  Contexts, Requests

ASSUME ManagersAssumption ==
  {MaxContexts, MaxMemory} \subseteq Nat /\ IsFiniteSet(Requests)

VARIABLES
  draft,
  contexts, metadata, count, memory, idle, run, pool,
  row, obj, inSession, dying, broken, mem, lock, call, undone, deleted,
  used

Tenant == INSTANCE TenantContexts WITH
            Contexts <- TenantContextIds, Requests <- TenantRequests
Inference == INSTANCE InferenceContexts

tenantVars == <<contexts, metadata, count, memory, idle, run, pool>>
inferenceVars == <<row, obj, inSession, dying, broken, mem, lock, call, undone, deleted>>
vars == <<draft, tenantVars, inferenceVars, used>>

Init ==
  \/ /\ draft = "tenant" /\ Tenant!Init
     /\ row = {} /\ obj = {} /\ inSession = {} /\ dying = {} /\ broken = FALSE
     /\ mem = {} /\ lock = {} /\ call = {} /\ undone = {} /\ deleted = {}
  \/ /\ draft = "inference" /\ Inference!Init
     /\ contexts = {} /\ metadata = {} /\ count = 0 /\ memory = 0 /\ idle = {}
     /\ run = [r \in TenantRequests |-> Tenant!None] /\ pool = "none"

NextTenant == draft = "tenant" /\ Tenant!Next /\ UNCHANGED <<draft, inferenceVars>>
NextInference == draft = "inference" /\ Inference!Next /\ UNCHANGED <<draft, tenantVars>>

Next == NextTenant \/ NextInference

(* The fairness of the class that has threads.                             *)
Fair(A) == draft = "tenant" /\ A /\ UNCHANGED <<draft, inferenceVars>>

FairSpec ==
  /\ Init /\ [][Next]_vars
  /\ \A r \in TenantRequests :
       /\ WF_vars(Fair(Tenant!TaskEnds(r))) /\ WF_vars(Fair(Tenant!Answer(r)))
       /\ SF_vars(Fair(Tenant!TaskStarts(r)))
  /\ WF_vars(Fair(Tenant!PoolShut))
-----------------------------------------------------------------------------
(* The state of the chosen class has its type.                             *)
ContextsTypeOK ==
  /\ draft = "tenant" => Tenant!TenantContextsTypeOK
  /\ draft = "inference" => Inference!InferenceTypeOK

(* The limits hold for what a tenant really has: TenantContexts.           *)
CountersExact == draft = "tenant" => Tenant!CountersExact

(* Every inference is answered: TenantContexts.                            *)
InferencesEnd == \A r \in TenantRequests : run[r].at # "none" ~> run[r].at = "none"

(* What is unfinished in the database has its owner: InferenceContexts.    *)
UnfinishedHasOwner == draft = "inference" => Inference!UnfinishedHasOwner

(* One inference at a time on a context: InferenceContexts.                *)
InferenceIsExclusive == draft = "inference" => Inference!InferenceIsExclusive
=============================================================================
