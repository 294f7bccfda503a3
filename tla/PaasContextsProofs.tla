-------------------------- MODULE PaasContextsProofs ------------------------
(***************************************************************************)
(* Theorems about the PaaS context manager, for any contexts, tenants and  *)
(* number of usage reports.                                                *)
(*                                                                         *)
(* That an unlisted context has been loaded is inductive only with what    *)
(* became of the contexts that left the table: they were deleted, and were *)
(* created before that.                                                    *)
(***************************************************************************)
EXTENDS PaasContexts, TLAPS

GoneWereDeleted == \A c \in Contexts : rows[c] # None /\ c \notin table => c \in deleted

DeletedExisted == \A c \in deleted : rows[c] # None

Invariant ==
  /\ PaasTypeOK
  /\ ListedAreLive
  /\ UnlistedAreLoaded
  /\ GoneWereDeleted
  /\ DeletedExisted

\* A row is rewritten: its context exists, and stays its tenant's.
RowRewritten(c, row) ==
  /\ rows[c] # None
  /\ row.tenant = rows[c].tenant
  /\ rows' = [rows EXCEPT ![c] = row]

-----------------------------------------------------------------------------
\* Rewriting a row keeps the type and every context's tenant.
LEMMA RewritingKeeps ==
  ASSUME PaasTypeOK, NEW c \in Contexts, NEW row \in Row, RowRewritten(c, row)
  PROVE  /\ rows' \in [Contexts -> Row \cup {None}]
         /\ rows'[c] = row
         /\ \A d \in Contexts : d # c => rows'[d] = rows[d]
         /\ \A d \in Contexts : rows'[d] = None <=> rows[d] = None
         /\ \A d \in Contexts : rows'[d].tenant = rows[d].tenant
<1>1. row # None
  BY PaasAssumption
<1>2. QED
  BY <1>1 DEF PaasTypeOK, RowRewritten

\* delete_context, of any contexts, keeps the invariant.
LEMMA RemovalKeeps ==
  ASSUME Invariant, NEW gone \in SUBSET table, Remove(gone), UNCHANGED <<rows, load>>,
         phase' \in {"down", "up", "stopping"}
  PROVE  Invariant'
<1>1. /\ table' = table \ gone /\ deleted' = deleted \cup gone
      /\ rows' = rows /\ load' = load
  BY DEF Remove
<1>2. \A t \in Tenants : index'[t] = index[t] \ {c \in gone : rows[c].tenant = t}
  BY DEF Remove
<1>3. index' \in [Tenants -> SUBSET Contexts]
  <2>1. \A t \in Tenants : index[t] \ {c \in gone : rows[c].tenant = t} \in SUBSET Contexts
    BY DEF Invariant, PaasTypeOK
  <2>2. QED
    BY <2>1 DEF Remove
<1>4. PaasTypeOK'
  BY <1>1, <1>3 DEF Invariant, PaasTypeOK
<1>5. ListedAreLive'
  BY <1>1, <1>2 DEF Invariant, ListedAreLive
<1>6. UnlistedAreLoaded'
  <2> SUFFICES ASSUME NEW c \in table', c \notin index'[rows[c].tenant]
               PROVE  load[c] = "done" /\ rows[c].status # "initializing" /\ c \in deleted'
    BY <1>1 DEF UnlistedAreLoaded
  <2>1. c \in table /\ c \notin gone /\ rows[c].tenant \in Tenants
    BY <1>1 DEF Invariant, PaasTypeOK, Row
  <2>2. c \notin index[rows[c].tenant]
    BY <1>2, <2>1
  <2>3. QED
    BY <1>1, <2>1, <2>2 DEF Invariant, UnlistedAreLoaded
<1>7. GoneWereDeleted' /\ DeletedExisted'
  BY <1>1 DEF Invariant, PaasTypeOK, GoneWereDeleted, DeletedExisted
<1>8. QED
  BY <1>4, <1>5, <1>6, <1>7 DEF Invariant

\* create_context keeps it: the new context is listed and in the table.
LEMMA CreationKeeps ==
  ASSUME Invariant, NEW c \in Contexts, NEW t \in Tenants, NEW expiry \in {"never", "ahead"},
         Create(c, t, expiry)
  PROVE  Invariant'
<1> DEFINE row == [tenant |-> t, status |-> "initializing", expiry |-> expiry, usage |-> 0]
<1>1. row \in Row /\ row.tenant = t
  BY PaasAssumption DEF Row, Status
<1>2. row # None
  BY <1>1, PaasAssumption
<1>3. rows[c] = None /\ rows' = [rows EXCEPT ![c] = row]
  BY DEF Create
<1> HIDE DEF row
<1>4. /\ rows' \in [Contexts -> Row \cup {None}]
      /\ rows'[c] = row /\ rows'[c] # None
      /\ \A d \in Contexts : d # c => rows'[d] = rows[d]
  BY <1>1, <1>2, <1>3 DEF Invariant, PaasTypeOK
<1>5. c \notin table /\ c \notin deleted /\ \A s \in Tenants : c \notin index[s]
  BY <1>3 DEF Invariant, PaasTypeOK, DeletedExisted, ListedAreLive
<1>6. /\ table' = table \cup {c} /\ deleted' = deleted /\ phase' = phase
      /\ load' = [load EXCEPT ![c] = "scheduled"]
      /\ index' = [index EXCEPT ![t] = @ \cup {c}]
  BY DEF Create
<1>7. /\ index' \in [Tenants -> SUBSET Contexts]
      /\ index'[t] = index[t] \cup {c}
      /\ \A s \in Tenants : s # t => index'[s] = index[s]
  BY <1>6 DEF Invariant, PaasTypeOK
<1>8. PaasTypeOK'
  BY <1>4, <1>6, <1>7 DEF Invariant, PaasTypeOK
<1>9. ListedAreLive'
  <2> SUFFICES ASSUME NEW s \in Tenants, NEW d \in index'[s]
               PROVE  d \in table' /\ rows'[d].tenant = s
    BY DEF ListedAreLive
  <2>1. CASE d = c
    BY <1>1, <1>4, <1>5, <1>6, <1>7, <2>1
  <2>2. CASE d # c
    <3>1. d \in index[s]
      BY <1>7, <2>2
    <3>2. d \in table /\ rows[d].tenant = s /\ d \in Contexts
      BY <3>1 DEF Invariant, ListedAreLive, PaasTypeOK
    <3>3. QED
      BY <1>4, <1>6, <2>2, <3>2
  <2>3. QED
    BY <2>1, <2>2
<1>10. UnlistedAreLoaded'
  <2> SUFFICES ASSUME NEW d \in table', d \notin index'[rows'[d].tenant]
               PROVE  load'[d] = "done" /\ rows'[d].status # "initializing" /\ d \in deleted'
    BY DEF UnlistedAreLoaded
  <2>1. d # c
    BY <1>1, <1>4, <1>7
  <2>2. d \in table /\ d \in Contexts /\ rows'[d] = rows[d] /\ rows[d] \in Row
    BY <1>4, <1>6, <2>1 DEF Invariant, PaasTypeOK
  <2>3. rows[d].tenant \in Tenants
    BY <2>2 DEF Row
  <2>4. d \notin index[rows[d].tenant]
    BY <1>7, <2>2, <2>3
  <2>5. load[d] = "done" /\ rows[d].status # "initializing" /\ d \in deleted
    BY <2>2, <2>4 DEF Invariant, UnlistedAreLoaded
  <2>6. load'[d] = load[d]
    BY <1>6, <2>1, <2>2 DEF Invariant, PaasTypeOK
  <2>7. QED
    BY <1>6, <2>2, <2>5, <2>6
<1>11. GoneWereDeleted' /\ DeletedExisted'
  BY <1>4, <1>5, <1>6 DEF Invariant, PaasTypeOK, GoneWereDeleted, DeletedExisted
<1>12. QED
  BY <1>8, <1>9, <1>10, <1>11 DEF Invariant

\* The end of a load keeps it: a context it brings back was deleted.
LEMMA LoadingKeeps ==
  ASSUME Invariant, NEW c \in Contexts, FinishLoad(c)
  PROVE  Invariant'
<1>1. PICK status \in {"running", "error"} : rows' = [rows EXCEPT ![c].status = status]
  BY DEF FinishLoad
<1> DEFINE row == [rows[c] EXCEPT !.status = status]
<1>2. load[c] = "loading" /\ rows[c] # None /\ rows[c] \in Row
  BY DEF FinishLoad, Invariant, PaasTypeOK
<1>3. row \in Row /\ row.tenant = rows[c].tenant /\ row.status = status
  BY <1>2 DEF Row, Status
<1>4. RowRewritten(c, row)
  BY <1>1, <1>2, <1>3 DEF RowRewritten
<1> HIDE DEF row
<1>5. /\ rows' \in [Contexts -> Row \cup {None}]
      /\ rows'[c] = row
      /\ \A d \in Contexts : d # c => rows'[d] = rows[d]
      /\ \A d \in Contexts : rows'[d] = None <=> rows[d] = None
      /\ \A d \in Contexts : rows'[d].tenant = rows[d].tenant
  BY <1>3, <1>4, RewritingKeeps DEF Invariant
<1>6. /\ table' = table \cup {c} /\ load' = [load EXCEPT ![c] = "done"]
      /\ index' = index /\ deleted' = deleted /\ phase' = phase
  BY DEF FinishLoad
<1>7. PaasTypeOK'
  BY <1>2, <1>5, <1>6 DEF Invariant, PaasTypeOK
<1>8. ListedAreLive'
  BY <1>5, <1>6 DEF Invariant, ListedAreLive, PaasTypeOK
<1>9. UnlistedAreLoaded'
  <2> SUFFICES ASSUME NEW d \in table', d \notin index[rows[d].tenant]
               PROVE  load'[d] = "done" /\ rows'[d].status # "initializing" /\ d \in deleted
    BY <1>5, <1>6 DEF UnlistedAreLoaded, Invariant, PaasTypeOK
  <2>1. CASE d = c
    <3>1. c \notin table
      BY <1>2, <2>1 DEF Invariant, UnlistedAreLoaded
    <3>2. c \in deleted
      BY <1>2, <3>1 DEF Invariant, GoneWereDeleted
    <3>3. load'[c] = "done" /\ rows'[c].status = status
      BY <1>3, <1>5, <1>6 DEF Invariant, PaasTypeOK
    <3>4. QED
      BY <1>1, <2>1, <3>2, <3>3
  <2>2. CASE d # c
    <3>1. d \in table /\ d \in Contexts
      BY <1>6, <2>2 DEF Invariant, PaasTypeOK
    <3>2. rows'[d] = rows[d] /\ load'[d] = load[d]
      BY <1>5, <1>6, <2>2, <3>1 DEF Invariant, PaasTypeOK
    <3>3. QED
      BY <3>1, <3>2 DEF Invariant, UnlistedAreLoaded
  <2>3. QED
    BY <2>1, <2>2
<1>10. GoneWereDeleted' /\ DeletedExisted'
  BY <1>5, <1>6 DEF Invariant, PaasTypeOK, GoneWereDeleted, DeletedExisted
<1>11. QED
  BY <1>7, <1>8, <1>9, <1>10 DEF Invariant

\* A usage report and the passing of an expiry keep it.
LEMMA RowStepsKeep ==
  ASSUME Invariant, NEW c \in Contexts, ReportUsage(c) \/ Expire(c)
  PROVE  Invariant'
<1>1. rows[c] # None /\ rows[c] \in Row
  BY DEF ReportUsage, Expire, Invariant, PaasTypeOK
<1>2. PICK row \in Row : RowRewritten(c, row) /\ row.status = rows[c].status
  <2>1. CASE ReportUsage(c)
    <3>1. rows[c].usage + 1 \in 0..MaxUsage
      BY <1>1, <2>1, PaasAssumption DEF ReportUsage, Row
    <3>2. [rows[c] EXCEPT !.usage = @ + 1] \in Row
      BY <1>1, <3>1 DEF Row
    <3>3. /\ RowRewritten(c, [rows[c] EXCEPT !.usage = @ + 1])
          /\ [rows[c] EXCEPT !.usage = @ + 1].status = rows[c].status
      BY <1>1, <2>1 DEF ReportUsage, RowRewritten, Row
    <3>4. QED
      BY <3>2, <3>3
  <2>2. CASE Expire(c)
    <3>1. [rows[c] EXCEPT !.expiry = "passed"] \in Row
      BY <1>1 DEF Row
    <3>2. /\ RowRewritten(c, [rows[c] EXCEPT !.expiry = "passed"])
          /\ [rows[c] EXCEPT !.expiry = "passed"].status = rows[c].status
      BY <1>1, <2>2 DEF Expire, RowRewritten, Row
    <3>3. QED
      BY <3>1, <3>2
  <2>3. QED
    BY <2>1, <2>2
<1>3. /\ rows' \in [Contexts -> Row \cup {None}]
      /\ \A d \in Contexts : rows'[d] = None <=> rows[d] = None
      /\ \A d \in Contexts : rows'[d].tenant = rows[d].tenant
      /\ \A d \in Contexts : rows'[d].status = rows[d].status
  <2>1. /\ rows'[c] = row
        /\ \A d \in Contexts : d # c => rows'[d] = rows[d]
        /\ rows' \in [Contexts -> Row \cup {None}]
        /\ \A d \in Contexts : rows'[d] = None <=> rows[d] = None
        /\ \A d \in Contexts : rows'[d].tenant = rows[d].tenant
    BY <1>2, RewritingKeeps DEF Invariant
  <2>2. QED
    BY <1>2, <2>1
<1>4. UNCHANGED <<table, index, load, phase, deleted>>
  BY DEF ReportUsage, Expire
<1>5. PaasTypeOK'
  BY <1>3, <1>4 DEF Invariant, PaasTypeOK
<1>6. ListedAreLive' /\ UnlistedAreLoaded'
  BY <1>3, <1>4 DEF Invariant, PaasTypeOK, ListedAreLive, UnlistedAreLoaded
<1>7. GoneWereDeleted' /\ DeletedExisted'
  BY <1>3, <1>4 DEF Invariant, PaasTypeOK, GoneWereDeleted, DeletedExisted
<1>8. QED
  BY <1>5, <1>6, <1>7 DEF Invariant

\* Every step keeps the invariant.
LEMMA StepInvariant == Invariant /\ [Next]_paasVars => Invariant'
<1> SUFFICES ASSUME Invariant, [Next]_paasVars PROVE Invariant'
  OBVIOUS
<1>1. CASE Initialize \/ BeginShutdown \/ UNCHANGED paasVars
  BY <1>1 DEF Initialize, BeginShutdown, paasVars, Invariant, PaasTypeOK, ListedAreLive,
              UnlistedAreLoaded, GoneWereDeleted, DeletedExisted
<1>2. ASSUME NEW c \in Contexts, StartLoad(c) PROVE Invariant'
  <2>1. /\ load' \in [Contexts -> {"none", "scheduled", "loading", "done"}]
        /\ \A d \in Contexts : d # c => load'[d] = load[d]
        /\ load[c] = "scheduled" /\ load'[c] \in {"loading", "done"}
    BY <1>2 DEF StartLoad, Invariant, PaasTypeOK
  <2>2. UNCHANGED <<rows, table, index, phase, deleted>>
    BY <1>2 DEF StartLoad
  <2>3. PaasTypeOK'
    BY <2>1, <2>2 DEF Invariant, PaasTypeOK
  <2>4. UnlistedAreLoaded'
    BY <2>1, <2>2 DEF Invariant, PaasTypeOK, UnlistedAreLoaded
  <2>5. QED
    BY <2>2, <2>3, <2>4 DEF Invariant, ListedAreLive, GoneWereDeleted, DeletedExisted
<1>3. ASSUME NEW c \in Contexts, Delete(c) PROVE Invariant'
  <2>1. {c} \in SUBSET table /\ Remove({c}) /\ UNCHANGED <<rows, load>>
        /\ phase' \in {"down", "up", "stopping"}
    BY <1>3 DEF Delete
  <2>2. QED
    BY <2>1, RemovalKeeps
<1>4. CASE Cleanup
  <2>1. Expired \in SUBSET table /\ Remove(Expired) /\ UNCHANGED <<rows, load>>
        /\ phase' \in {"down", "up", "stopping"}
    BY <1>4 DEF Cleanup, Expired
  <2>2. QED
    BY <2>1, RemovalKeeps
<1>5. CASE EndShutdown
  <2>1. Remove(table) /\ UNCHANGED <<rows, load>> /\ phase' \in {"down", "up", "stopping"}
    BY <1>5 DEF EndShutdown
  <2>2. QED
    BY <2>1, RemovalKeeps
<1>6. QED
  BY <1>1, <1>2, <1>3, <1>4, <1>5, CreationKeeps, LoadingKeeps, RowStepsKeep DEF Next

\* The invariant of the context manager.
LEMMA PaasInvariant == Spec => []Invariant
<1>1. Init => Invariant
  BY PaasAssumption DEF Init, Invariant, PaasTypeOK, ListedAreLive, UnlistedAreLoaded,
                        GoneWereDeleted, DeletedExisted
<1>2. QED
  BY <1>1, StepInvariant, PTL DEF Spec

-----------------------------------------------------------------------------
\* Objects, table, lists and tasks keep their types.
THEOREM PaasTypeCorrect == Spec => []PaasTypeOK
<1>1. Invariant => PaasTypeOK
  BY DEF Invariant
<1>2. QED
  BY <1>1, PaasInvariant, PTL

\* get_tenant_contexts lists live contexts of the tenant only.
THEOREM TenantsSeeLiveContexts == Spec => []ListedAreLive
<1>1. Invariant => ListedAreLive
  BY DEF Invariant
<1>2. QED
  BY <1>1, PaasInvariant, PTL

\* A live context that is not listed was deleted, and its load has ended.
THEOREM UnlistedContextsCameBack == Spec => []UnlistedAreLoaded
<1>1. Invariant => UnlistedAreLoaded
  BY DEF Invariant
<1>2. QED
  BY <1>1, PaasInvariant, PTL

\* Nothing but the end of its own load brings a deleted context back.
THEOREM DeletionIsFinalAfterLoad == Spec => OnlyLoadsBringBack
<1> DEFINE Back == \A c \in deleted : c \notin table /\ c \in table' =>
                     load[c] = "loading" /\ load'[c] = "done"
<1>1. Invariant /\ [Next]_paasVars => [Back]_paasVars
  <2> SUFFICES ASSUME Invariant, Next, NEW c \in deleted, c \notin table, c \in table'
               PROVE  load[c] = "loading" /\ load'[c] = "done"
    OBVIOUS
  <2>1. c \in Contexts /\ rows[c] # None /\ load \in [Contexts -> {"none", "scheduled", "loading", "done"}]
    BY DEF Invariant, DeletedExisted, PaasTypeOK
  <2>2. ASSUME NEW d \in Contexts, FinishLoad(d)
        PROVE  load[c] = "loading" /\ load'[c] = "done"
    BY <2>1, <2>2 DEF FinishLoad
  <2>3. ASSUME NEW d \in Contexts, NEW t \in Tenants, NEW expiry \in {"never", "ahead"},
               Create(d, t, expiry)
        PROVE  FALSE
    BY <2>1, <2>3 DEF Create
  <2>4. ASSUME NEW d \in Contexts, StartLoad(d) \/ Delete(d) \/ ReportUsage(d) \/ Expire(d)
        PROVE  FALSE
    BY <2>4 DEF StartLoad, Delete, Remove, ReportUsage, Expire
  <2>5. CASE Initialize \/ Cleanup \/ BeginShutdown \/ EndShutdown
    BY <2>5 DEF Initialize, Cleanup, BeginShutdown, EndShutdown, Remove
  <2>6. QED
    BY <2>2, <2>3, <2>4, <2>5 DEF Next
<1>2. QED
  BY <1>1, PaasInvariant, PTL DEF Spec, OnlyLoadsBringBack
=============================================================================
