-------------------------- MODULE IngestionProofs --------------------------
(***************************************************************************)
(* Proofs about Ingestion, for every number of runs, every set of contents *)
(* and every choice of the failures.                                       *)
(***************************************************************************)
EXTENDS Ingestion, TLAPS, FiniteSetTheorems

(* The workflow's table of steps, spelled out for the provers. *)
LEMMA StepTable ==
    /\ Activities = {"claim", "processing", "prepare", "extract", "chunk",
                     "stats", "resolve", "publishOk", "cleanupOk",
                     "markFailed", "deadLetter", "publishFailed",
                     "cleanupFailed"}
    /\ OnReturn["claim"] = "processing"
    /\ OnReturn["processing"] = "prepare"
    /\ OnReturn["prepare"] = "extract"
    /\ OnReturn["extract"] = "chunk"
    /\ OnReturn["chunk"] = "store"
    /\ OnReturn["stats"] = "resolve"
    /\ OnReturn["resolve"] = "publishOk"
    /\ OnReturn["publishOk"] = "cleanupOk"
    /\ OnReturn["cleanupOk"] = "completed"
    /\ OnReturn["markFailed"] = "deadLetter"
    /\ OnReturn["deadLetter"] = "publishFailed"
    /\ OnReturn["publishFailed"] = "cleanupFailed"
    /\ OnReturn["cleanupFailed"] = "failed"
  BY DEF Activities, OnReturn

(* Where a run goes from an activity, whichever way the activity ends. *)
LEMMA StepTargets ==
    ASSUME NEW a \in Activities
    PROVE  OnReturn[a] \in Steps /\ OnExhausted(a) \in Steps
  BY StepTable DEF OnExhausted, BestEffort, Steps, Closed

(* The part of the type invariant that activities change. *)
TablesOK ==
    /\ status \in {"absent", "pending", "processing", "processed", "failed"}
    /\ reporter \in 0..MaxRuns
    /\ active \in 0..MaxRuns /\ claimedAt \in 0..MaxRuns /\ by \in 0..MaxRuns
    /\ vectors \in [Slots -> 0..MaxRuns]
    /\ staged \in [Runs -> {"none", "text", "chunks"}]
    /\ dl \in [Runs -> {"none", "pending", "retrying", "resolved", "abandoned"}]
    /\ ledger \subseteq Runs /\ docCount \in Nat
    /\ published \in [Runs -> SUBSET {"processed", "failed"}]
    /\ exposed \in BOOLEAN

(* The part that Temporal and the API keep. *)
ControlOK ==
    /\ latest \in 0..MaxRuns
    /\ pc \in [Runs -> Steps]
    /\ ver \in [Runs -> Versions \cup {NoVersion}]
    /\ pg \in [Runs -> {"pg", "ok", "superseded"}]
    /\ wv \in [Runs -> WvSteps \cup {"ok", "superseded"}]
    /\ stray \subseteq Runs \X StrayActs
    /\ deleting \in BOOLEAN

LEMMA TypeParts == TypeOK <=> TablesOK /\ ControlOK
  BY DEF TypeOK, TablesOK, ControlOK

(* An activity's effect, a store and the steps of a Weaviate write keep    *)
(* the tables well typed.                                                  *)
LEMMA EffectType ==
    ASSUME TablesOK, NEW r \in Runs, NEW a, Effect(r, a)
    PROVE  TablesOK'
<1> USE DEF TablesOK, row, side, Runs, NoRun
<1>1. CASE a = "claim" /\ CreatePendingDocument(r)
  BY <1>1, ConstantsAssumption DEF CreatePendingDocument
<1>2. CASE UpdateDocumentStatus(r, "processing") \/ UpdateDocumentStatus(r, "failed")
  <2>1. PICK s \in {"processing", "failed"} : UpdateDocumentStatus(r, s)
    BY <1>2
  <2>2. r \in 0..MaxRuns
    BY ConstantsAssumption
  <2>3. status' \in {status, s} /\ reporter' \in {reporter, r}
    BY <2>1 DEF UpdateDocumentStatus
  <2> QED
    BY <2>1, <2>2, <2>3 DEF UpdateDocumentStatus
<1>3. CASE UNCHANGED <<tables, exposed>>
  BY <1>3 DEF tables
<1>4. CASE \E level \in {"none", "text", "chunks"} : Stage(r, level)
  BY <1>4 DEF Stage
<1>5. CASE UpdateWorkspaceStats(r)
  BY <1>5 DEF UpdateWorkspaceStats
<1>6. CASE ResolveDeadLetters
  BY <1>6 DEF ResolveDeadLetters
<1>7. CASE AddDeadLetter(r)
  BY <1>7 DEF AddDeadLetter
<1>8. CASE \E o \in {"processed", "failed"} : PublishCompletion(r, o)
  BY <1>8 DEF PublishCompletion
<1> QED
  BY <1>1, <1>2, <1>3, <1>4, <1>5, <1>6, <1>7, <1>8 DEF Effect

LEMMA WriteType ==
    ASSUME TablesOK, NEW r \in Runs, NEW w, WriteChunks(r, w)
    PROVE  TablesOK'
  BY DEF WriteChunks, TablesOK, row, side, Runs

LEMMA StoreType ==
    ASSUME TablesOK, NEW r \in Runs,
           StoreProcessedDocument(r) \/ DeleteChunks(r)
    PROVE  TablesOK'
<1> USE DEF TablesOK, row, side, Runs, NoRun
<1>1. CASE StoreProcessedDocument(r)
  BY <1>1, ConstantsAssumption DEF StoreProcessedDocument
<1>2. CASE DeleteChunks(r)
  <2>1. exposed' \in BOOLEAN
    BY <1>2, Zenon DEF DeleteChunks, OthersPastCheck
  <2>2. vectors' \in [Slots -> 0..MaxRuns]
    BY <1>2, ConstantsAssumption DEF DeleteChunks
  <2> QED
    BY <1>2, <2>1, <2>2 DEF DeleteChunks
<1> QED
  BY <1>1, <1>2

(* The attempts a worker may hold are strays in waiting. *)
LEMMA InFlightType ==
    ASSUME ControlOK, NEW r \in Runs
    PROVE  InFlight(r) \subseteq Runs \X StrayActs
  BY StepTable DEF ControlOK, InFlight, StrayActs, WvSteps

(* Each step of the specification keeps the types. *)
LEMMA TypeStep ==
    ASSUME TypeOK, [Next]_vars
    PROVE  TypeOK'
<1>0. TablesOK /\ ControlOK
  BY TypeParts
<1> SUFFICES TablesOK' /\ ControlOK'
  BY TypeParts DEF TypeOK, TablesOK, ControlOK
<1>1. ASSUME NEW r \in Runs, ActivityReturns(r) PROVE TablesOK' /\ ControlOK'
  <2>1. PICK a \in Activities : pc[r] = a /\ Effect(r, a) /\ MoveTo(r, OnReturn[a])
    BY <1>1 DEF ActivityReturns
  <2> QED
    BY <1>0, <1>1, <2>1, EffectType, StepTargets
    DEF ActivityReturns, MoveTo, ControlOK
<1>2. ASSUME NEW r \in Runs, ResultLost(r) PROVE TablesOK' /\ ControlOK'
  BY <1>0, <1>2, EffectType, StoreType DEF ResultLost, ControlOK, control
<1>3. ASSUME NEW r \in Runs, ActivityGivesUp(r) PROVE TablesOK' /\ ControlOK'
  BY <1>0, <1>3, StepTargets
  DEF ActivityGivesUp, MoveTo, TablesOK, ControlOK, tables, row, side
<1>4. ASSUME NEW r \in Runs, AttemptTimesOut(r) PROVE TablesOK' /\ ControlOK'
  BY <1>0, <1>4, InFlightType
  DEF AttemptTimesOut, TablesOK, ControlOK, tables, row, side, WvSteps
<1>5. ASSUME NEW r \in Runs, StoreInPostgresql(r) PROVE TablesOK' /\ ControlOK'
  <2>1. TablesOK'
    BY <1>0, <1>5, StoreType
    DEF StoreInPostgresql, TablesOK, tables, row, side
  <2> QED
    BY <1>0, <1>5, <2>1 DEF StoreInPostgresql, ControlOK
<1>6. ASSUME NEW r \in Runs, StoreInWeaviate(r) PROVE TablesOK' /\ ControlOK'
  <2>1. CASE wv[r] = "wvCheck"
    BY <1>0, <1>6, <2>1
    DEF StoreInWeaviate, TablesOK, ControlOK, tables, row, side, WvSteps
  <2>2. CASE wv[r] = "wvDelete"
    BY <1>0, <1>6, <2>2, StoreType DEF StoreInWeaviate, ControlOK, WvSteps
  <2>3. CASE wv[r] = "wvWrite"
    <3>1. WriteChunks(r, ChunksOf[ver[r]])
      BY <1>6, <2>3 DEF StoreInWeaviate
    <3>2. TablesOK'
      BY <1>0, <3>1, WriteType
    <3> QED
      BY <1>0, <1>6, <2>3, <3>2 DEF StoreInWeaviate, ControlOK, WvSteps
  <2> QED
    BY <1>6, <2>1, <2>2, <2>3 DEF StoreInWeaviate
<1>7. ASSUME NEW r \in Runs, WeaviateBatchFails(r) PROVE TablesOK' /\ ControlOK'
  <2>1. PICK w \in SUBSET ChunksOf[ver[r]] : WriteChunks(r, w)
    BY <1>7 DEF WeaviateBatchFails
  <2>2. TablesOK'
    BY <1>0, <2>1, WriteType
  <2> QED
    BY <1>0, <1>7, <2>2 DEF WeaviateBatchFails, ControlOK, WvSteps
<1>8. ASSUME NEW r \in Runs, StoresReturn(r) PROVE TablesOK' /\ ControlOK'
  BY <1>0, <1>8, StepTable
  DEF StoresReturn, MoveTo, TablesOK, ControlOK, tables, row, side, Steps
<1>9. ASSUME NEW r \in Runs, StoreGivesUp(r) PROVE TablesOK' /\ ControlOK'
  BY <1>0, <1>9, StepTable, InFlightType
  DEF StoreGivesUp, MoveTo, TablesOK, ControlOK, tables, row, side, Steps
<1>10. ASSUME NEW r \in Runs, NEW a \in StrayActs, StrayLands(r, a)
       PROVE  TablesOK' /\ ControlOK'
  <2>1. ControlOK'
    BY <1>0, <1>10 DEF StrayLands, ControlOK, StrayActs, WvSteps
  <2>2. CASE a = "wvWrite"
    BY <1>0, <1>10, <2>1, <2>2, WriteType, StepTable DEF StrayLands
  <2>3. CASE a # "wvWrite"
    BY <1>0, <1>10, <2>1, <2>3, EffectType, StoreType
    DEF StrayLands, TablesOK, tables, row, side
  <2> QED
    BY <2>2, <2>3
<1>11. ASSUME NEW r \in Runs, NEW a \in StrayActs, StrayEnds(r, a)
       PROVE  TablesOK' /\ ControlOK'
  BY <1>0, <1>11 DEF StrayEnds, TablesOK, ControlOK, tables, row, side
<1>12. ASSUME NEW v \in Versions, Start(v) PROVE TablesOK' /\ ControlOK'
  <2>1. stray' \subseteq Runs \X StrayActs
    BY <1>0, <1>12, InFlightType DEF Start, ControlOK
  <2>2. latest' \in 0..MaxRuns /\ latest + 1 \in Runs
    BY <1>0, <1>12, ConstantsAssumption DEF Start, ControlOK, Runs
  <2>3. pc' \in [Runs -> Steps]
    BY <1>0, <1>12, StepTable DEF Start, ControlOK, Steps, Closed
  <2> QED
    BY <1>0, <1>12, <2>1, <2>2, <2>3
    DEF Start, TablesOK, ControlOK, tables, row, side
<1>13. ASSUME NEW r \in Runs, SweepStaging(r) PROVE TablesOK' /\ ControlOK'
  BY <1>0, <1>13 DEF SweepStaging, Stage, TablesOK, ControlOK, control, row
<1>14. CASE ResetPending \/ MarkDocumentFailed
  <2>1. 0 \in 0..MaxRuns
    BY ConstantsAssumption
  <2> QED
    BY <1>0, <1>14, <2>1
    DEF ResetPending, MarkDocumentFailed, TablesOK, ControlOK, control, side, NoRun
<1>15. CASE DeleteVectors
  BY <1>0, <1>15, ConstantsAssumption
  DEF DeleteVectors, TablesOK, ControlOK, control, row, side, NoRun
<1>16. CASE DeleteRow
  <2>1. docCount' \in Nat
    BY <1>0, <1>16 DEF DeleteRow, TablesOK
  <2>2. deleting' \in BOOLEAN
    BY <1>16, Zenon DEF DeleteRow
  <2>3. 0 \in 0..MaxRuns
    BY ConstantsAssumption
  <2>4. TablesOK'
    BY <1>0, <1>16, <2>1, <2>3 DEF DeleteRow, TablesOK, NoRun
  <2> QED
    BY <1>0, <1>16, <2>2, <2>4 DEF DeleteRow, ControlOK, control
<1>17. CASE DeleteAborts
  BY <1>0, <1>17 DEF DeleteAborts, TablesOK, ControlOK, control, tables, row, side
<1>18. CASE UNCHANGED vars
  BY <1>0, <1>18 DEF vars, TablesOK, ControlOK, control, tables, row, side
<1> QED
  BY <1>1, <1>2, <1>3, <1>4, <1>5, <1>6, <1>7, <1>8, <1>9, <1>10, <1>11,
     <1>12, <1>13, <1>14, <1>15, <1>16, <1>17, <1>18
  DEF Next, RunStep, StrayStep

(* The initial state is well typed. *)
LEMMA TypeInit == Init => TypeOK
<1> SUFFICES ASSUME Init PROVE TypeOK
  OBVIOUS
<1>1. 0 \in 0..MaxRuns /\ "idle" \in Steps /\ "wvCheck" \in WvSteps
  BY ConstantsAssumption DEF Steps, WvSteps
<1>2. TablesOK
  BY <1>1 DEF Init, TablesOK, NoRun
<1>3. ControlOK
  BY <1>1 DEF Init, ControlOK
<1> QED
  BY <1>2, <1>3, TypeParts

(* Type correctness, for every instance of the constants. *)
THEOREM TypeCorrect == Spec => []TypeOK
  BY TypeInit, TypeStep, PTL DEF Spec

-----------------------------------------------------------------------------
(* The fence.  A step of the service is a step of the fenced register on   *)
(* the row, or leaves the row alone.  The argument needs TokenAgrees: the  *)
(* code tests active_run_id, the promise is about the recorded claim.      *)
RowStep == [Fence!Next]_Fence!vars

LEMMA RowUnchanged ==
    ASSUME TokenAgrees, UNCHANGED row
    PROVE  RowStep /\ TokenAgrees'
  BY DEF RowStep, row, TokenAgrees, Fence!vars

LEMMA ClaimIsFenced ==
    ASSUME TablesOK, TokenAgrees, NEW r \in Runs, CreatePendingDocument(r)
    PROVE  RowStep /\ TokenAgrees'
<1> USE DEF CreatePendingDocument, TablesOK, TokenAgrees, NoRun, Runs
<1>1. TokenAgrees'
  BY ConstantsAssumption
<1>2. CASE status = "absent"
  <2>1. Fence!Create(r, "processing")
    BY <1>2 DEF Fence!Create
  <2> QED
    BY <1>1, <2>1 DEF RowStep, Fence!Next, Fence!Runs, Fence!NoRun
<1>3. CASE status # "absent" /\ claimedAt <= r
  <2>1. Fence!Claim(r)
    BY <1>3 DEF Fence!Claim
  <2> QED
    BY <1>1, <2>1 DEF RowStep, Fence!Next, Fence!Runs
<1>4. CASE status # "absent" /\ ~(claimedAt <= r)
  BY <1>1, <1>4 DEF RowStep, Fence!vars
<1> QED
  BY <1>2, <1>3, <1>4

LEMMA StatusIsFenced ==
    ASSUME TablesOK, TokenAgrees, NEW r \in Runs, NEW s \in {"processing", "failed"},
           UpdateDocumentStatus(r, s)
    PROVE  RowStep /\ TokenAgrees'
<1> USE DEF UpdateDocumentStatus, TokenAgrees, NoRun
<1>1. TokenAgrees'
  OBVIOUS
<1>2. CASE status # "absent" /\ IsActiveRun(r)
  <2>1. Fence!Report(r)
    BY <1>2 DEF Fence!Report, Fence!MayWrite, Fence!NoRun, IsActiveRun
  <2> QED
    BY <1>1, <2>1 DEF RowStep, Fence!Next, Fence!Runs, Runs
<1>3. CASE ~(status # "absent" /\ IsActiveRun(r))
  BY <1>1, <1>3 DEF RowStep, Fence!vars
<1> QED
  BY <1>2, <1>3

LEMMA StoreIsFenced ==
    ASSUME TablesOK, TokenAgrees, NEW r \in Runs, StoreProcessedDocument(r)
    PROVE  RowStep /\ TokenAgrees'
<1> USE DEF StoreProcessedDocument, TokenAgrees, NoRun
<1>1. claimedAt \in {0, r}
  BY DEF IsActiveRun
<1>2. Fence!Commit(r)
  BY <1>1 DEF Fence!Commit, Fence!MayWrite, Fence!NoRun
<1> QED
  BY <1>1, <1>2 DEF RowStep, Fence!Next, Fence!Runs, Runs

LEMMA EffectIsFenced ==
    ASSUME TablesOK, TokenAgrees, NEW r \in Runs, NEW a, Effect(r, a)
    PROVE  RowStep /\ TokenAgrees'
<1>1. CASE CreatePendingDocument(r)
  BY <1>1, ClaimIsFenced
<1>2. CASE UpdateDocumentStatus(r, "processing") \/ UpdateDocumentStatus(r, "failed")
  BY <1>2, StatusIsFenced
<1>3. CASE UNCHANGED row
  BY <1>3, RowUnchanged
<1> QED
  BY <1>1, <1>2, <1>3
  DEF Effect, Stage, UpdateWorkspaceStats, ResolveDeadLetters, AddDeadLetter,
      PublishCompletion, tables

(* A deleted row has no token; the API touches nothing else of the row. *)
LEMMA ApiIsFenced ==
    ASSUME TablesOK, TokenAgrees,
           ResetPending \/ MarkDocumentFailed \/ DeleteRow
    PROVE  RowStep /\ TokenAgrees'
<1> USE DEF TokenAgrees, NoRun
<1>1. CASE DeleteRow
  BY <1>1 DEF DeleteRow, RowStep, Fence!Next, Fence!Delete, Fence!NoRun
<1>2. CASE (ResetPending \/ MarkDocumentFailed) /\ status # "absent"
  BY <1>2
  DEF ResetPending, MarkDocumentFailed, RowStep, Fence!Next, Fence!ApiReport, Fence!NoRun
<1>3. CASE ResetPending /\ status = "absent"
  <2>1. Fence!Create(0, "pending")
    BY <1>3 DEF ResetPending, Fence!Create
  <2> QED
    BY <1>3, <2>1 DEF ResetPending, RowStep, Fence!Next, Fence!Runs, Fence!NoRun
<1> QED
  BY <1>1, <1>2, <1>3 DEF MarkDocumentFailed

LEMMA FenceStep ==
    ASSUME TypeOK, TokenAgrees, [Next]_vars
    PROVE  RowStep /\ TokenAgrees'
<1>0. TablesOK
  BY TypeParts
<1>1. ASSUME NEW r \in Runs, ActivityReturns(r) \/ ResultLost(r) PROVE RowStep /\ TokenAgrees'
  BY <1>0, <1>1, EffectIsFenced, StoreIsFenced DEF ActivityReturns, ResultLost
<1>2. ASSUME NEW r \in Runs, StoreInPostgresql(r) PROVE RowStep /\ TokenAgrees'
  BY <1>0, <1>2, StoreIsFenced, RowUnchanged DEF StoreInPostgresql, tables
<1>3. ASSUME NEW r \in Runs, NEW a \in StrayActs, StrayLands(r, a)
      PROVE RowStep /\ TokenAgrees'
  BY <1>0, <1>3, EffectIsFenced, StoreIsFenced, RowUnchanged
  DEF StrayLands, DeleteChunks, WriteChunks, tables
<1>4. CASE ResetPending \/ MarkDocumentFailed \/ DeleteRow
  BY <1>0, <1>4, ApiIsFenced
<1>5. CASE UNCHANGED row
  BY <1>5, RowUnchanged
<1>6. ASSUME NEW r \in Runs,
             \/ ActivityGivesUp(r) \/ AttemptTimesOut(r) \/ StoreInWeaviate(r)
             \/ WeaviateBatchFails(r) \/ StoresReturn(r) \/ StoreGivesUp(r)
             \/ SweepStaging(r) \/ \E a \in StrayActs : StrayEnds(r, a)
      PROVE  UNCHANGED row
  BY <1>6
  DEF ActivityGivesUp, AttemptTimesOut, StoreInWeaviate, DeleteChunks, WriteChunks,
      WeaviateBatchFails, StoresReturn, StoreGivesUp, SweepStaging, Stage,
      StrayEnds, tables
<1>7. ASSUME \/ DeleteVectors \/ DeleteAborts \/ UNCHANGED vars
             \/ \E v \in Versions : Start(v)
      PROVE  UNCHANGED row
  BY <1>7 DEF DeleteVectors, DeleteAborts, Start, vars, tables
<1> QED
  BY <1>1, <1>2, <1>3, <1>4, <1>5, <1>6, <1>7 DEF Next, RunStep, StrayStep

(* The token is consistent in every reachable state: a recorded claim      *)
(* names the active run, and a missing row carries no token.               *)
THEOREM TokenConsistent == Spec => []TokenAgrees
<1>1. Init => TokenAgrees
  BY DEF Init, TokenAgrees
<1> QED
  BY <1>1, TypeCorrect, FenceStep, PTL DEF Spec

(* The service implements the fenced register: whatever is lost, repeated, *)
(* late or given up, stored chunks and reported statuses come only from    *)
(* the holder of the recorded claim, and the claim only moves to later     *)
(* runs until the document is deleted.                                     *)
THEOREM FenceHolds == Spec => RowIsFenced
<1>1. Init => Fence!Init
  BY DEF Init, Fence!Init, NoRun, Fence!NoRun
<1> QED
  BY <1>1, TypeCorrect, TokenConsistent, FenceStep, PTL
  DEF Spec, RowIsFenced, Fence!Spec, RowStep

-----------------------------------------------------------------------------
(* One verdict per run. *)

(* What an activity does to the verdicts and to the ledger. *)
LEMMA EffectVerdict ==
    ASSUME TablesOK, NEW q \in Runs, NEW a, Effect(q, a)
    PROVE  /\ ledger \subseteq ledger'
           /\ a = "stats" => q \in ledger'
           /\ \A r \in Runs : "processed" \in published'[r] =>
                 "processed" \in published[r] \/ (r = q /\ a = "publishOk")
           /\ \A r \in Runs : "failed" \in published'[r] =>
                 "failed" \in published[r] \/ (r = q /\ a = "publishFailed")
<1> USE DEF TablesOK
<1>1. CASE UNCHANGED <<ledger, published>> /\ a # "stats"
  BY <1>1
<1>2. CASE a = "stats" /\ UpdateWorkspaceStats(q)
  BY <1>2 DEF UpdateWorkspaceStats
<1>3. CASE a = "publishOk" /\ PublishCompletion(q, "processed")
  BY <1>3 DEF PublishCompletion
<1>4. CASE a = "publishFailed" /\ PublishCompletion(q, "failed")
  BY <1>4 DEF PublishCompletion
<1> QED
  BY <1>1, <1>2, <1>3, <1>4
  DEF Effect, CreatePendingDocument, UpdateDocumentStatus, Stage,
      ResolveDeadLetters, AddDeadLetter, tables, side

(* The announcements among the attempts in flight are the awaited ones. *)
LEMMA InFlightVerdict ==
    ASSUME ControlOK, NEW q \in Runs, NEW r \in Runs,
           NEW a \in {"publishOk", "publishFailed"}, <<r, a>> \in InFlight(q)
    PROVE  r = q /\ pc[q] = a
  BY DEF InFlight, WvSteps, ControlOK

LEMMA VerdictInductive ==
    ASSUME TypeOK, VerdictSteps, [Next]_vars
    PROVE  VerdictSteps'
<1>0. TablesOK /\ ControlOK
  BY TypeParts
<1> SUFFICES ASSUME NEW r \in Runs PROVE VerdictStep(r)'
  BY DEF VerdictSteps
<1>r. VerdictStep(r)
  BY DEF VerdictSteps
<1> USE DEF VerdictStep, Announced
<1>1. ASSUME NEW q \in Runs, ActivityReturns(q) PROVE VerdictStep(r)'
  <2>1. PICK a \in Activities : pc[q] = a /\ Effect(q, a) /\ MoveTo(q, OnReturn[a])
    BY <1>1 DEF ActivityReturns
  <2>2. UNCHANGED <<latest, pg, wv, stray>> /\ pc' = [pc EXCEPT ![q] = OnReturn[a]]
    BY <1>1, <2>1 DEF ActivityReturns, MoveTo
  <2>3. CASE r # q
    BY <1>0, <1>r, <2>1, <2>2, <2>3, EffectVerdict DEF ControlOK
  <2>4. CASE r = q
    BY <1>0, <1>r, <2>1, <2>2, <2>4, EffectVerdict, StepTable
    DEF ControlOK, Succeeded
  <2> QED
    BY <2>3, <2>4
<1>2. ASSUME NEW q \in Runs, ResultLost(q) PROVE VerdictStep(r)'
  <2>1. UNCHANGED <<latest, pc, pg, wv, stray>>
    BY <1>2 DEF ResultLost, control
  <2>2. CASE \E a \in Activities : pc[q] = a /\ Effect(q, a)
    BY <1>0, <1>r, <2>1, <2>2, EffectVerdict DEF Succeeded
  <2>3. CASE StoreProcessedDocument(q)
    BY <1>r, <2>1, <2>3 DEF StoreProcessedDocument, side
  <2> QED
    BY <1>2, <2>2, <2>3 DEF ResultLost
<1>3. ASSUME NEW q \in Runs, ActivityGivesUp(q) PROVE VerdictStep(r)'
  <2>1. PICK a \in Activities : pc[q] = a /\ MoveTo(q, OnExhausted(a))
    BY <1>3 DEF ActivityGivesUp
  <2> QED
    BY <1>0, <1>r, <1>3, <2>1, StepTable
    DEF ActivityGivesUp, MoveTo, OnExhausted, BestEffort, Succeeded, ControlOK,
        tables, side
<1>4. ASSUME NEW q \in Runs, AttemptTimesOut(q) PROVE VerdictStep(r)'
  BY <1>0, <1>r, <1>4, InFlightVerdict
  DEF AttemptTimesOut, Succeeded, ControlOK, WvSteps, tables, side
<1>5. ASSUME NEW q \in Runs, StoreInPostgresql(q) PROVE VerdictStep(r)'
  BY <1>0, <1>r, <1>5
  DEF StoreInPostgresql, StoreProcessedDocument, Succeeded, ControlOK, tables, side
<1>6. ASSUME NEW q \in Runs, StoreInWeaviate(q) PROVE VerdictStep(r)'
  <2>1. UNCHANGED <<ledger, published, latest, pc, pg, stray>>
    BY <1>6 DEF StoreInWeaviate, DeleteChunks, WriteChunks, tables, side
  <2>2. pc[q] = "store" /\ \E s : wv' = [wv EXCEPT ![q] = s]
    BY <1>6 DEF StoreInWeaviate
  <2> QED
    BY <1>0, <1>r, <2>1, <2>2 DEF Succeeded, ControlOK
<1>7. ASSUME NEW q \in Runs, WeaviateBatchFails(q) PROVE VerdictStep(r)'
  BY <1>0, <1>r, <1>7
  DEF WeaviateBatchFails, WriteChunks, Succeeded, ControlOK, side
<1>8. ASSUME NEW q \in Runs, StoresReturn(q) PROVE VerdictStep(r)'
  BY <1>0, <1>r, <1>8 DEF StoresReturn, MoveTo, Succeeded, ControlOK, tables, side
<1>9. ASSUME NEW q \in Runs, StoreGivesUp(q) PROVE VerdictStep(r)'
  BY <1>0, <1>r, <1>9, InFlightVerdict
  DEF StoreGivesUp, MoveTo, Succeeded, ControlOK, tables, side
<1>10. ASSUME NEW q \in Runs, NEW a \in StrayActs, StrayLands(q, a)
       PROVE  VerdictStep(r)'
  <2>1. UNCHANGED <<latest, pc, pg, wv>>
    BY <1>10 DEF StrayLands
  <2>2. <<q, a>> \in stray /\ stray' \subseteq stray \cup (Runs \X WvSteps)
    BY <1>10 DEF StrayLands, WvSteps
  <2>3. CASE a \in Activities /\ Effect(q, a)
    BY <1>0, <1>r, <2>1, <2>2, <2>3, EffectVerdict DEF WvSteps
  <2>4. CASE UNCHANGED <<ledger, published>>
    BY <1>r, <2>1, <2>2, <2>4 DEF WvSteps
  <2> QED
    BY <1>10, <2>3, <2>4
    DEF StrayLands, StoreProcessedDocument, DeleteChunks, WriteChunks, tables, side
<1>11. ASSUME NEW q \in Runs, NEW a \in StrayActs, StrayEnds(q, a)
       PROVE  VerdictStep(r)'
  BY <1>r, <1>11 DEF StrayEnds, tables, side
<1>12. ASSUME NEW v \in Versions, Start(v) PROVE VerdictStep(r)'
  <2>1. UNCHANGED <<ledger, published, pg, wv>> /\ latest' = latest + 1
    BY <1>12 DEF Start, tables, side
  <2>2. \A a \in {"publishOk", "publishFailed"} :
            <<r, a>> \in stray' => <<r, a>> \in stray \/ pc[r] = a
    <3> SUFFICES ASSUME NEW a \in {"publishOk", "publishFailed"},
                        <<r, a>> \in stray', <<r, a>> \notin stray
                 PROVE  pc[r] = a
      OBVIOUS
    <3>1. PICK q \in Runs : <<r, a>> \in InFlight(q)
      BY <1>12 DEF Start
    <3> QED
      BY <1>0, <3>1, InFlightVerdict
  <2>3. /\ r = latest + 1 => pc'[r] = "claim"
        /\ r # latest + 1 => pc'[r] = IF IsOpen(r) THEN "terminated" ELSE pc[r]
    BY <1>12 DEF Start
  <2> QED
    BY <1>0, <1>r, <2>1, <2>2, <2>3
    DEF Succeeded, IsOpen, Closed, ControlOK, Runs
<1>13. ASSUME UNCHANGED <<ledger, published, control>> PROVE VerdictStep(r)'
  BY <1>r, <1>13 DEF control
<1>14. ASSUME NEW q \in Runs, SweepStaging(q) PROVE VerdictStep(r)'
  BY <1>13, <1>14 DEF SweepStaging, Stage
<1>15. CASE \/ ResetPending \/ MarkDocumentFailed \/ DeleteVectors
            \/ DeleteRow \/ DeleteAborts \/ UNCHANGED vars
  BY <1>13, <1>15
  DEF ResetPending, MarkDocumentFailed, DeleteVectors, DeleteRow, DeleteAborts,
      vars, tables, side
<1> QED
  BY <1>1, <1>2, <1>3, <1>4, <1>5, <1>6, <1>7, <1>8, <1>9, <1>10, <1>11,
     <1>12, <1>14, <1>15
  DEF Next, RunStep, StrayStep

(* A verdict, made or still on its way in an attempt that timed out, comes *)
(* from a run that has reached the step of that verdict: success only      *)
(* after both stores and the statistics.                                   *)
THEOREM VerdictFollowsItsStep == Spec => []VerdictSteps
<1>1. Init => VerdictSteps
  BY DEF Init, VerdictSteps, VerdictStep, Announced, Succeeded
<1> QED
  BY <1>1, TypeCorrect, VerdictInductive, PTL DEF Spec

(* No run ever announces both verdicts, and success is announced only for  *)
(* a run whose two stores returned and which the statistics have counted.  *)
THEOREM VerdictIsUnique == Spec => []OneVerdict
<1>1. VerdictSteps => OneVerdict
  BY DEF VerdictSteps, VerdictStep, Announced, OneVerdict
<1> QED
  BY <1>1, VerdictFollowsItsStep, PTL

-----------------------------------------------------------------------------
(* The newest content stands.  Once claims do not fail and the document is *)
(* not deleted under a run, the newest run holds the token from its claim  *)
(* on, so that no other run passes the fence.                              *)

(* A write that passes the fence after the newest run's claim is its own. *)
LEMMA ClaimNewest ==
    ASSUME TablesOK, TokenAgrees, latest \in 0..MaxRuns, claimedAt <= latest,
           NEW q \in Runs, q <= latest, CreatePendingDocument(q)
    PROVE  /\ claimedAt' <= latest /\ by' = by
           /\ claimedAt = latest \/ q = latest =>
                 claimedAt' = latest /\ status' # "absent"
  BY ConstantsAssumption
  DEF CreatePendingDocument, TablesOK, TokenAgrees, NoRun, Runs

LEMMA EffectNewest ==
    ASSUME TablesOK, TokenAgrees, latest \in 0..MaxRuns, claimedAt <= latest,
           NEW q \in Runs, q <= latest, NEW a,
           Effect(q, a) \/ StoreProcessedDocument(q)
    PROVE  /\ claimedAt' <= latest
           /\ claimedAt = latest /\ status # "absent" =>
                 /\ claimedAt' = latest /\ status' # "absent"
                 /\ by' = by \/ (by' = q /\ q = latest)
<1> USE DEF TablesOK, TokenAgrees, NoRun, Runs
<1>1. CASE UNCHANGED row
  BY <1>1 DEF row
<1>2. CASE CreatePendingDocument(q)
  BY <1>2, ClaimNewest
<1>3. CASE UpdateDocumentStatus(q, "processing") \/ UpdateDocumentStatus(q, "failed")
  BY <1>3 DEF UpdateDocumentStatus
<1>4. CASE StoreProcessedDocument(q)
  BY <1>4 DEF StoreProcessedDocument, IsActiveRun
<1> QED
  BY <1>1, <1>2, <1>3, <1>4
  DEF Effect, Stage, UpdateWorkspaceStats, ResolveDeadLetters, AddDeadLetter,
      PublishCompletion, tables

(* Attempts in flight belong to the run that awaits them. *)
LEMMA InFlightOwner ==
    ASSUME NEW q \in Runs, NEW s \in InFlight(q)
    PROVE  s[1] = q
  BY DEF InFlight

(* Steps that move run q and leave the row and the store results alone. *)
LEMMA NewestMoves ==
    ASSUME ControlOK, NewestHoldsToken, NEW q \in Runs, q <= latest, pc[q] # "claim",
           UNCHANGED <<row, latest, pg>>,
           NEW step, step \notin {"idle", "claim"},
           step \in Succeeded => pg[q] = "ok" \/ pc[q] \in Succeeded,
           pc' = [pc EXCEPT ![q] = step],
           \A s \in stray' : s[1] <= latest
    PROVE  NewestHoldsToken'
  BY DEF NewestHoldsToken, NewestHolds, ControlOK, row, Runs

(* Writes that run q makes while the control state does not move, but for  *)
(* the result of its PostgreSQL store and the attempts outstanding.        *)
LEMMA NewestWrites ==
    ASSUME TablesOK, ControlOK, TokenAgrees, NewestHoldsToken,
           NEW q \in Runs, q <= latest, NEW a,
           Effect(q, a) \/ StoreProcessedDocument(q),
           UNCHANGED <<latest, pc>>,
           \/ UNCHANGED pg
           \/ /\ pc[q] = "store" /\ StoreProcessedDocument(q)
              /\ pg' = [pg EXCEPT ![q] = "ok"],
           \A s \in stray' : s[1] <= latest
    PROVE  NewestHoldsToken'
<1>1. claimedAt <= latest /\ latest \in 0..MaxRuns
  BY DEF NewestHoldsToken, ControlOK
<1>2. claimedAt' <= latest
  BY <1>1, EffectNewest
<1> SUFFICES ASSUME NEW r \in Runs PROVE NewestHolds(r)'
  BY <1>2 DEF NewestHoldsToken
<1>3. NewestHolds(r)
  BY DEF NewestHoldsToken
<1>4. CASE r = latest /\ pc[r] # "claim"
  <2>1. /\ claimedAt' = latest /\ status' # "absent"
        /\ by' = by \/ (by' = q /\ q = latest)
    BY <1>1, <1>3, <1>4, EffectNewest DEF NewestHolds
  <2>2. CASE UNCHANGED pg
    BY <1>3, <1>4, <2>1, <2>2 DEF NewestHolds
  <2>3. CASE StoreProcessedDocument(q) /\ pg' = [pg EXCEPT ![q] = "ok"]
    BY <1>3, <1>4, <2>1, <2>3 DEF NewestHolds, StoreProcessedDocument, ControlOK, Succeeded
  <2> QED
    BY <2>2, <2>3
<1>5. CASE r # latest \/ pc[r] = "claim"
  BY <1>3, <1>5 DEF NewestHolds, ControlOK, Succeeded, Runs
<1> QED
  BY <1>4, <1>5

(* An activity of run q returns. *)
LEMMA NewestReturns ==
    ASSUME TablesOK, ControlOK, TokenAgrees, NewestHoldsToken,
           NEW q \in Runs, NEW a \in Activities, pc[q] = a, Effect(q, a),
           pc' = [pc EXCEPT ![q] = OnReturn[a]],
           UNCHANGED <<latest, pg, stray>>
    PROVE  NewestHoldsToken'
<1>1. claimedAt <= latest /\ latest \in 0..MaxRuns /\ q <= latest
  BY StepTable DEF NewestHoldsToken, NewestHolds, ControlOK, Runs
<1>2. claimedAt' <= latest
  BY <1>1, EffectNewest
<1> SUFFICES ASSUME NEW r \in Runs PROVE NewestHolds(r)'
  BY <1>2 DEF NewestHoldsToken
<1>3. NewestHolds(r)
  BY DEF NewestHoldsToken
<1>4. CASE r = latest /\ pc[r] # "claim"
  <2>1. /\ claimedAt' = latest /\ status' # "absent"
        /\ by' = by \/ (by' = q /\ q = latest)
    BY <1>1, <1>3, <1>4, EffectNewest DEF NewestHolds
  <2>2. pc'[r] \in Succeeded => pc[r] \in Succeeded
    BY <1>4, StepTable DEF ControlOK, Succeeded
  <2>3. pc'[r] \notin {"idle", "claim"}
    BY <1>3, <1>4, StepTable DEF ControlOK, NewestHolds
  <2> QED
    BY <1>3, <1>4, <2>1, <2>2, <2>3 DEF NewestHolds
<1>5. CASE r = latest /\ pc[r] = "claim" /\ q = r
  <2>1. CreatePendingDocument(q)
    BY <1>5 DEF Effect
  <2>2. claimedAt' = latest /\ status' # "absent"
    BY <1>1, <1>5, <2>1, ClaimNewest
  <2>3. pc'[r] = "processing"
    BY <1>5, StepTable DEF ControlOK
  <2> QED
    BY <1>3, <1>5, <2>2, <2>3 DEF NewestHolds, Succeeded
<1>6. CASE r # q /\ (r # latest \/ pc[r] = "claim")
  BY <1>3, <1>6 DEF NewestHolds, ControlOK, Succeeded, Runs
<1>7. CASE r = q /\ r # latest
  BY <1>1, <1>3, <1>7 DEF NewestHolds, Runs
<1> QED
  BY <1>4, <1>5, <1>6, <1>7

(* Nothing that the newest run's hold on the document depends on moves. *)
LEMMA NewestUnmoved ==
    ASSUME NewestHoldsToken, UNCHANGED <<claimedAt, by, latest, pc, pg>>,
           \A s \in stray' : s[1] <= latest,
           status' = "absent" => status = "absent"
    PROVE  NewestHoldsToken'
  BY DEF NewestHoldsToken, NewestHolds

ReliableClaims == "claim" \notin Faults /\ "delete" \notin ApiOps

LEMMA NewestInductive ==
    ASSUME ReliableClaims, TypeOK, TokenAgrees, ~deleting, NewestHoldsToken,
           [Next]_vars
    PROVE  NewestHoldsToken' /\ ~deleting'
<1>0. TablesOK /\ ControlOK
  BY TypeParts
<1>s. \A s \in stray : s[1] <= latest
  BY DEF NewestHoldsToken
<1>q. ASSUME NEW q \in Runs, pc[q] # "idle" PROVE q <= latest
  BY <1>0, <1>q DEF NewestHoldsToken, NewestHolds, ControlOK, Runs
<1>1. ASSUME NEW q \in Runs, ActivityReturns(q) PROVE NewestHoldsToken' /\ ~deleting'
  <2>1. PICK a \in Activities : pc[q] = a /\ Effect(q, a) /\ MoveTo(q, OnReturn[a])
    BY <1>1 DEF ActivityReturns
  <2>2. UNCHANGED <<latest, pg, stray, deleting>> /\ pc' = [pc EXCEPT ![q] = OnReturn[a]]
    BY <1>1, <2>1 DEF ActivityReturns, MoveTo
  <2> QED
    BY <1>0, <2>1, <2>2, NewestReturns
<1>2. ASSUME NEW q \in Runs, ResultLost(q) PROVE NewestHoldsToken' /\ ~deleting'
  <2>1. PICK a : Effect(q, a) \/ StoreProcessedDocument(q)
    BY <1>2 DEF ResultLost
  <2>2. UNCHANGED <<latest, pc, pg, stray, deleting>> /\ pc[q] # "idle"
    BY <1>2, StepTable DEF ResultLost, control
  <2> QED
    BY <1>0, <1>s, <1>q, <2>1, <2>2, NewestWrites
<1>3. ASSUME NEW q \in Runs, ActivityGivesUp(q) PROVE NewestHoldsToken' /\ ~deleting'
  <2>1. PICK a \in Activities :
            /\ pc[q] = a /\ MoveTo(q, OnExhausted(a))
            /\ a \in Faults \/ a = "chunk"
    BY <1>3 DEF ActivityGivesUp
  <2>2. /\ OnExhausted(a) \notin {"idle", "claim"}
        /\ OnExhausted(a) \in Succeeded => a \in Succeeded
        /\ a # "claim"
    BY <2>1, StepTable DEF OnExhausted, BestEffort, Succeeded, ReliableClaims
  <2>3. UNCHANGED <<row, latest, pg, stray, deleting>>
    BY <1>3 DEF ActivityGivesUp, MoveTo, tables
  <2>4. q <= latest /\ pc[q] = a /\ pc' = [pc EXCEPT ![q] = OnExhausted(a)]
    BY <1>q, <2>1, StepTable DEF MoveTo
  <2> QED
    BY <1>0, <1>s, <2>2, <2>3, <2>4, NewestMoves
<1>4. ASSUME NEW q \in Runs, AttemptTimesOut(q) PROVE NewestHoldsToken' /\ ~deleting'
  <2>1. \A s \in stray' : s[1] <= latest
    BY <1>s, <1>q, <1>4, InFlightOwner DEF AttemptTimesOut, IsOpen
  <2> QED
    BY <1>4, <2>1, NewestUnmoved DEF AttemptTimesOut, tables, row
<1>5. ASSUME NEW q \in Runs, StoreInPostgresql(q) PROVE NewestHoldsToken' /\ ~deleting'
  <2>1. pc[q] = "store" /\ UNCHANGED <<latest, pc, stray, deleting>>
    BY <1>5 DEF StoreInPostgresql
  <2>2. CASE StoreProcessedDocument(q) /\ pg' = [pg EXCEPT ![q] = "ok"]
    BY <1>0, <1>s, <1>q, <2>1, <2>2, NewestWrites
  <2>3. CASE UNCHANGED row /\ pg' = [pg EXCEPT ![q] = "superseded"]
    BY <1>0, <1>s, <1>q, <2>1, <2>3
    DEF NewestHoldsToken, NewestHolds, ControlOK, row, Runs
  <2> QED
    BY <1>5, <2>2, <2>3 DEF StoreInPostgresql, tables
<1>6. ASSUME NEW q \in Runs,
             StoreInWeaviate(q) \/ WeaviateBatchFails(q) \/ SweepStaging(q)
      PROVE  NewestHoldsToken' /\ ~deleting'
  <2>1. UNCHANGED <<row, latest, pc, pg, stray, deleting>>
    BY <1>6
    DEF StoreInWeaviate, WeaviateBatchFails, DeleteChunks, WriteChunks,
        SweepStaging, Stage, control, tables
  <2> QED
    BY <1>s, <2>1, NewestUnmoved DEF row
<1>7. ASSUME NEW q \in Runs, StoresReturn(q) \/ StoreGivesUp(q)
      PROVE  NewestHoldsToken' /\ ~deleting'
  <2>1. pc[q] = "store" /\ UNCHANGED <<row, latest, pg, deleting>>
    BY <1>7 DEF StoresReturn, StoreGivesUp, MoveTo, tables
  <2>2. PICK step \in {"stats", "markFailed"} :
            /\ pc' = [pc EXCEPT ![q] = step]
            /\ step = "stats" => pg[q] = "ok"
    BY <1>7 DEF StoresReturn, StoreGivesUp, MoveTo
  <2>3. \A s \in stray' : s[1] <= latest
    BY <1>s, <1>q, <1>7, <2>1, InFlightOwner DEF StoresReturn, StoreGivesUp
  <2> QED
    BY <1>0, <1>q, <2>1, <2>2, <2>3, NewestMoves DEF Succeeded
<1>8. ASSUME NEW q \in Runs, NEW a \in StrayActs, StrayLands(q, a)
      PROVE  NewestHoldsToken' /\ ~deleting'
  <2>1. q <= latest /\ UNCHANGED <<latest, pc, pg, deleting>>
    BY <1>s, <1>8 DEF StrayLands
  <2>2. \A s \in stray' : s[1] <= latest
    BY <1>s, <1>8, <2>1 DEF StrayLands
  <2>3. CASE Effect(q, a) \/ StoreProcessedDocument(q)
    BY <1>0, <2>1, <2>2, <2>3, NewestWrites
  <2>4. CASE UNCHANGED row
    BY <2>1, <2>2, <2>4, NewestUnmoved DEF row
  <2> QED
    BY <1>8, <2>3, <2>4 DEF StrayLands, DeleteChunks, WriteChunks, tables
<1>9. ASSUME NEW q \in Runs, NEW a \in StrayActs, StrayEnds(q, a)
      PROVE  NewestHoldsToken' /\ ~deleting'
  BY <1>s, <1>9, NewestUnmoved DEF StrayEnds, tables, row
<1>10. ASSUME NEW v \in Versions, Start(v) PROVE NewestHoldsToken' /\ ~deleting'
  <2>1. UNCHANGED <<row, pg, deleting>> /\ latest' = latest + 1
    BY <1>10 DEF Start, tables
  <2>2. \A s \in stray' : s[1] <= latest'
    BY <1>0, <1>s, <1>q, <1>10, <2>1, InFlightOwner
    DEF Start, IsOpen, ControlOK, Runs
  <2>3. ASSUME NEW r \in Runs PROVE NewestHolds(r)'
    <3>1. NewestHolds(r) /\ r \in Int /\ latest \in Int
      BY <1>0 DEF NewestHoldsToken, ControlOK, Runs
    <3>2. CASE r = latest + 1
      BY <1>10, <2>1, <3>1, <3>2 DEF Start, NewestHolds, Succeeded
    <3>3. CASE r > latest + 1
      BY <1>10, <2>1, <3>1, <3>3 DEF Start, NewestHolds, IsOpen
    <3>4. CASE r < latest + 1
      BY <2>1, <3>1, <3>4 DEF NewestHolds
    <3> QED
      BY <3>1, <3>2, <3>3, <3>4
  <2> QED
    BY <1>0, <2>1, <2>2, <2>3 DEF NewestHoldsToken, ControlOK, TablesOK, row
<1>11. CASE ResetPending \/ MarkDocumentFailed
  BY <1>s, <1>11, NewestUnmoved DEF ResetPending, MarkDocumentFailed, control
<1>12. CASE UNCHANGED vars
  BY <1>s, <1>12, NewestUnmoved DEF vars, tables, row, control
<1>13. ~(DeleteVectors \/ DeleteRow \/ DeleteAborts)
  BY DEF DeleteVectors, DeleteRow, DeleteAborts, ReliableClaims
<1> QED
  BY <1>1, <1>2, <1>3, <1>4, <1>5, <1>6, <1>7, <1>8, <1>9, <1>10, <1>11,
     <1>12, <1>13
  DEF Next, RunStep, StrayStep

(* The newest run's content stands: when claims do not fail for good and   *)
(* the document is not deleted meanwhile, no late store, status or claim   *)
(* of an older run displaces what the newest run has stored.               *)
THEOREM NewestWins ==
    ReliableClaims => (Spec => []NewestContentStands)
<1> SUFFICES ASSUME ReliableClaims PROVE Spec => []NewestContentStands
  OBVIOUS
<1>1. Init => NewestHoldsToken /\ ~deleting
  BY ConstantsAssumption
  DEF Init, NewestHoldsToken, NewestHolds, NoRun, Runs
<1>2. NewestHoldsToken => NewestContentStands
  BY DEF NewestHoldsToken, NewestHolds, NewestContentStands
<1> QED
  BY <1>1, <1>2, TypeCorrect, TokenConsistent, NewestInductive, PTL DEF Spec

-----------------------------------------------------------------------------
(* The workspace counter. *)

Counted == docCount = Cardinality(ledger)

LEMMA EffectCounted ==
    ASSUME TablesOK, Counted, NEW q \in Runs, NEW a, Effect(q, a)
    PROVE  Counted'
<1>1. CASE UNCHANGED <<ledger, docCount>>
  BY <1>1 DEF Counted
<1>2. CASE UpdateWorkspaceStats(q)
  <2>1. IsFiniteSet(ledger)
    <3>1. IsFiniteSet(Runs)
      BY FS_Interval, ConstantsAssumption DEF Runs
    <3> QED
      BY <3>1, FS_Subset DEF TablesOK
  <2>2. Cardinality(ledger \cup {q}) =
            IF q \in ledger THEN Cardinality(ledger) ELSE Cardinality(ledger) + 1
    BY <2>1, FS_AddElement
  <2> QED
    BY <1>2, <2>2 DEF Counted, UpdateWorkspaceStats
<1> QED
  BY <1>1, <1>2
  DEF Effect, CreatePendingDocument, UpdateDocumentStatus, Stage,
      ResolveDeadLetters, AddDeadLetter, PublishCompletion, tables, side

LEMMA CountedInductive ==
    ASSUME "delete" \notin ApiOps, TypeOK, ~deleting, Counted, [Next]_vars
    PROVE  Counted' /\ ~deleting'
<1>0. TablesOK
  BY TypeParts
<1>1. ASSUME NEW q \in Runs, ActivityReturns(q) PROVE Counted' /\ ~deleting'
  BY <1>0, <1>1, EffectCounted DEF ActivityReturns, MoveTo
<1>2. ASSUME NEW q \in Runs, ResultLost(q) PROVE Counted' /\ ~deleting'
  BY <1>0, <1>2, EffectCounted
  DEF ResultLost, StoreProcessedDocument, Counted, side
<1>3. ASSUME NEW q \in Runs, NEW a \in StrayActs, StrayLands(q, a)
      PROVE  Counted' /\ ~deleting'
  BY <1>0, <1>3, EffectCounted
  DEF StrayLands, StoreProcessedDocument, DeleteChunks, WriteChunks, Counted,
      tables, side
<1>4. ASSUME UNCHANGED <<ledger, docCount, deleting>> PROVE Counted' /\ ~deleting'
  BY <1>4 DEF Counted
<1>5. ASSUME NEW q \in Runs,
             \/ ActivityGivesUp(q) \/ AttemptTimesOut(q) \/ StoreInPostgresql(q)
             \/ StoreInWeaviate(q) \/ WeaviateBatchFails(q) \/ StoresReturn(q)
             \/ StoreGivesUp(q) \/ SweepStaging(q)
             \/ \E a \in StrayActs : StrayEnds(q, a)
      PROVE  UNCHANGED <<ledger, docCount, deleting>>
  BY <1>5
  DEF ActivityGivesUp, AttemptTimesOut, StoreInPostgresql, StoreProcessedDocument,
      StoreInWeaviate, DeleteChunks, WriteChunks, WeaviateBatchFails,
      StoresReturn, StoreGivesUp, MoveTo, SweepStaging, Stage, StrayEnds,
      tables, side
<1>6. ASSUME \/ ResetPending \/ MarkDocumentFailed \/ UNCHANGED vars
             \/ \E v \in Versions : Start(v)
      PROVE  UNCHANGED <<ledger, docCount, deleting>>
  BY <1>6 DEF ResetPending, MarkDocumentFailed, Start, vars, tables, side
<1>7. ~(DeleteVectors \/ DeleteRow \/ DeleteAborts)
  BY DEF DeleteVectors, DeleteRow, DeleteAborts
<1> QED
  BY <1>1, <1>2, <1>3, <1>4, <1>5, <1>6, <1>7 DEF Next, RunStep, StrayStep

(* While the document is not deleted, the workspace's counter counts each  *)
(* run at most once, whatever is retried, and misses no completed run.     *)
THEOREM StatsAreExact ==
    "delete" \notin ApiOps => (Spec => []StatsOncePerRun)
<1> SUFFICES ASSUME "delete" \notin ApiOps PROVE Spec => []StatsOncePerRun
  OBVIOUS
<1>1. Init => Counted /\ ~deleting /\ VerdictSteps
  BY FS_EmptySet
  DEF Init, Counted, VerdictSteps, VerdictStep, Announced, Succeeded
<1>2. Counted /\ VerdictSteps => StatsOncePerRun
  BY DEF Counted, VerdictSteps, VerdictStep, StatsOncePerRun, Succeeded
<1> QED
  BY <1>1, <1>2, TypeCorrect, VerdictInductive, CountedInductive, PTL DEF Spec

-----------------------------------------------------------------------------
(* The two stores agree.  What the hypothesis leaves out: a document       *)
(* deleted meanwhile; a claim that fails for good, after which the newest  *)
(* run does not hold the token; a failure that cannot be recorded, so that *)
(* the status stays "processed"; attempts that outlive their timeout, a    *)
(* Weaviate store that gives up and staging swept under an open run, each  *)
(* of which can leave a write of the newest run behind its verdict.        *)
ReliableStores ==
    /\ Faults \cap {"claim", "markFailed", "zombie", "wv", "partial", "sweep"} = {}
    /\ "delete" \notin ApiOps

Early == {"claim", "processing", "prepare", "extract", "chunk"}
Recorded == {"deadLetter", "publishFailed", "cleanupFailed", "failed"}

NoVectors == [i \in Slots |-> NoRun]
VectorsOf(r) == [i \in Slots |-> IF i \in ChunksOf[ver[r]] THEN r ELSE NoRun]

(* What the vectors are to the newest run r: while no write of another run *)
(* is past its fence check, they are what r's own store has made of them.  *)
VectorsOwned(r) ==
    /\ pc[r] # "claim" /\ OthersPastCheck(r) => exposed
    /\ pc[r] = "store" /\ wv[r] = "wvWrite" /\ ~exposed => vectors = NoVectors
    /\ pc[r] \in Succeeded \cup {"store"} /\ wv[r] = "ok" /\ ~exposed =>
           vectors = VectorsOf(r)

(* The newest run r: its progress, its failure on record, and its strays,  *)
(* which are Weaviate attempts left by a PostgreSQL store that gave up.    *)
RunOwned(r) ==
    /\ ver[r] \in Versions
    /\ pc[r] \in Early => wv[r] = "wvCheck"
    /\ pc[r] = "store" => staged[r] = "chunks"
    /\ pc[r] \in Recorded => status # "processed"
    /\ pc[r] # "terminated"
    /\ \A a \in StrayActs : <<r, a>> \in stray =>
           a \in WvSteps /\ pc[r] \in Recorded \cup {"markFailed"}

NewestOwnsStores ==
    /\ latest = 0 => status # "processed"
    /\ \A r \in Runs : /\ r < latest => ~IsOpen(r)
                       /\ r > latest => wv[r] = "wvCheck"
                       /\ r = latest => VectorsOwned(r) /\ RunOwned(r)

(* Only the newest run is open. *)
LEMMA OpenIsNewest ==
    ASSUME ControlOK, NewestHoldsToken, NewestOwnsStores, NEW q \in Runs, IsOpen(q)
    PROVE  q = latest
  BY DEF ControlOK, NewestHoldsToken, NewestHolds, NewestOwnsStores, IsOpen, Runs

(* Nothing that the other runs do or have done moves. *)
OthersRest(r) ==
    /\ latest' = latest
    /\ \A q \in Runs \ {r} : pc'[q] = pc[q] /\ wv'[q] = wv[q]

LEMMA OwnedStep ==
    ASSUME NewestOwnsStores, NEW r \in Runs, r = latest, OthersRest(r),
           VectorsOwned(r)', RunOwned(r)'
    PROVE  NewestOwnsStores'
<1>1. latest' = r /\ r # 0
  BY DEF OthersRest, Runs
<1>2. ASSUME NEW q \in Runs, q # r
      PROVE  (q < r => ~IsOpen(q)') /\ (q > r => wv'[q] = "wvCheck")
  BY <1>2 DEF OthersRest, NewestOwnsStores, IsOpen
<1> QED
  BY <1>1, <1>2 DEF NewestOwnsStores, Runs

(* No other run passes its fence check. *)
LEMMA PastStep ==
    ASSUME NEW r \in Runs, OthersRest(r),
           \A q \in Runs \ {r}, a \in {"wvDelete", "wvWrite"} :
               <<q, a>> \in stray' => <<q, a>> \in stray,
           OthersPastCheck(r)'
    PROVE  OthersPastCheck(r)
<1>1. PICK q \in Runs \ {r}, a \in {"wvDelete", "wvWrite"} :
          \/ <<q, a>> \in stray'
          \/ (pc'[q] = "store" /\ wv'[q] = a)
  BY DEF OthersPastCheck
<1> QED
  BY <1>1 DEF OthersPastCheck, OthersRest

(* What an activity leaves alone of the stores. *)
LEMMA EffectOwned ==
    ASSUME TablesOK, NEW q \in Runs, NEW a, Effect(q, a)
    PROVE  /\ UNCHANGED vectors
           /\ status' = "processed" => status = "processed"
           /\ exposed => exposed'
           /\ \A p \in Runs \ {q} : staged'[p] = staged[p]
<1> USE DEF TablesOK, tables, row, side
<1>1. CASE CreatePendingDocument(q)
  BY <1>1 DEF CreatePendingDocument
<1>2. CASE \E s \in {"processing", "failed"} : UpdateDocumentStatus(q, s)
  BY <1>2 DEF UpdateDocumentStatus
<1>3. CASE \E level \in {"none", "text", "chunks"} : Stage(q, level)
  BY <1>3 DEF Stage
<1>4. CASE UNCHANGED <<row, vectors, staged, exposed>>
  BY <1>4
<1> QED
  BY <1>1, <1>2, <1>3, <1>4
  DEF Effect, UpdateWorkspaceStats, ResolveDeadLetters, AddDeadLetter,
      PublishCompletion

(* An activity of the newest run returns. *)
LEMMA OwnedReturns ==
    ASSUME TypeOK, TokenAgrees, NewestHoldsToken, NewestOwnsStores,
           NEW r \in Runs, ActivityReturns(r)
    PROVE  NewestOwnsStores'
<1>0. TablesOK /\ ControlOK
  BY TypeParts
<1>1. PICK a \in Activities : pc[r] = a /\ Effect(r, a) /\ MoveTo(r, OnReturn[a])
  BY DEF ActivityReturns
<1>2. /\ UNCHANGED <<latest, ver, pg, wv, stray>>
      /\ pc' = [pc EXCEPT ![r] = OnReturn[a]] /\ pc'[r] = OnReturn[a]
  BY <1>0, <1>1 DEF ActivityReturns, MoveTo, ControlOK
<1>3. r = latest
  BY <1>0, <1>1, OpenIsNewest, StepTable DEF IsOpen, Closed
<1>4. OthersRest(r)
  BY <1>0, <1>2, <1>3 DEF OthersRest, ControlOK
<1>5. VectorsOwned(r) /\ RunOwned(r) /\ NewestHolds(r)
  BY <1>3 DEF NewestOwnsStores, NewestHoldsToken
<1>6. OthersPastCheck(r)' => OthersPastCheck(r)
  BY <1>2, <1>4, PastStep
<1>7. UNCHANGED vectors /\ (exposed => exposed')
      /\ (status' = "processed" => status = "processed")
  BY <1>0, <1>1, EffectOwned
<1>8. VectorsOwned(r)'
  <2>1. pc'[r] # "claim" /\ OthersPastCheck(r)' => exposed'
    <3>1. CASE a = "claim"
      BY <1>1, <1>6, <3>1 DEF Effect, CreatePendingDocument
    <3>2. CASE a # "claim"
      BY <1>1, <1>5, <1>6, <1>7, <3>2 DEF VectorsOwned
    <3> QED
      BY <3>1, <3>2
  <2>2. pc'[r] \in Succeeded \cup {"store"} =>
            pc[r] \in Succeeded \/ (wv'[r] = "wvCheck" /\ pc'[r] = "store")
    BY <1>1, <1>2, <1>5, StepTable DEF Succeeded, RunOwned, Early
  <2>3. pc[r] \in Succeeded => pc'[r] # "store"
    BY <1>1, <1>2, StepTable DEF Succeeded
  <2>4. VectorsOf(r)' = VectorsOf(r) /\ NoVectors' = NoVectors
    BY <1>2 DEF VectorsOf, NoVectors
  <2>5. pc'[r] = "store" /\ wv'[r] = "wvWrite" /\ ~exposed' => vectors' = NoVectors
    BY <2>2, <2>3
  <2>6. pc'[r] \in Succeeded \cup {"store"} /\ wv'[r] = "ok" /\ ~exposed' =>
            vectors' = VectorsOf(r)
    BY <1>2, <1>5, <1>7, <2>2 DEF VectorsOwned
  <2> QED
    BY <2>1, <2>4, <2>5, <2>6 DEF VectorsOwned
<1>9. RunOwned(r)'
  <2>1. pc'[r] = "store" => staged'[r] = "chunks"
    <3>1. pc'[r] = "store" => a = "chunk"
      BY <1>2, StepTable
    <3>2. a = "chunk" => staged'[r] = "chunks"
      BY <1>0, <1>1 DEF Effect, Stage, TablesOK
    <3> QED
      BY <3>1, <3>2
  <2>2. pc'[r] \in Recorded => status' # "processed"
    <3>1. CASE a = "markFailed"
      <4>1. claimedAt = r /\ status # "absent"
        BY <1>1, <1>3, <1>5, <3>1 DEF NewestHolds
      <4>2. IsActiveRun(r)
        BY <4>1, <1>3 DEF TokenAgrees, IsActiveRun, NoRun, Runs
      <4> QED
        BY <1>1, <3>1, <4>1, <4>2 DEF Effect, UpdateDocumentStatus
    <3>2. CASE a # "markFailed"
      BY <1>1, <1>2, <1>5, <1>7, <3>2, StepTable DEF RunOwned, Recorded
    <3> QED
      BY <3>1, <3>2
  <2>3. pc'[r] \in Early => wv'[r] = "wvCheck"
    BY <1>1, <1>2, <1>5, StepTable DEF RunOwned, Early
  <2>4. pc'[r] # "terminated"
    BY <1>2, StepTable
  <2>5. pc[r] \in Recorded \cup {"markFailed"} => pc'[r] \in Recorded
    BY <1>1, <1>2, StepTable DEF Recorded
  <2> QED
    BY <1>2, <1>5, <2>1, <2>2, <2>3, <2>4, <2>5 DEF RunOwned
<1> QED
  BY <1>3, <1>4, <1>8, <1>9, OwnedStep

(* Its result is lost. *)
LEMMA OwnedResultLost ==
    ASSUME TypeOK, NewestHoldsToken, NewestOwnsStores,
           NEW r \in Runs, ResultLost(r)
    PROVE  NewestOwnsStores'
<1>0. TablesOK /\ ControlOK
  BY TypeParts
<1>1. UNCHANGED <<latest, pc, ver, pg, wv, stray>>
  BY DEF ResultLost, control
<1>2. r = latest
  BY <1>0, OpenIsNewest, StepTable DEF ResultLost, IsOpen, Closed
<1>3. OthersRest(r)
  BY <1>1 DEF OthersRest
<1>4. VectorsOwned(r) /\ RunOwned(r)
  BY <1>2 DEF NewestOwnsStores
<1>5. OthersPastCheck(r)' => OthersPastCheck(r)
  BY <1>1, <1>3, PastStep
<1>6. /\ UNCHANGED vectors /\ (exposed => exposed')
      /\ pc[r] \in Recorded /\ status' = "processed" => status = "processed"
      /\ pc[r] = "store" => UNCHANGED staged
  <2>1. CASE \E a \in Activities : pc[r] = a /\ Effect(r, a)
    BY <1>0, <2>1, EffectOwned, StepTable
  <2>2. CASE pc[r] = "store" /\ StoreProcessedDocument(r)
    BY <2>2 DEF StoreProcessedDocument, side, Recorded
  <2> QED
    BY <2>1, <2>2 DEF ResultLost
<1>7. VectorsOwned(r)'
  BY <1>1, <1>4, <1>5, <1>6 DEF VectorsOwned, VectorsOf, NoVectors
<1>8. RunOwned(r)'
  BY <1>1, <1>4, <1>6 DEF RunOwned
<1> QED
  BY <1>2, <1>3, <1>7, <1>8, OwnedStep

(* An activity gives up, or both stores have returned. *)
LEMMA OwnedMoves ==
    ASSUME ReliableStores, TypeOK, NewestHoldsToken, NewestOwnsStores,
           NEW r \in Runs, ActivityGivesUp(r) \/ StoresReturn(r)
    PROVE  NewestOwnsStores'
<1>0. TablesOK /\ ControlOK
  BY TypeParts
<1>1. UNCHANGED <<tables, latest, ver, pg, wv, stray, exposed>>
  BY DEF ActivityGivesUp, StoresReturn, MoveTo
<1>2. r = latest
  BY <1>0, OpenIsNewest, StepTable DEF ActivityGivesUp, StoresReturn, IsOpen, Closed
<1>3. VectorsOwned(r) /\ RunOwned(r)
  BY <1>2 DEF NewestOwnsStores
<1>4. PICK step : pc' = [pc EXCEPT ![r] = step]
  BY DEF ActivityGivesUp, StoresReturn, MoveTo
<1>5. pc'[r] = step /\ OthersRest(r)
  BY <1>0, <1>1, <1>4 DEF OthersRest, ControlOK
<1>6. OthersPastCheck(r)' => OthersPastCheck(r)
  BY <1>1, <1>5, PastStep
<1>7. /\ pc[r] # "claim" /\ step \notin {"claim", "store", "terminated"}
      /\ step \in Recorded => pc[r] \in Recorded
      /\ step \in Early => pc[r] \in Early
      /\ step \in Succeeded => pc[r] \in Succeeded \cup {"store"}
      /\ pc[r] \in Recorded \cup {"markFailed"} => step \in Recorded \cup {"markFailed"}
  <2>1. CASE StoresReturn(r)
    <3>1. pc[r] = "store" /\ step \in {"stats", "markFailed"}
      BY <1>0, <1>5, <2>1 DEF StoresReturn, MoveTo, ControlOK
    <3> QED
      BY <3>1 DEF Recorded, Early, Succeeded
  <2>2. CASE ActivityGivesUp(r)
    <3>1. PICK a \in Activities :
              /\ pc[r] = a /\ (a \in Faults \/ a = "chunk")
              /\ MoveTo(r, OnExhausted(a))
      BY <2>2 DEF ActivityGivesUp
    <3>2. a \notin {"claim", "markFailed"} /\ step = OnExhausted(a)
      BY <1>0, <1>5, <3>1 DEF ReliableStores, MoveTo, ControlOK
    <3> QED
      BY <3>1, <3>2, StepTable
      DEF OnExhausted, BestEffort, Recorded, Early, Succeeded
  <2> QED
    BY <2>1, <2>2
<1>8. VectorsOwned(r)'
  BY <1>1, <1>3, <1>5, <1>6, <1>7
  DEF VectorsOwned, VectorsOf, NoVectors, tables
<1>9. RunOwned(r)'
  BY <1>1, <1>3, <1>5, <1>7 DEF RunOwned, tables, row, side
<1> QED
  BY <1>2, <1>5, <1>8, <1>9, OwnedStep

(* The stores of the newest run, and their giving up: with its staged text *)
(* in place only the PostgreSQL store gives up, and leaves a Weaviate      *)
(* attempt behind at most.                                                 *)
LEMMA OwnedStores ==
    ASSUME TypeOK, NewestHoldsToken, NewestOwnsStores,
           NEW r \in Runs, StoreInPostgresql(r) \/ StoreInWeaviate(r)
    PROVE  NewestOwnsStores'
<1>0. TablesOK /\ ControlOK
  BY TypeParts
<1>1. pc[r] = "store" /\ UNCHANGED <<latest, pc, ver, stray, staged>>
  BY DEF StoreInPostgresql, StoreInWeaviate, StoreProcessedDocument,
         DeleteChunks, WriteChunks, tables, side
<1>2. r = latest
  BY <1>0, <1>1, OpenIsNewest DEF IsOpen, Closed
<1>3. VectorsOwned(r) /\ RunOwned(r)
  BY <1>2 DEF NewestOwnsStores
<1>4. PICK s : wv' = [wv EXCEPT ![r] = s]
  <2>1. CASE StoreInPostgresql(r)
    BY <1>0, <2>1 DEF StoreInPostgresql, ControlOK
  <2>2. CASE StoreInWeaviate(r)
    BY <2>2 DEF StoreInWeaviate
  <2> QED
    BY <2>1, <2>2
<1>5. OthersRest(r)
  BY <1>0, <1>1, <1>4 DEF OthersRest, ControlOK
<1>6. OthersPastCheck(r)' => OthersPastCheck(r)
  BY <1>1, <1>5, PastStep
<1>7. RunOwned(r)'
  BY <1>1, <1>3 DEF RunOwned, Early, Recorded
<1>8. NoVectors' = NoVectors /\ VectorsOf(r)' = VectorsOf(r)
  BY <1>1 DEF NoVectors, VectorsOf
<1>9. VectorsOwned(r)'
  <2>1. CASE StoreInPostgresql(r) /\ UNCHANGED wv
    <3>1. UNCHANGED <<vectors, exposed>>
      BY <2>1 DEF StoreInPostgresql, StoreProcessedDocument, tables
    <3> QED
      BY <1>1, <1>3, <1>6, <1>8, <2>1, <3>1 DEF VectorsOwned
  <2>2. CASE wv[r] = "wvCheck" /\ wv'[r] \in {"wvDelete", "superseded"}
             /\ UNCHANGED <<tables, exposed>>
    BY <1>1, <1>3, <1>6, <2>2 DEF VectorsOwned, tables
  <2>3. CASE DeleteChunks(r) /\ wv'[r] = "wvWrite"
    BY <1>1, <1>6, <1>8, <2>3 DEF VectorsOwned, DeleteChunks, NoVectors
  <2>4. CASE wv[r] = "wvWrite" /\ WriteChunks(r, ChunksOf[ver[r]]) /\ wv'[r] = "ok"
    <3>1. /\ UNCHANGED exposed
          /\ vectors = NoVectors => vectors' = VectorsOf(r)
      BY <2>4 DEF WriteChunks, NoVectors, VectorsOf
    <3> QED
      BY <1>1, <1>3, <1>6, <1>8, <2>4, <3>1 DEF VectorsOwned
  <2>5. StoreInPostgresql(r) => UNCHANGED wv
    BY DEF StoreInPostgresql
  <2>6. StoreInWeaviate(r) =>
            \/ wv[r] = "wvCheck" /\ wv'[r] \in {"wvDelete", "superseded"}
               /\ UNCHANGED <<tables, exposed>>
            \/ DeleteChunks(r) /\ wv'[r] = "wvWrite"
            \/ wv[r] = "wvWrite" /\ WriteChunks(r, ChunksOf[ver[r]]) /\ wv'[r] = "ok"
    BY <1>0 DEF StoreInWeaviate, ControlOK
  <2> QED
    BY <2>1, <2>2, <2>3, <2>4, <2>5, <2>6
<1> QED
  BY <1>2, <1>5, <1>7, <1>9, OwnedStep

LEMMA OwnedGivesUp ==
    ASSUME ReliableStores, TypeOK, NewestHoldsToken, NewestOwnsStores,
           NEW r \in Runs, StoreGivesUp(r)
    PROVE  NewestOwnsStores'
<1>0. TablesOK /\ ControlOK
  BY TypeParts
<1>1. /\ pc[r] = "store" /\ UNCHANGED <<tables, latest, ver, pg, wv, exposed>>
      /\ pc' = [pc EXCEPT ![r] = "markFailed"]
  BY DEF StoreGivesUp, MoveTo
<1>2. r = latest
  BY <1>0, <1>1, OpenIsNewest DEF IsOpen, Closed
<1>3. VectorsOwned(r) /\ RunOwned(r)
  BY <1>2 DEF NewestOwnsStores
<1>4. pc'[r] = "markFailed" /\ OthersRest(r)
  BY <1>0, <1>1 DEF OthersRest, ControlOK
<1>5. pg[r] = "pg" /\ stray' = stray \cup (InFlight(r) \ {<<r, "pg">>})
  <2>1. staged[r] = "chunks" /\ {"wv", "partial"} \cap Faults = {}
    BY <1>1, <1>3 DEF RunOwned, ReliableStores
  <2> QED
    BY <2>1 DEF StoreGivesUp
<1>6. \A q \in Runs, a \in StrayActs : <<q, a>> \in stray' =>
          <<q, a>> \in stray \/ (q = r /\ a \in WvSteps)
  <2>1. \A q \in Runs, a \in StrayActs : <<q, a>> \in InFlight(r) \ {<<r, "pg">>} =>
            q = r /\ a \in WvSteps
    BY <1>1, <1>5 DEF InFlight
  <2> QED
    BY <1>5, <2>1
<1>7. OthersPastCheck(r)' => OthersPastCheck(r)
  BY <1>4, <1>6, PastStep DEF StrayActs, WvSteps
<1>8. VectorsOwned(r)'
  BY <1>1, <1>3, <1>4, <1>7 DEF VectorsOwned, Succeeded
<1>9. RunOwned(r)'
  BY <1>1, <1>3, <1>4, <1>6 DEF RunOwned, Early, Recorded
<1> QED
  BY <1>2, <1>4, <1>8, <1>9, OwnedStep

(* An attempt that nobody waits for lands.  One of an older run is fenced  *)
(* once the newest run has claimed the document, or is past its check and  *)
(* leaves the newest run exposed.                                          *)
LEMMA OwnedStrayLands ==
    ASSUME TypeOK, TokenAgrees, NewestHoldsToken, NewestOwnsStores,
           NEW q \in Runs, NEW a \in StrayActs, StrayLands(q, a)
    PROVE  NewestOwnsStores'
<1>0. TablesOK /\ ControlOK
  BY TypeParts
<1>1. <<q, a>> \in stray /\ UNCHANGED <<latest, pc, ver, pg, wv>>
  BY DEF StrayLands
<1>2. q <= latest
  BY <1>1 DEF NewestHoldsToken
<1>3. PICK r \in Runs : r = latest
  BY <1>0, <1>2 DEF ControlOK, Runs
<1>4. VectorsOwned(r) /\ RunOwned(r) /\ NewestHolds(r)
  BY <1>3 DEF NewestOwnsStores, NewestHoldsToken
<1>5. OthersRest(r)
  BY <1>1 DEF OthersRest
<1>6. NoVectors' = NoVectors /\ VectorsOf(r)' = VectorsOf(r)
  BY <1>1 DEF NoVectors, VectorsOf
<1>7. pc[r] # "claim" /\ q # r =>
          status # "absent" /\ ~IsActiveRun(q)
  BY <1>3, <1>4 DEF NewestHolds, TokenAgrees, IsActiveRun, NoRun, Runs
<1>8. CASE q = r
  <2>1. a \in WvSteps /\ pc[r] \in Recorded \cup {"markFailed"}
    BY <1>1, <1>4, <1>8 DEF RunOwned
  <2>2. /\ stray' \subseteq stray \cup {<<r, "wvDelete">>, <<r, "wvWrite">>}
        /\ UNCHANGED <<row, side>>
        /\ exposed' = exposed \/ DeleteChunks(r)
    BY <1>8, <2>1, StepTable
    DEF StrayLands, WvSteps, DeleteChunks, WriteChunks, tables
  <2>3. OthersPastCheck(r)' => OthersPastCheck(r)
    BY <1>5, <2>2, PastStep
  <2>4. OthersPastCheck(r)' => exposed'
    <3>1. CASE exposed' = exposed
      BY <1>4, <2>1, <2>3, <3>1 DEF VectorsOwned, Recorded
    <3>2. CASE DeleteChunks(r)
      BY <2>3, <3>2 DEF DeleteChunks
    <3> QED
      BY <2>2, <3>1, <3>2
  <2>5. VectorsOwned(r)'
    BY <1>1, <2>1, <2>4 DEF VectorsOwned, Recorded, Succeeded
  <2>6. RunOwned(r)'
    BY <1>1, <1>4, <2>1, <2>2 DEF RunOwned, row, side, WvSteps
  <2> QED
    BY <1>3, <1>5, <2>5, <2>6, OwnedStep
<1>9. CASE q # r /\ pc[r] = "claim"
  <2>1. stray' \subseteq stray \cup {<<q, "wvDelete">>, <<q, "wvWrite">>}
    BY DEF StrayLands
  <2>2. VectorsOwned(r)'
    BY <1>1, <1>9 DEF VectorsOwned, Succeeded
  <2>3. RunOwned(r)'
    BY <1>1, <1>4, <1>9, <2>1 DEF RunOwned, Recorded
  <2> QED
    BY <1>3, <1>5, <2>2, <2>3, OwnedStep
<1>10. CASE q # r /\ pc[r] # "claim"
  <2>1. ~StoreProcessedDocument(q)
    BY <1>7, <1>10 DEF StoreProcessedDocument
  <2>2. a # "wvCheck"
    BY <1>7, <1>10, StepTable DEF StrayLands
  <2>3. \A p \in Runs, b \in StrayActs : <<p, b>> \in stray' =>
            <<p, b>> \in stray \/ (p = q /\ a = "wvDelete" /\ b = "wvWrite")
    BY <2>2 DEF StrayLands
  <2>4. CASE a \in {"wvDelete", "wvWrite"}
    <3>1. OthersPastCheck(r) /\ exposed
      BY <1>1, <1>4, <1>10, <2>4 DEF VectorsOwned, OthersPastCheck
    <3>2. DeleteChunks(q) \/ WriteChunks(q, ChunksOf[ver[q]])
      BY <2>4, StepTable DEF StrayLands
    <3>3. exposed' /\ UNCHANGED <<row, side>>
      <4>1. active # q
        BY <1>7, <1>10 DEF IsActiveRun
      <4> QED
        BY <3>1, <3>2, <4>1 DEF DeleteChunks, WriteChunks
    <3>4. VectorsOwned(r)'
      BY <3>3 DEF VectorsOwned
    <3>5. RunOwned(r)'
      BY <1>1, <1>4, <1>10, <2>3, <3>3 DEF RunOwned, row, side
    <3> QED
      BY <1>3, <1>5, <3>4, <3>5, OwnedStep
  <2>5. CASE a \notin {"wvDelete", "wvWrite"}
    <3>1. Effect(q, a)
      BY <2>1, <2>2, <2>5 DEF StrayLands
    <3>2. /\ UNCHANGED vectors /\ (exposed => exposed') /\ staged'[r] = staged[r]
          /\ (status' = "processed" => status = "processed")
      BY <1>0, <1>10, <3>1, EffectOwned
    <3>3. OthersPastCheck(r)' => OthersPastCheck(r)
      BY <1>5, <2>3, <2>5, PastStep DEF StrayActs, WvSteps
    <3>4. VectorsOwned(r)'
      BY <1>1, <1>4, <1>6, <3>2, <3>3 DEF VectorsOwned
    <3>5. RunOwned(r)'
      BY <1>1, <1>4, <2>3, <2>5, <3>2 DEF RunOwned
    <3> QED
      BY <1>3, <1>5, <3>4, <3>5, OwnedStep
  <2> QED
    BY <2>4, <2>5
<1> QED
  BY <1>8, <1>9, <1>10

(* Nothing moves but the status, which does not become processed, what is  *)
(* staged for a run that has ended, or the attempts outstanding.           *)
LEMMA OwnedUnmoved ==
    ASSUME ControlOK, NewestOwnsStores,
           UNCHANGED <<latest, pc, ver, wv, vectors, exposed>>,
           stray' \subseteq stray,
           status' = "processed" => status = "processed",
           \A q \in Runs : IsOpen(q) => staged'[q] = staged[q]
    PROVE  NewestOwnsStores'
<1>1. CASE latest = 0
  BY <1>1 DEF NewestOwnsStores, IsOpen, Runs
<1>2. CASE latest # 0
  <2>1. PICK r \in Runs : r = latest
    BY <1>2 DEF ControlOK, Runs
  <2>2. VectorsOwned(r) /\ RunOwned(r)
    BY <2>1 DEF NewestOwnsStores
  <2>3. OthersRest(r)
    BY DEF OthersRest
  <2>4. OthersPastCheck(r)' => OthersPastCheck(r)
    BY <2>3, PastStep
  <2>5. VectorsOwned(r)'
    BY <2>2, <2>4 DEF VectorsOwned, VectorsOf, NoVectors
  <2>6. RunOwned(r)'
    BY <2>2 DEF RunOwned, IsOpen, Closed
  <2> QED
    BY <2>1, <2>3, <2>5, <2>6, OwnedStep
<1> QED
  BY <1>1, <1>2

(* A new run starts: it has done nothing yet, and every other run is over. *)
LEMMA OwnedStart ==
    ASSUME TypeOK, NewestHoldsToken, NewestOwnsStores,
           NEW v \in Versions, Start(v)
    PROVE  NewestOwnsStores'
<1>0. TablesOK /\ ControlOK
  BY TypeParts
<1>1. PICK r \in Runs : r = latest + 1
  BY <1>0, ConstantsAssumption DEF Start, ControlOK, Runs
<1>2. /\ latest' = r /\ r # 0 /\ UNCHANGED wv
      /\ pc'[r] = "claim" /\ ver'[r] = v
      /\ \A q \in Runs \ {r} : pc'[q] = IF IsOpen(q) THEN "terminated" ELSE pc[q]
  BY <1>0, <1>1 DEF Start, ControlOK, Runs
<1>3. \A q \in Runs \ {r} : ~IsOpen(q)'
  BY <1>2 DEF IsOpen, Closed
<1>4. \A q \in Runs : q > latest => wv[q] = "wvCheck"
  BY DEF NewestOwnsStores
<1>5. wv[r] = "wvCheck" /\ \A q \in Runs : q > r => wv'[q] = "wvCheck"
  BY <1>0, <1>1, <1>2, <1>4 DEF ControlOK, Runs
<1>6. \A a \in StrayActs : <<r, a>> \notin stray'
  <2> SUFFICES ASSUME NEW a \in StrayActs, <<r, a>> \in stray' PROVE FALSE
    OBVIOUS
  <2>1. <<r, a>> \notin stray
    BY <1>0, <1>1 DEF NewestHoldsToken, ControlOK
  <2>2. PICK q \in Runs : IsOpen(q) /\ <<r, a>> \in InFlight(q)
    BY <2>1 DEF Start
  <2>3. q = r
    BY <2>2 DEF InFlight
  <2> QED
    BY <1>0, <1>1, <2>2, <2>3, OpenIsNewest DEF ControlOK
<1>7. VectorsOwned(r)'
  BY <1>2 DEF VectorsOwned, Succeeded
<1>8. RunOwned(r)'
  BY <1>2, <1>5, <1>6 DEF RunOwned, Recorded
<1> QED
  BY <1>2, <1>3, <1>5, <1>7, <1>8 DEF NewestOwnsStores, Runs

LEMMA OwnedInductive ==
    ASSUME ReliableStores, TypeOK, TokenAgrees, ~deleting, NewestHoldsToken,
           NewestOwnsStores, [Next]_vars
    PROVE  NewestOwnsStores'
<1>0. TablesOK /\ ControlOK
  BY TypeParts
<1>1. ASSUME NEW r \in Runs, RunStep(r) PROVE NewestOwnsStores'
  BY <1>1, OwnedReturns, OwnedMoves, OwnedStores, OwnedGivesUp DEF RunStep
<1>2. ASSUME NEW r \in Runs, ResultLost(r) PROVE NewestOwnsStores'
  BY <1>2, OwnedResultLost
<1>3. ASSUME NEW r \in Runs PROVE ~AttemptTimesOut(r) /\ ~WeaviateBatchFails(r)
  BY DEF AttemptTimesOut, WeaviateBatchFails, ReliableStores
<1>4. ASSUME NEW r \in Runs, SweepStaging(r) PROVE NewestOwnsStores'
  <2>1. ~IsOpen(r)
    BY <1>4 DEF SweepStaging, ReliableStores
  <2>2. \A q \in Runs : IsOpen(q) => staged'[q] = staged[q]
    BY <1>0, <1>4, <2>1 DEF SweepStaging, Stage, TablesOK
  <2> QED
    BY <1>0, <1>4, <2>2, OwnedUnmoved DEF SweepStaging, Stage, control, row
<1>5. ASSUME NEW r \in Runs, NEW a \in StrayActs, StrayStep(r, a)
      PROVE  NewestOwnsStores'
  <2>1. CASE StrayLands(r, a)
    BY <2>1, OwnedStrayLands
  <2>2. CASE StrayEnds(r, a)
    BY <1>0, <2>2, OwnedUnmoved DEF StrayEnds, tables, row, side
  <2> QED
    BY <1>5, <2>1, <2>2 DEF StrayStep
<1>6. ASSUME NEW v \in Versions, Start(v) PROVE NewestOwnsStores'
  BY <1>6, OwnedStart
<1>7. CASE ResetPending \/ MarkDocumentFailed
  BY <1>0, <1>7, OwnedUnmoved DEF ResetPending, MarkDocumentFailed, control, side
<1>8. ~(DeleteVectors \/ DeleteRow \/ DeleteAborts)
  BY DEF DeleteVectors, DeleteRow, DeleteAborts, ReliableStores
<1>9. CASE UNCHANGED vars
  BY <1>0, <1>9, OwnedUnmoved DEF vars, tables, row, side, control
<1> QED
  BY <1>1, <1>2, <1>3, <1>4, <1>5, <1>6, <1>7, <1>8, <1>9 DEF Next

(* When the newest run has ended and the document reads processed, the run *)
(* completed, and the vectors are those of its own store.                  *)
LEMMA OwnedAgree ==
    ASSUME TypeOK, NewestHoldsToken, VerdictSteps, NewestOwnsStores,
           Quiet, status = "processed", ~exposed
    PROVE  Agree
<1>0. TablesOK /\ ControlOK
  BY TypeParts
<1>1. PICK r \in Runs : r = latest
  BY <1>0 DEF NewestOwnsStores, ControlOK, Runs
<1>2. VectorsOwned(r) /\ RunOwned(r) /\ NewestHolds(r) /\ VerdictStep(r)
  BY <1>1 DEF NewestOwnsStores, NewestHoldsToken, VerdictSteps
<1>3. pc[r] = "completed"
  <2>1. pc[r] \in Closed
    BY <1>1, <1>2 DEF Quiet, IsOpen, NewestHolds
  <2> QED
    BY <1>2, <2>1 DEF Closed, RunOwned, Recorded
<1>4. by = r /\ vectors = VectorsOf(r)
  BY <1>1, <1>2, <1>3 DEF Succeeded, VerdictStep, VectorsOwned, NewestHolds
<1>5. r # NoRun
  BY DEF Runs, NoRun
<1> QED
  BY <1>4, <1>5 DEF Agree, VectorsOf

(* PostgreSQL and Weaviate agree once a document's runs have ended: when   *)
(* no write was past its fence check at a claim, the vectors of a document *)
(* that reads processed are those of the chunks stored, whatever else      *)
(* fails, is lost, repeated or terminated halfway (store_in_postgresql,    *)
(* store_in_weaviate, the workflow's gather and its except branch).        *)
THEOREM StoresEndUpEqual ==
    ReliableStores => (Spec => []StoresAgree)
<1> SUFFICES ASSUME ReliableStores PROVE Spec => []StoresAgree
  OBVIOUS
<1>1. ReliableClaims
  BY DEF ReliableStores, ReliableClaims
<1>2. Init => NewestHoldsToken /\ NewestOwnsStores /\ ~deleting
  BY ConstantsAssumption
  DEF Init, NewestHoldsToken, NewestHolds, NewestOwnsStores, IsOpen, NoRun, Runs
<1>3. TypeOK /\ NewestHoldsToken /\ VerdictSteps /\ NewestOwnsStores => StoresAgree
  BY OwnedAgree DEF StoresAgree
<1>4. TypeOK /\ TokenAgrees /\ ~deleting /\ NewestHoldsToken /\ NewestOwnsStores
          /\ [Next]_vars
      => NewestHoldsToken' /\ ~deleting' /\ NewestOwnsStores'
  BY <1>1, NewestInductive, OwnedInductive
<1> QED
  BY <1>2, <1>3, <1>4, TypeCorrect, TokenConsistent, VerdictFollowsItsStep, PTL
  DEF Spec
=============================================================================
