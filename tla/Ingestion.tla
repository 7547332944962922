----------------------------- MODULE Ingestion -----------------------------
(***************************************************************************)
(* Ingestion of ONE document by inh-ingestion-svc: the Temporal workflow   *)
(* DocumentIngestionWorkflow, the activities it schedules, and the tables  *)
(* and the vector collection they write.                                   *)
(*                                                                         *)
(* Every upload, refresh or dead-letter retry of a document starts a run   *)
(* of the same workflow id.  A new run terminates the one still open, but  *)
(* Temporal does not stop an activity attempt a worker has already picked  *)
(* up: the attempt may still write, at any later time or never.  Such an   *)
(* attempt is a stray here.  An attempt that outlives its timeout while    *)
(* the workflow goes on is a stray as well.  The fencing token on the      *)
(* document's row (active_run_id, active_run_claimed_at) is what keeps the *)
(* strays of old runs from damaging what a newer run stored.               *)
(*                                                                         *)
(* Runs are numbered in the order of workflow.info().start_time; a number  *)
(* stands both for the run id and for its start time, and 0 for SQL NULL.  *)
(* Retries of an activity are not counted: giving up is possible at any    *)
(* attempt, which covers every maximum_attempts of the retry policies.     *)
(***************************************************************************)
EXTENDS Integers, FiniteSets

CONSTANTS
    MaxRuns,    \* how many runs of the workflow are ever started (bound)
    MaxZombies, \* how many strays a timeout may add to (bound)
    Versions,   \* the contents that upload events name
    NoVersion,  \* the version of a run not started yet
    Slots,      \* chunk indexes
    ChunksOf,   \* the chunk indexes that chunk_text makes of each version
    Faults,     \* which failures may happen, see FaultKinds
    ApiOps      \* which public API calls may touch the row, see ApiKinds

FaultKinds ==
    {"claim", "processing", "prepare", "extract", "chunk", "pg", "wv",
     "stats", "resolve", "publishOk", "markFailed", "deadLetter",
     "publishFailed", "cleanupOk", "cleanupFailed",
       \* the activity of that name uses up its attempts
     "lostAck",    \* an activity takes effect but its result is lost
     "zombie",     \* an attempt given up on keeps running in its worker
     "partial",    \* a Weaviate batch fails after writing some objects
     "wvDelete",   \* the delete before a Weaviate write fails
     "sweep"}      \* the staging sweep meets a run older than one hour

ApiKinds == {"reset", "markFailed", "delete"}

Runs == 1..MaxRuns
NoRun == 0

ASSUME ConstantsAssumption ==
    /\ MaxRuns \in Nat /\ MaxZombies \in Nat
    /\ NoVersion \notin Versions
    /\ ChunksOf \in [Versions -> SUBSET Slots]
    /\ Faults \subseteq FaultKinds
    /\ ApiOps \subseteq ApiKinds

VARIABLES
    \* processed_documents and document_chunks
    status,     \* the row's status; "absent" when there is no row
    reporter,   \* history: the run that wrote the status, 0 for the API
    active,     \* active_run_id
    claimedAt,  \* active_run_claimed_at
    by,         \* the run whose chunks document_chunks holds
    \* the other stores
    vectors,    \* Weaviate: the run that wrote the object at each index
    staged,     \* ingestion_staging, per run
    dl,         \* dead_letter_jobs, per run: the status of the run's row
    ledger,     \* workspace_stats_ledger
    docCount,   \* workspace_metadata.document_count
    published,  \* completion events, per run
    \* Temporal
    latest,     \* the run started last
    pc,         \* per run: the activity it awaits, or how it ended
    ver,        \* per run: the version its event names
    pg, wv,     \* per run: the two store activities of the gather
    stray,      \* attempts <<run, activity>> nobody waits for
    \* public API
    deleting,   \* a delete request is between its two stores
    \* history: a Weaviate write may land that no fence check covers
    exposed

row == <<status, reporter, active, claimedAt, by>>
side == <<staged, dl, ledger, docCount, published>>
tables == <<row, vectors, side>>
control == <<latest, pc, ver, pg, wv, stray>>
vars == <<tables, control, deleting, exposed>>

-----------------------------------------------------------------------------
(* The workflow's steps, document_ingestion.py run(). *)

(* What a run does next when the activity it awaits returns. *)
OnReturn ==
    [claim |-> "processing", processing |-> "prepare", prepare |-> "extract",
     extract |-> "chunk", chunk |-> "store",
     stats |-> "resolve", resolve |-> "publishOk", publishOk |-> "cleanupOk",
     cleanupOk |-> "completed",
     markFailed |-> "deadLetter", deadLetter |-> "publishFailed",
     publishFailed |-> "cleanupFailed", cleanupFailed |-> "failed"]

(* The activities awaited one at a time; the two stores run side by side. *)
Activities == DOMAIN OnReturn

(* Broken variant: a completion event that cannot be published is fatal. *)
BestEffortWithoutPublish ==
    Activities \ {"prepare", "extract", "chunk", "stats", "publishOk"}

(* Their failure is logged and swallowed; that of the others is terminal. *)
BestEffort == Activities \ {"prepare", "extract", "chunk", "stats"}

(* What a run does next when the activity's attempts are used up. *)
OnExhausted(a) == IF a \in BestEffort THEN OnReturn[a] ELSE "markFailed"

Closed == {"completed", "failed", "terminated"}
Steps == Activities \cup Closed \cup {"idle", "store"}

IsOpen(r) == pc[r] \notin Closed \cup {"idle"}

WvSteps == {"wvCheck", "wvDelete", "wvWrite"}

(* The attempts of run r that a worker may hold now. *)
InFlight(r) ==
    IF pc[r] = "store"
    THEN {<<r, a>> : a \in ({"pg"} \cap {pg[r]}) \cup (WvSteps \cap {wv[r]})}
    ELSE {<<r, a>> : a \in {pc[r]} \cap (Activities \ {"prepare"})}

-----------------------------------------------------------------------------
(* What the activities do to the tables. *)

(* is_active_run, and the WHERE of every fenced write. *)
IsActiveRun(r) == active \in {NoRun, r}

(* A Weaviate write of another run has passed its fence check. *)
OthersPastCheck(r) ==
    \E q \in Runs \ {r}, a \in {"wvDelete", "wvWrite"} :
        \/ <<q, a>> \in stray
        \/ (pc[q] = "store" /\ wv[q] = a)

(* Broken variant: the claim follows commit order. *)
CreatePendingDocumentUnordered(r) ==
    /\ IF status = "absent"
       THEN status' = "processing" /\ reporter' = r
       ELSE UNCHANGED <<status, reporter>>
    /\ active' = r /\ claimedAt' = r
    /\ exposed' = (exposed \/ OthersPastCheck(r))
    /\ UNCHANGED <<by, vectors, side>>

(* create_pending_document: create the row, then claim it for r unless a   *)
(* run that started later holds the claim.                                 *)
CreatePendingDocument(r) ==
    /\ IF status = "absent"
       THEN status' = "processing" /\ reporter' = r
       ELSE UNCHANGED <<status, reporter>>
    /\ IF claimedAt <= r
       THEN active' = r /\ claimedAt' = r
       ELSE UNCHANGED <<active, claimedAt>>
    /\ exposed' = (exposed \/ OthersPastCheck(r))
    /\ UNCHANGED <<by, vectors, side>>

(* Broken variant: the status update is not fenced. *)
UpdateDocumentStatusUnfenced(r, s) ==
    /\ IF status # "absent"
       THEN status' = s /\ reporter' = r
       ELSE UNCHANGED <<status, reporter>>
    /\ UNCHANGED <<active, claimedAt, by, vectors, side, exposed>>

(* update_document_status, fenced by the run id. *)
UpdateDocumentStatus(r, s) ==
    /\ IF status # "absent" /\ IsActiveRun(r)
       THEN status' = s /\ reporter' = r
       ELSE UNCHANGED <<status, reporter>>
    /\ UNCHANGED <<active, claimedAt, by, vectors, side, exposed>>

(* Broken variant: the upsert has no fence in its WHERE. *)
StoreProcessedDocumentUnfenced(r) ==
    /\ status' = "processed" /\ reporter' = r
    /\ active' = r
    /\ by' = r
    /\ UNCHANGED <<claimedAt, vectors, side, exposed>>

(* store_processed_document: one transaction that upserts the row, behind  *)
(* the fence only when the row exists, and replaces its chunks.  It stamps *)
(* active_run_id but never active_run_claimed_at.                          *)
StoreProcessedDocument(r) ==
    /\ status = "absent" \/ IsActiveRun(r)
    /\ status' = "processed" /\ reporter' = r
    /\ active' = r
    /\ by' = r
    /\ UNCHANGED <<claimedAt, vectors, side, exposed>>

(* staging.write_text and write_chunks; staging.cleanup *)
Stage(r, level) ==
    /\ staged' = [staged EXCEPT ![r] = level]
    /\ UNCHANGED <<row, vectors, dl, ledger, docCount, published, exposed>>

(* Broken variant: the counter moves though the ledger has the run. *)
UpdateWorkspaceStatsUnchecked(r) ==
    /\ ledger' = ledger \cup {r}
    /\ docCount' = docCount + 1
    /\ UNCHANGED <<row, vectors, staged, dl, published, exposed>>

(* Broken variant: the ledger is not written. *)
UpdateWorkspaceStatsUnlogged(r) ==
    /\ docCount' = IF r \in ledger THEN docCount ELSE docCount + 1
    /\ UNCHANGED <<row, vectors, staged, dl, ledger, published, exposed>>

(* update_workspace_stats: at most once per run. *)
UpdateWorkspaceStats(r) ==
    /\ ledger' = ledger \cup {r}
    /\ docCount' = IF r \in ledger THEN docCount ELSE docCount + 1
    /\ UNCHANGED <<row, vectors, staged, dl, published, exposed>>

Unresolved == {"pending", "retrying"}

(* resolve_dead_letter_jobs_for_document *)
ResolveDeadLetters ==
    /\ dl' = [q \in Runs |-> IF dl[q] \in Unresolved THEN "resolved" ELSE dl[q]]
    /\ UNCHANGED <<row, vectors, staged, ledger, docCount, published, exposed>>

(* add_dead_letter_job: ON CONFLICT DO NOTHING on the run id. *)
AddDeadLetter(r) ==
    /\ dl' = [dl EXCEPT ![r] = IF @ = "none" THEN "pending" ELSE @]
    /\ UNCHANGED <<row, vectors, staged, ledger, docCount, published, exposed>>

(* publish_completion *)
PublishCompletion(r, outcome) ==
    /\ published' = [published EXCEPT ![r] = @ \cup {outcome}]
    /\ UNCHANGED <<row, vectors, staged, dl, ledger, docCount, exposed>>

(* What activity a of run r does when an attempt of it succeeds. *)
Effect(r, a) ==
    \/ a = "claim" /\ CreatePendingDocument(r)
    \/ a = "processing" /\ UpdateDocumentStatus(r, "processing")
    \/ a = "prepare" /\ UNCHANGED <<tables, exposed>>
    \/ a = "extract" /\ Stage(r, "text")
    \/ a = "chunk" /\ staged[r] # "none" /\ Stage(r, "chunks")
    \/ a = "stats" /\ UpdateWorkspaceStats(r)
    \/ a = "resolve" /\ ResolveDeadLetters
    \/ a = "publishOk" /\ PublishCompletion(r, "processed")
    \/ a = "markFailed" /\ UpdateDocumentStatus(r, "failed")
    \/ a = "deadLetter" /\ AddDeadLetter(r)
    \/ a = "publishFailed" /\ PublishCompletion(r, "failed")
    \/ a \in {"cleanupOk", "cleanupFailed"} /\ Stage(r, "none")

(* Broken variant: the objects of the previous version stay. *)
DeleteChunksSkipped(r) ==
    /\ exposed' = (OthersPastCheck(r) \/ (exposed /\ active # r))
    /\ UNCHANGED <<row, side, vectors>>

(* The steps of store_in_weaviate behind its fence check.  The delete is   *)
(* graceful: its failure is logged and the write goes ahead.               *)
DeleteChunks(r) ==
    /\ \/ /\ vectors' = [i \in Slots |-> NoRun]
          /\ exposed' = (OthersPastCheck(r) \/ (exposed /\ active # r))
       \/ /\ "wvDelete" \in Faults
          /\ exposed' = TRUE
          /\ UNCHANGED vectors
    /\ UNCHANGED <<row, side>>

(* store_chunks_with_tenant: deterministic object ids, so a write replaces *)
(* the objects at its own indexes and leaves the others.                   *)
WriteChunks(r, written) ==
    /\ vectors' = [i \in Slots |-> IF i \in written THEN r ELSE vectors[i]]
    /\ UNCHANGED <<row, side, exposed>>

-----------------------------------------------------------------------------
(* The run's progress. *)

MoveTo(r, step) ==
    /\ pc' = [pc EXCEPT ![r] = step]
    /\ UNCHANGED <<latest, ver, deleting>>

(* The awaited activity succeeds and the workflow goes on. *)
ActivityReturns(r) ==
    \E a \in Activities :
        /\ pc[r] = a
        /\ Effect(r, a)
        /\ MoveTo(r, OnReturn[a])
        /\ UNCHANGED <<pg, wv, stray>>

(* It succeeds, its result is lost, and Temporal will run it again. *)
ResultLost(r) ==
    /\ "lostAck" \in Faults
    /\ \/ \E a \in Activities : pc[r] = a /\ Effect(r, a)
       \/ pc[r] = "store" /\ pg[r] = "pg" /\ StoreProcessedDocument(r)
    /\ UNCHANGED <<control, deleting>>

(* Broken variant: missing staged text is retried without end. *)
ActivityGivesUpNotOnSweptText(r) ==
    \E a \in Activities :
        /\ pc[r] = a
        /\ a \in Faults
        /\ MoveTo(r, OnExhausted(a))
        /\ UNCHANGED <<tables, pg, wv, stray, exposed>>

(* Its attempts are used up. *)
ActivityGivesUp(r) ==
    \E a \in Activities :
        /\ pc[r] = a
        /\ a \in Faults \/ (a = "chunk" /\ staged[r] = "none")
        /\ MoveTo(r, OnExhausted(a))
        /\ UNCHANGED <<tables, pg, wv, stray, exposed>>

(* An attempt outlives its timeout; the next one starts beside it. *)
AttemptTimesOut(r) ==
    /\ "zombie" \in Faults
    /\ IsOpen(r) /\ Cardinality(stray) < MaxZombies
    /\ stray' = stray \cup InFlight(r)
    /\ wv' = [wv EXCEPT ![r] = IF @ \in WvSteps THEN "wvCheck" ELSE @]
    /\ UNCHANGED <<tables, latest, pc, ver, pg, deleting, exposed>>

(* store_in_postgresql: reads the staged chunks, then stores or is fenced. *)
StoreInPostgresql(r) ==
    /\ pc[r] = "store" /\ pg[r] = "pg" /\ staged[r] = "chunks"
    /\ \/ /\ StoreProcessedDocument(r)
          /\ pg' = [pg EXCEPT ![r] = "ok"]
       \/ /\ status # "absent" /\ ~IsActiveRun(r)
          /\ pg' = [pg EXCEPT ![r] = "superseded"]
          /\ UNCHANGED <<tables, exposed>>
    /\ UNCHANGED <<latest, pc, ver, wv, stray, deleting>>

(* store_in_weaviate, in the steps between which others may act: the check *)
(* of the fence, the delete, and, after the embedding, the write.          *)
StoreInWeaviate(r) ==
    /\ pc[r] = "store"
    /\ \/ /\ wv[r] = "wvCheck" /\ staged[r] = "chunks"
          /\ wv' = [wv EXCEPT ![r] = IF status = "absent" \/ IsActiveRun(r)
                                     THEN "wvDelete" ELSE "superseded"]
          /\ UNCHANGED <<tables, exposed>>
       \/ /\ wv[r] = "wvDelete"
          /\ DeleteChunks(r)
          /\ wv' = [wv EXCEPT ![r] = "wvWrite"]
       \/ /\ wv[r] = "wvWrite"
          /\ WriteChunks(r, ChunksOf[ver[r]])
          /\ wv' = [wv EXCEPT ![r] = "ok"]
    /\ UNCHANGED <<latest, pc, ver, pg, stray, deleting>>

(* A batch reports failed objects: the attempt raises and is retried. *)
WeaviateBatchFails(r) ==
    /\ "partial" \in Faults
    /\ pc[r] = "store" /\ wv[r] = "wvWrite"
    /\ \E written \in SUBSET ChunksOf[ver[r]] : WriteChunks(r, written)
    /\ wv' = [wv EXCEPT ![r] = "wvCheck"]
    /\ UNCHANGED <<latest, pc, ver, pg, stray, deleting>>

(* Both stores have returned: asyncio.gather is done. *)
StoresReturn(r) ==
    /\ pc[r] = "store" /\ pg[r] # "pg" /\ wv[r] \notin WvSteps
    /\ MoveTo(r, IF pg[r] = "ok" /\ wv[r] = "ok" THEN "stats" ELSE "markFailed")
    /\ UNCHANGED <<tables, pg, wv, stray, exposed>>

(* One store has used up its attempts: gather raises at once, and the      *)
(* other activity is left running.                                         *)
StoreGivesUp(r) ==
    /\ pc[r] = "store"
    /\ \/ /\ pg[r] = "pg" /\ ("pg" \in Faults \/ staged[r] # "chunks")
          /\ stray' = stray \cup (InFlight(r) \ {<<r, "pg">>})
       \/ /\ wv[r] \in WvSteps
          /\ {"wv", "partial"} \cap Faults # {} \/ staged[r] # "chunks"
          /\ stray' = stray \cup (InFlight(r) \ {<<r, wv[r]>>})
    /\ MoveTo(r, "markFailed")
    /\ UNCHANGED <<tables, pg, wv, exposed>>

-----------------------------------------------------------------------------
(* Attempts nobody waits for. *)

StrayLands(r, a) ==
    /\ <<r, a>> \in stray
    /\ \/ a \in Activities /\ Effect(r, a) /\ stray' = stray \ {<<r, a>>}
       \/ a = "pg" /\ StoreProcessedDocument(r) /\ stray' = stray \ {<<r, a>>}
       \/ /\ a = "wvCheck"
          /\ status = "absent" \/ IsActiveRun(r)
          /\ stray' = (stray \ {<<r, a>>}) \cup {<<r, "wvDelete">>}
          /\ UNCHANGED <<tables, exposed>>
       \/ /\ a = "wvDelete"
          /\ DeleteChunks(r)
          /\ stray' = (stray \ {<<r, a>>}) \cup {<<r, "wvWrite">>}
       \/ /\ a = "wvWrite"
          /\ WriteChunks(r, ChunksOf[ver[r]])
          /\ stray' = stray \ {<<r, a>>}
    /\ UNCHANGED <<latest, pc, ver, pg, wv, deleting>>

(* It fails, is fenced, or dies with its worker. *)
StrayEnds(r, a) ==
    /\ <<r, a>> \in stray
    /\ stray' = stray \ {<<r, a>>}
    /\ UNCHANGED <<tables, latest, pc, ver, pg, wv, deleting, exposed>>

-----------------------------------------------------------------------------
(* The trigger, the sweep and the public API. *)

(* start_workflow with TERMINATE_EXISTING; when no run is open this is     *)
(* also what a dead-letter retry does.                                     *)
Start(v) ==
    /\ latest < MaxRuns
    /\ latest' = latest + 1
    /\ ver' = [ver EXCEPT ![latest + 1] = v]
    /\ pc' = [r \in Runs |-> IF r = latest + 1 THEN "claim"
                             ELSE IF IsOpen(r) THEN "terminated" ELSE pc[r]]
    /\ stray' = stray \cup UNION {InFlight(r) : r \in {q \in Runs : IsOpen(q)}}
    /\ UNCHANGED <<tables, pg, wv, deleting, exposed>>

(* Broken variant: only runs that reached their finally block are swept. *)
SweepStagingOfEnded(r) ==
    /\ staged[r] # "none"
    /\ pc[r] \in {"completed", "failed"}
    /\ Stage(r, "none")
    /\ UNCHANGED <<control, deleting>>

(* _periodic_staging_cleanup; only the sweep can tell how old a row is. *)
SweepStaging(r) ==
    /\ staged[r] # "none"
    /\ "sweep" \in Faults \/ ~IsOpen(r)
    /\ Stage(r, "none")
    /\ UNCHANGED <<control, deleting>>

(* create_or_reset_pending_document, for an upload or a refresh. *)
ResetPending ==
    /\ "reset" \in ApiOps
    /\ status' = "pending" /\ reporter' = NoRun
    /\ UNCHANGED <<active, claimedAt, by, vectors, side, control, deleting, exposed>>

(* mark_document_failed, when the upload event could not be published. *)
MarkDocumentFailed ==
    /\ "markFailed" \in ApiOps
    /\ status # "absent"
    /\ status' = "failed" /\ reporter' = NoRun
    /\ UNCHANGED <<active, claimedAt, by, vectors, side, control, deleting, exposed>>

(* delete_document_everywhere and the internal DELETE route: vectors first.*)
(* Only the internal route goes on when they could not be deleted.         *)
DeleteVectors ==
    /\ "delete" \in ApiOps
    /\ ~deleting /\ status # "absent"
    /\ deleting' = TRUE
    /\ \/ vectors' = [i \in Slots |-> NoRun]
       \/ "wvDelete" \in Faults /\ UNCHANGED vectors
    /\ UNCHANGED <<row, side, control, exposed>>

(* Then the row, its chunks with it.  The public route also takes the      *)
(* document off the workspace's count; the internal one does not.          *)
DeleteRow ==
    /\ deleting
    /\ deleting' = FALSE
    /\ status' = "absent" /\ reporter' = NoRun
    /\ active' = NoRun /\ claimedAt' = NoRun /\ by' = NoRun
    /\ docCount' \in {docCount, IF docCount > 0 /\ status # "absent"
                                 THEN docCount - 1 ELSE docCount}
    /\ UNCHANGED <<vectors, staged, dl, ledger, published, control, exposed>>

(* The request dies, or its database step fails, between the two stores. *)
DeleteAborts ==
    /\ deleting
    /\ deleting' = FALSE
    /\ UNCHANGED <<tables, control, exposed>>

-----------------------------------------------------------------------------
Init ==
    /\ status = "absent" /\ reporter = NoRun
    /\ active = NoRun /\ claimedAt = NoRun /\ by = NoRun
    /\ vectors = [i \in Slots |-> NoRun]
    /\ staged = [r \in Runs |-> "none"]
    /\ dl = [r \in Runs |-> "none"]
    /\ ledger = {} /\ docCount = 0
    /\ published = [r \in Runs |-> {}]
    /\ latest = 0
    /\ pc = [r \in Runs |-> "idle"]
    /\ ver = [r \in Runs |-> NoVersion]
    /\ pg = [r \in Runs |-> "pg"]
    /\ wv = [r \in Runs |-> "wvCheck"]
    /\ stray = {}
    /\ deleting = FALSE
    /\ exposed = FALSE

RunStep(r) ==
    \/ ActivityReturns(r) \/ ActivityGivesUp(r)
    \/ StoreInPostgresql(r) \/ StoreInWeaviate(r)
    \/ StoresReturn(r) \/ StoreGivesUp(r)

StrayStep(r, a) == StrayLands(r, a) \/ StrayEnds(r, a)

StrayActs == (Activities \ {"prepare"}) \cup {"pg"} \cup WvSteps

Next ==
    \/ \E r \in Runs : \/ RunStep(r) \/ ResultLost(r) \/ AttemptTimesOut(r)
                       \/ WeaviateBatchFails(r) \/ SweepStaging(r)
                       \/ \E a \in StrayActs : StrayStep(r, a)
    \/ \E v \in Versions : Start(v)
    \/ ResetPending \/ MarkDocumentFailed
    \/ DeleteVectors \/ DeleteRow \/ DeleteAborts

Spec == Init /\ [][Next]_vars

(* Temporal runs a scheduled activity until it returns or its attempts are *)
(* used up, and a worker's attempt ends; the sweep runs every 15 minutes.  *)
Fairness ==
    /\ \A r \in Runs : WF_vars(RunStep(r)) /\ WF_vars(SweepStaging(r))
    /\ \A r \in Runs, a \in StrayActs : WF_vars(StrayStep(r, a))
    /\ WF_vars(DeleteRow \/ DeleteAborts)

FairSpec == Spec /\ Fairness

-----------------------------------------------------------------------------
(* Properties. *)

(* Every variable has its type. *)
TypeOK ==
    /\ status \in {"absent", "pending", "processing", "processed", "failed"}
    /\ reporter \in 0..MaxRuns
    /\ active \in 0..MaxRuns /\ claimedAt \in 0..MaxRuns /\ by \in 0..MaxRuns
    /\ vectors \in [Slots -> 0..MaxRuns]
    /\ staged \in [Runs -> {"none", "text", "chunks"}]
    /\ dl \in [Runs -> {"none", "pending", "retrying", "resolved", "abandoned"}]
    /\ ledger \subseteq Runs /\ docCount \in Nat
    /\ published \in [Runs -> SUBSET {"processed", "failed"}]
    /\ latest \in 0..MaxRuns
    /\ pc \in [Runs -> Steps]
    /\ ver \in [Runs -> Versions \cup {NoVersion}]
    /\ pg \in [Runs -> {"pg", "ok", "superseded"}]
    /\ wv \in [Runs -> WvSteps \cup {"ok", "superseded"}]
    /\ stray \subseteq Runs \X StrayActs
    /\ deleting \in BOOLEAN /\ exposed \in BOOLEAN

(* The promise of the fence (#110): the row is a fenced register.  Chunks  *)
(* and statuses written by runs come only from the holder of the recorded  *)
(* claim, and the recorded claim only moves to later runs.                 *)
Fence == INSTANCE FencedDocument WITH content <- by, claim <- claimedAt
RowIsFenced == Fence!Spec

(* What makes the fence inductive: a recorded claim names the active run,  *)
(* and a missing row carries no token.  store_processed_document stamps    *)
(* active_run_id alone, so the converse does not hold.                     *)
TokenAgrees ==
    /\ claimedAt # NoRun => active = claimedAt
    /\ status = "absent" => active = NoRun /\ claimedAt = NoRun /\ by = NoRun

Succeeded == {"stats", "resolve", "publishOk", "cleanupOk", "completed"}

(* When the newest run has stored its content, no late write of an older   *)
(* run takes its place (store_processed_document, create_pending_document).*)
NewestContentStands ==
    \A r \in Runs : r = latest /\ pc[r] \in Succeeded => by = r

(* Nothing is running and no attempt is outstanding. *)
Quiet == stray = {} /\ ~deleting /\ \A r \in Runs : ~IsOpen(r)

(* The vectors are those of the chunks in PostgreSQL, index by index. *)
Agree ==
    \A i \in Slots :
        IF i \in ChunksOf[ver[by]]
        THEN vectors[i] # NoRun /\ ver[vectors[i]] = ver[by]
        ELSE vectors[i] = NoRun

(* A document that ends up processed is searchable as stored: PostgreSQL   *)
(* and Weaviate hold the same chunks, unless a run's Weaviate write was    *)
(* past its fence check when another run claimed the document, the window  *)
(* store_in_weaviate's comment describes.                                  *)
StoresAgree == Quiet /\ status = "processed" /\ ~exposed => Agree

(* Each run announces one verdict on core.document.processed.v1, and       *)
(* announces success only when both stores and the statistics have landed. *)
OneVerdict ==
    \A r \in Runs :
        "processed" \in published[r] =>
            /\ "failed" \notin published[r]
            /\ pg[r] = "ok" /\ wv[r] = "ok" /\ r \in ledger

(* What makes OneVerdict inductive: which steps a verdict can come from,   *)
(* stray announcements included.                                           *)
Announced(r, outcome, a) == outcome \in published[r] \/ <<r, a>> \in stray

VerdictStep(r) ==
    /\ r > latest => pc[r] = "idle"
    /\ pc[r] \in Succeeded => pg[r] = "ok" /\ wv[r] = "ok"
    /\ pc[r] \in Succeeded \ {"stats"} => r \in ledger
    /\ Announced(r, "processed", "publishOk") =>
           /\ pc[r] \in {"publishOk", "cleanupOk", "completed", "terminated"}
           /\ pg[r] = "ok" /\ wv[r] = "ok" /\ r \in ledger
           /\ ~Announced(r, "failed", "publishFailed")
    /\ Announced(r, "failed", "publishFailed") =>
           pc[r] \in {"publishFailed", "cleanupFailed", "failed", "terminated"}

VerdictSteps == \A r \in Runs : VerdictStep(r)

(* What makes NewestContentStands inductive: from its claim on, the newest *)
(* run holds the token, and strays come from runs that were started.       *)
NewestHolds(r) ==
    /\ r > latest => pc[r] = "idle" /\ pg[r] = "pg"
    /\ r = latest =>
          /\ pc[r] # "idle"
          /\ pc[r] # "claim" => claimedAt = r /\ status # "absent"
          /\ pc[r] = "claim" => pg[r] = "pg"
          /\ pg[r] = "ok" \/ pc[r] \in Succeeded => by = r

NewestHoldsToken ==
    /\ claimedAt <= latest
    /\ \A s \in stray : s[1] <= latest
    /\ \A r \in Runs : NewestHolds(r)

(* The workspace counter counts each run at most once, however often its   *)
(* statistics activity is repeated, and counts every completed run (#7).   *)
StatsOncePerRun ==
    /\ docCount = Cardinality(ledger)
    /\ \A r \in Runs : pc[r] = "completed" => r \in ledger

(* Every run ends: it completes, fails or is superseded. *)
EveryRunCloses == \A r \in Runs : IsOpen(r) ~> pc[r] \in Closed

(* A document does not stay in 'processing': whichever run or stray write  *)
(* put it there, a later step of the run that holds the claim moves it on  *)
(* (update_document_status' fence, the workflow's except branch).          *)
StatusSettles == status = "processing" ~> status # "processing"

(* Staged text and chunks are removed, also those of a terminated run,     *)
(* whose finally block never runs (cleanup_staging, cleanup_stale).        *)
StagingDrains == \A r \in Runs : staged[r] # "none" ~> staged[r] = "none"
=============================================================================
