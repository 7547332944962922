--------------------------- MODULE WorkspacePurge ---------------------------
(***************************************************************************)
(* The purge of one workspace against everything that may still write to   *)
(* it: document ingestion, conversation memory, the public API's requests  *)
(* and the audit pipeline.  PurgeWorkspaceWorkflow runs its activities one *)
(* after the other; each is retried, may fail for good and may commit      *)
(* without its result coming back.  The writers interleave with it at      *)
(* every activity.                                                         *)
(*                                                                         *)
(* A store is reduced to whether it holds rows of the workspace; a count   *)
(* is therefore 0 or 1, or -1 where the code reports an unknown count.     *)
(***************************************************************************)
EXTENDS Integers, FiniteSets

CONSTANTS Documents,       \* uploads, each with one ingestion run
          Chats,           \* conversations, each with one long-lived run
          AuditEvents,     \* events published by requests of the public API
          PurgeAttempts,   \* maximum_attempts of the purge's activities
          MaxPurgeFaults,  \* bound: failures that may happen in a behaviour
          MaxPurges        \* bound: purge requests

ASSUME PurgeAssumption ==
    /\ Documents \cap Chats = {}
    /\ PurgeAttempts \in Nat \ {0}
    /\ MaxPurgeFaults \in Nat
    /\ MaxPurges \in Nat

VARIABLES marker,       \* workspace_purge_state.status
          metadata,     \* is there a workspace_metadata row
          rows,         \* processed_documents.status by document
          sideRows,     \* some side table or eval table holds rows
          vectors,      \* documents with objects in the Weaviate collection
          keysActive,   \* some api_keys row of the workspace is active
          auditStream,  \* audit.log.write messages not yet acknowledged
          auditRuns,    \* open WriteAuditLogWorkflow runs
          auditLogs,    \* the audit_logs collection in MongoDB
          run,          \* where each ingestion or conversation run stands
          straggler,    \* store attempts that outlive the run they belong to
          cancelled,    \* runs a cancellation was requested for
          tooLate,      \* runs whose marker check came after the marking
          purge,        \* the PurgeWorkspaceWorkflow run
          receipt,      \* workspace_purge_receipts, by the one workflow id
          purgeFaults

writerVars == <<run, straggler, cancelled, tooLate>>
auditVars == <<auditStream, auditRuns, auditLogs>>
purgeVars == <<marker, metadata, rows, sideRows, vectors, keysActive, auditVars, writerVars,
               purge, receipt, purgeFaults>>

Runs == Documents \cup Chats
Stores == {"metadata", "documents", "side", "vectors", "audit", "keys"}
Counts == [Stores -> {-1, 0, 1}]
Zero == [s \in Stores |-> 0]

RunStages == {"idle", "queued", "created", "checked", "storing", "failing", "ended"}
\* The activities of PurgeWorkspaceWorkflow.run in their order.
Steps == <<"mark", "before", "cancel", "documents", "side", "vectors", "audit", "revoke",
           "purged", "after", "receipt">>
PurgeStages == {Steps[i] : i \in DOMAIN Steps} \cup {"none", "failed", "completed"}

NoReceipt == [written |-> FALSE, retain |-> FALSE, after |-> Zero, open |-> {}, verified |-> FALSE]
NoPurge == [at |-> "none", tries |-> 0, asked |-> 0, retain |-> FALSE, quiet |-> FALSE,
            after |-> Zero, open |-> {}]

PurgeInit ==
    /\ marker = "none"
    /\ metadata = FALSE
    /\ rows = [d \in Runs |-> "none"]
    /\ sideRows = FALSE
    /\ vectors = {}
    /\ keysActive = TRUE
    /\ auditStream = {} /\ auditRuns = {} /\ auditLogs = {}
    /\ run = [r \in Runs |-> "idle"]
    /\ straggler = {}
    /\ cancelled = {}
    /\ tooLate = {}
    /\ purge = NoPurge
    /\ receipt = NoReceipt
    /\ purgeFaults = 0

PurgeFault == /\ purgeFaults < MaxPurgeFaults
              /\ purgeFaults' = purgeFaults + 1

----------------------------------------------------------------------------
\* The public API, which does not look at the purge marker

\* An upload: the intake writes the pending row and publishes the event.
Upload(d) ==
    /\ d \in Documents
    /\ keysActive
    /\ run[d] = "idle"
    /\ rows' = [rows EXCEPT ![d] = "inflight"]
    /\ run' = [run EXCEPT ![d] = "queued"]
    /\ UNCHANGED <<marker, metadata, sideRows, vectors, keysActive, auditVars, straggler,
                   cancelled, tooLate, purge, receipt, purgeFaults>>

\* A turn of a conversation: the trigger starts the run that will flush it.
Turn(c) ==
    /\ c \in Chats
    /\ keysActive
    /\ run[c] = "idle"
    /\ run' = [run EXCEPT ![c] = "created"]
    /\ UNCHANGED <<marker, metadata, rows, sideRows, vectors, keysActive, auditVars, straggler,
                   cancelled, tooLate, purge, receipt, purgeFaults>>

\* A search: an eval row, and an audit event that publish_audit_event may lose.
SearchRequest(e) ==
    /\ keysActive
    /\ e \notin auditStream \cup auditRuns \cup auditLogs
    /\ sideRows' = TRUE
    /\ \/ auditStream' = auditStream \cup {e} /\ UNCHANGED purgeFaults
       \/ PurgeFault /\ UNCHANGED auditStream
    /\ UNCHANGED <<marker, metadata, rows, vectors, keysActive, auditRuns, auditLogs,
                   writerVars, purge, receipt>>

----------------------------------------------------------------------------
\* The audit pipeline: at-least-once delivery into an idempotent insert

\* AuditLogConsumer.handle; an id whose workflow is open is taken as handled.
DispatchAudit(e) ==
    /\ e \in auditStream
    /\ auditRuns' = auditRuns \cup {e}
    /\ \/ auditStream' = auditStream \ {e} /\ UNCHANGED purgeFaults
       \/ PurgeFault /\ UNCHANGED auditStream   \* not acknowledged: delivered again
    /\ UNCHANGED <<marker, metadata, rows, sideRows, vectors, keysActive, auditLogs,
                   writerVars, purge, receipt>>

\* WriteAuditLogWorkflow: the insert under _id = audit_id, or none at all when
\* the event is invalid or every attempt fails.
WriteAuditLog(e) ==
    /\ e \in auditRuns
    /\ auditRuns' = auditRuns \ {e}
    /\ \/ auditLogs' = auditLogs \cup {e} /\ UNCHANGED purgeFaults
       \/ PurgeFault /\ UNCHANGED auditLogs
    /\ UNCHANGED <<marker, metadata, rows, sideRows, vectors, keysActive, auditStream,
                   writerVars, purge, receipt>>

----------------------------------------------------------------------------
\* Ingestion and conversation runs

\* create_pending_document: an upsert, before the marker is looked at.
CreatePending(d) ==
    /\ run[d] = "queued"
    /\ rows' = [rows EXCEPT ![d] = "inflight"]
    /\ run' = [run EXCEPT ![d] = "created"]
    /\ UNCHANGED <<marker, metadata, sideRows, vectors, keysActive, auditVars, straggler,
                   cancelled, tooLate, purge, receipt, purgeFaults>>

\* ensure_workspace_ready refuses a workspace that a purge has touched.
Refused == marker # "none"

\* ensure_tenant_ready, up to the marker.  A refusal is retried and then fails
\* the run; its lineage event is recorded either way.
CheckMarker(r) ==
    /\ run[r] = "created"
    /\ run' = [run EXCEPT ![r] = IF Refused THEN "failing" ELSE "checked"]
    /\ tooLate' = IF marker = "none" THEN tooLate ELSE tooLate \cup {r}
    /\ sideRows' = (sideRows \/ Refused)
    /\ UNCHANGED <<marker, metadata, rows, vectors, keysActive, auditVars, straggler,
                   cancelled, purge, receipt, purgeFaults>>

\* The rest of it: the metadata row, then the collection and its tenant.
EnsureTenant(r) ==
    /\ run[r] = "checked"
    /\ metadata' = TRUE
    /\ sideRows' = TRUE
    /\ run' = [run EXCEPT ![r] = "storing"]
    /\ UNCHANGED <<marker, rows, vectors, keysActive, auditVars, straggler, cancelled,
                   tooLate, purge, receipt, purgeFaults>>

EnsureTenantFails(r) ==
    /\ run[r] = "checked"
    /\ PurgeFault
    /\ run' = [run EXCEPT ![r] = "failing"]
    /\ metadata' \in {metadata, TRUE}
    /\ sideRows' = TRUE
    /\ UNCHANGED <<marker, rows, vectors, keysActive, auditVars, straggler, cancelled,
                   tooLate, purge, receipt>>

\* The two stores.  PostgreSQL inserts the row when it is absent; Weaviate
\* creates the collection when it is absent, and its fence lets a run write
\* whose row is gone.
StorePostgres(r) ==
    /\ rows' = [rows EXCEPT ![r] = "processed"]
    /\ UNCHANGED vectors

StoreWeaviate(r) ==
    /\ vectors' = vectors \cup {r}
    /\ UNCHANGED rows

StoreRun(r) ==
    /\ run[r] = "storing"
    /\ StorePostgres(r) \/ StoreWeaviate(r)
    /\ UNCHANGED <<marker, metadata, sideRows, keysActive, auditVars, writerVars, purge,
                   receipt, purgeFaults>>

\* The run completes; a conversation stays open until it is idle.
CompleteRun(r) ==
    /\ run[r] = "storing"
    /\ run' = [run EXCEPT ![r] = "ended"]
    /\ UNCHANGED <<marker, metadata, rows, sideRows, vectors, keysActive, auditVars, straggler,
                   cancelled, tooLate, purge, receipt, purgeFaults>>

\* A cancellation reaches the workflow at an await.  The activity it was
\* waiting for is not interrupted and may commit later.
CancelRun(r) ==
    /\ r \in cancelled
    /\ run[r] \in {"queued", "created", "checked", "storing"}
    /\ run' = [run EXCEPT ![r] = "failing"]
    /\ straggler' = IF run[r] = "storing" THEN straggler \cup {r} ELSE straggler
    /\ UNCHANGED <<marker, metadata, rows, sideRows, vectors, keysActive, auditVars, cancelled,
                   tooLate, purge, receipt, purgeFaults>>

StragglerStores(r) ==
    /\ r \in straggler
    /\ straggler' = straggler \ {r}
    /\ StorePostgres(r) \/ StoreWeaviate(r) \/ UNCHANGED <<rows, vectors>>
    /\ UNCHANGED <<marker, metadata, sideRows, keysActive, auditVars, run, cancelled, tooLate,
                   purge, receipt, purgeFaults>>

\* The failure handler: the status, an update that needs the row, and the
\* dead letter, which does not.  A conversation dead-letters its turns.
FailRun(r) ==
    /\ run[r] = "failing"
    /\ rows' = IF rows[r] = "none" THEN rows ELSE [rows EXCEPT ![r] = "failed"]
    /\ sideRows' = TRUE
    /\ run' = [run EXCEPT ![r] = "ended"]
    /\ UNCHANGED <<marker, metadata, vectors, keysActive, auditVars, straggler, cancelled,
                   tooLate, purge, receipt, purgeFaults>>

----------------------------------------------------------------------------
\* PurgeWorkspaceWorkflow

\* No writer is open and none can start: what an operator waits for.
NothingWrites ==
    /\ ~keysActive
    /\ straggler \cup auditStream \cup auditRuns = {}
    /\ \A r \in Runs : run[r] \in {"idle", "ended"}

\* POST /admin/workspaces/{workspace_id}/purge: one workflow id, so an open
\* purge is joined and a closed one is run again.
RequestPurge ==
    /\ purge.at \in {"none", "failed", "completed"}
    /\ purge.asked < MaxPurges
    /\ \E retain \in BOOLEAN :
          purge' = [NoPurge EXCEPT !.at = "mark", !.asked = purge.asked + 1, !.retain = retain,
                                   !.quiet = NothingWrites]
    /\ UNCHANGED <<marker, metadata, rows, sideRows, vectors, keysActive, auditVars, writerVars,
                   receipt, purgeFaults>>

After(step) == IF step = "receipt" THEN "completed"
               ELSE Steps[1 + CHOOSE i \in DOMAIN Steps : Steps[i] = step]

\* A failed attempt is repeated until there is none left.
Retried == IF purge.tries + 1 < PurgeAttempts
           THEN [purge EXCEPT !.tries = @ + 1]
           ELSE [purge EXCEPT !.at = "failed"]

\* An activity returns, or its result is lost and the attempt counts as failed.
Return(next) ==
    \/ purge' = [next EXCEPT !.at = After(purge.at), !.tries = 0] /\ UNCHANGED purgeFaults
    \/ PurgeFault /\ purge' = Retried

PurgeStepFails ==
    /\ purge.at \notin {"none", "failed", "completed"}
    /\ PurgeFault
    /\ purge' = Retried
    /\ UNCHANGED <<marker, metadata, rows, sideRows, vectors, keysActive, auditVars, writerVars,
                   receipt>>

\* set_workspace_purge_status, as the first and as the ninth step.
Mark ==
    /\ purge.at \in {"mark", "purged"}
    /\ marker' = IF purge.at = "mark" THEN "purging" ELSE "purged"
    /\ Return(purge)
    /\ UNCHANGED <<metadata, rows, sideRows, vectors, keysActive, auditVars, writerVars,
                   receipt>>

Bit(b) == IF b THEN 1 ELSE 0

\* verify_purge: count_workspace_residue, the collection's object count, which
\* is -1 when Weaviate cannot say, and the audit logs unless they are retained.
Residue(vectorCount) ==
    [s \in Stores |->
        CASE s = "metadata" -> Bit(metadata)
          [] s = "documents" -> Bit(\E r \in Runs : rows[r] # "none")
          [] s = "side" -> Bit(sideRows)
          [] s = "vectors" -> vectorCount
          [] s = "audit" -> Bit(auditLogs # {} /\ ~purge.retain)
          [] s = "keys" -> Bit(keysActive)]

\* Writers the counts cannot see: runs past the gate, stragglers, audit events
\* on their way.
PastGate == {r \in Runs : run[r] \in {"checked", "storing"}}
            \cup straggler \cup auditStream \cup auditRuns

\* The same activity before the deletes, for the receipt only, and after them.
VerifyPurge ==
    /\ purge.at \in {"before", "after"}
    /\ \E n \in {Bit(vectors # {}), -1} :
          /\ IF n = -1 THEN PurgeFault ELSE UNCHANGED purgeFaults
          /\ purge' = IF purge.at = "before"
                      THEN [purge EXCEPT !.at = "cancel", !.tries = 0]
                      ELSE [purge EXCEPT !.after = Residue(n), !.open = PastGate,
                                         !.at = "receipt", !.tries = 0]
    /\ UNCHANGED <<marker, metadata, rows, sideRows, vectors, keysActive, auditVars, writerVars,
                   receipt>>

\* cancel_inflight_ingestion: the documents whose row says pending or
\* processing, by the workflow id of document ingestion.
CancelInflight ==
    /\ purge.at = "cancel"
    /\ cancelled' = cancelled \cup {d \in Documents : rows[d] = "inflight"}
    /\ Return(purge)
    /\ UNCHANGED <<marker, metadata, rows, sideRows, vectors, keysActive, auditVars, run,
                   straggler, tooLate, receipt>>

\* purge_postgres_documents: rows, their chunks and the metadata row.
DeleteDocuments ==
    /\ purge.at = "documents"
    /\ rows' = [r \in Runs |-> "none"]
    /\ metadata' = FALSE
    /\ Return(purge)
    /\ UNCHANGED <<marker, sideRows, vectors, keysActive, auditVars, writerVars, receipt>>

\* purge_postgres_side_tables: the side tables, then the eval tables.
DeleteSideTables ==
    /\ purge.at = "side"
    /\ sideRows' = FALSE
    /\ Return(purge)
    /\ UNCHANGED <<marker, metadata, rows, vectors, keysActive, auditVars, writerVars, receipt>>

\* purge_weaviate_collection: an error is logged and reported as "not deleted".
DeleteCollection ==
    /\ purge.at = "vectors"
    /\ \/ vectors' = {} /\ Return(purge)
       \/ /\ PurgeFault
          /\ purge' = [purge EXCEPT !.at = After(purge.at), !.tries = 0, !.quiet = FALSE]
          /\ UNCHANGED vectors
    /\ UNCHANGED <<marker, metadata, rows, sideRows, keysActive, auditVars, writerVars, receipt>>

\* purge_audit_logs, skipped when the operator retains them.
DeleteAuditLogs ==
    /\ purge.at = "audit"
    /\ auditLogs' = IF purge.retain THEN auditLogs ELSE {}
    /\ Return(purge)
    /\ UNCHANGED <<marker, metadata, rows, sideRows, vectors, keysActive, auditStream,
                   auditRuns, writerVars, receipt>>

RevokeKeys ==
    /\ purge.at = "revoke"
    /\ keysActive' = FALSE
    /\ Return(purge)
    /\ UNCHANGED <<marker, metadata, rows, sideRows, vectors, auditVars, writerVars, receipt>>

\* Mutant: the collection is left out of the verdict.
VerifiedWithoutVectors(counts) == \A s \in Stores \ {"vectors"} : counts[s] <= 0

\* all(count <= 0 for count in counts_after.values())
Verified(counts) == \A s \in Stores : counts[s] <= 0

\* record_purge_receipt: an upsert by the workflow id, so a later purge of the
\* workspace replaces the receipt of an earlier one.
RecordReceipt ==
    /\ purge.at = "receipt"
    /\ receipt' = [written |-> TRUE, retain |-> purge.retain, after |-> purge.after,
                   open |-> purge.open, verified |-> Verified(purge.after)]
    /\ Return(purge)
    /\ UNCHANGED <<marker, metadata, rows, sideRows, vectors, keysActive, auditVars, writerVars>>

RunNext(rs) ==
    \E r \in rs :
          \/ Upload(r)
          \/ Turn(r)
          \/ CreatePending(r)
          \/ CheckMarker(r)
          \/ EnsureTenant(r)
          \/ EnsureTenantFails(r)
          \/ StoreRun(r)
          \/ CompleteRun(r)
          \/ CancelRun(r)
          \/ StragglerStores(r)
          \/ FailRun(r)

AuditNext(es) == \E e \in es : SearchRequest(e) \/ DispatchAudit(e) \/ WriteAuditLog(e)

WorkflowNext ==
    \/ RequestPurge
    \/ PurgeStepFails
    \/ Mark
    \/ VerifyPurge
    \/ CancelInflight
    \/ DeleteDocuments
    \/ DeleteSideTables
    \/ DeleteCollection
    \/ DeleteAuditLogs
    \/ RevokeKeys
    \/ RecordReceipt

PurgeNext == RunNext(Runs) \/ AuditNext(AuditEvents) \/ WorkflowNext

PurgeSpec == PurgeInit /\ [][PurgeNext]_purgeVars

----------------------------------------------------------------------------
\* The types of the stores, the writers and the purge workflow.
PurgeTypeOK ==
    /\ marker \in {"none", "purging", "purged"}
    /\ metadata \in BOOLEAN
    /\ rows \in [Runs -> {"none", "inflight", "processed", "failed"}]
    /\ sideRows \in BOOLEAN
    /\ vectors \subseteq Runs
    /\ keysActive \in BOOLEAN
    /\ auditStream \subseteq AuditEvents
    /\ auditRuns \subseteq AuditEvents
    /\ auditLogs \subseteq AuditEvents
    /\ run \in [Runs -> RunStages]
    /\ straggler \subseteq Runs
    /\ cancelled \subseteq Documents
    /\ tooLate \subseteq Runs
    /\ purge \in [at : PurgeStages, tries : 0..(PurgeAttempts - 1), asked : 0..MaxPurges,
                  retain : BOOLEAN, quiet : BOOLEAN, after : Counts,
                  open : SUBSET (Runs \cup AuditEvents)]
    /\ receipt \in [written : BOOLEAN, retain : BOOLEAN, after : Counts,
                    open : SUBSET (Runs \cup AuditEvents), verified : BOOLEAN]
    /\ purgeFaults \in 0..MaxPurgeFaults

\* A run that met the purge marker stores no text: no chunks, no vectors and no
\* metadata of it exist at any later time, however the purge goes on.
RefusedStoresNothing ==
    \A r \in tooLate : rows[r] # "processed" /\ r \notin vectors

\* What a verified receipt is worth.  When every count was known and no run that
\* had passed the gate and no audit event was still on its way as they were
\* taken, no text, no vector and no audit log of the workspace comes back, and
\* no key can ask for more.
VerifiedStaysPurged ==
    /\ receipt.written /\ receipt.verified
    /\ receipt.after["vectors"] # -1
    /\ receipt.open = {}
    => /\ vectors = {}
       /\ \A r \in Runs : rows[r] # "processed"
       /\ ~keysActive
       /\ auditLogs = {} \/ receipt.retain

\* A purge that is run again once nothing writes any more ends verified,
\* wherever the purges before it had stopped and however often its own
\* activities are repeated; only a collection that Weaviate fails to delete
\* may spoil it.
RerunVerifies == purge.at = "completed" /\ purge.quiet => receipt.verified

\* A purge keeps its word: what it refuses stays out, what it verified stays
\* gone, and one that stopped half-way can be finished by another.
PurgeSound ==
    PurgeTypeOK /\ RefusedStoresNothing /\ VerifiedStaysPurged /\ RerunVerifies

\* The comment of workspace_collection_object_count: an unknown count is never
\* reported as the verified state.
UnknownIsNotVerified ==
    receipt.written /\ receipt.after["vectors"] = -1 => ~receipt.verified
=============================================================================
