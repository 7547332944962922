----------------------------- MODULE IndexRepair -----------------------------
(***************************************************************************)
(* The operator's scripts against documents that are in PostgreSQL and not *)
(* in Weaviate: the scan of a workspace (PUB/services/index_consistency.py, *)
(* scripts/check_index_consistency.py) and the re-index of one document    *)
(* from its stored chunks (ING/services/reindex_from_postgres.py,          *)
(* scripts/reindex_orphaned_document.py), run one after the other while    *)
(* documents are uploaded, ingested again and deleted.                     *)
(***************************************************************************)
EXTENDS Integers, FiniteSets

CONSTANTS
    MaxDocuments,  \* documents are numbered in the order of created_at
    PageSize,      \* _DOCUMENT_PAGE_SIZE
    ChunkPageSize, \* _CHUNK_PAGE_SIZE
    MostRows,      \* bound of the model on the chunks of a document
    MaxTouches     \* bound of the model on what others do meanwhile

ASSUME IndexRepairAssumption ==
    /\ MaxDocuments \in Nat /\ MostRows \in Nat
    /\ PageSize \in Nat \ {0} /\ ChunkPageSize \in Nat \ {0}

VARIABLES
    listed,        \* the rows of processed_documents
    docStatus,     \* status of each document
    chunkRows,     \* document_chunks: the indexes of each document
    objects,       \* Weaviate: the indexes of each document
    scanStep, page, total, toCheck, found,   \* the scan; toCheck: what is left of
                                             \* the page, to be taken newest first
    repairStep, repaired, loaded, cleared,   \* the re-index
    \* history
    touched,       \* documents that others changed since the script began
    drifted,       \* the listing shifted under the scan
    touches

store == <<listed, docStatus, chunkRows, objects>>
scanVars == <<scanStep, page, total, toCheck, found>>
repairVars == <<repairStep, repaired, loaded, cleared>>
others == <<touched, drifted, touches>>
indexVars == <<store, scanVars, repairVars, others>>

DocIds == 1..MaxDocuments
RowSets == {0..(n - 1) : n \in 0..MostRows}

(* What the scan looks for. *)
Orphan(d) == d \in listed /\ docStatus[d] = "processed" /\ chunkRows[d] # {} /\ objects[d] = {}

(* ORDER BY ... LIMIT n OFFSET o, over rows ranked by how many come before. *)
LimitOffset(rank, n, o) == {d \in DOMAIN rank : o <= rank[d] /\ rank[d] < o + n}
-----------------------------------------------------------------------------
IndexInit ==
    /\ listed \in {1..n : n \in 0..MaxDocuments}
    /\ docStatus = [d \in DocIds |-> IF d \in listed THEN "processed" ELSE "none"]
    /\ chunkRows \in [DocIds -> RowSets]
    /\ \A d \in DocIds : d \notin listed => chunkRows[d] = {}
    /\ objects \in [DocIds -> RowSets]
    /\ \A d \in DocIds : objects[d] \in {{}, chunkRows[d]}
    /\ scanStep = "count" /\ page = 1 /\ total = 0 /\ toCheck = {} /\ found = {}
    /\ repairStep = "idle" /\ repaired = 0 /\ loaded = {} /\ cleared = FALSE
    /\ touched = {} /\ drifted = FALSE /\ touches = 0

(* get_documents: the COUNT ... *)
CountDocuments ==
    /\ scanStep = "count"
    /\ total' = Cardinality(listed) /\ scanStep' = "select"
    /\ UNCHANGED <<store, page, toCheck, found, repairVars, others>>

ListingPage == LimitOffset([d \in listed |-> Cardinality({e \in listed : e > d})],
                           PageSize, (page - 1) * PageSize)

(* ... and the page, newest first.  What the row says is kept as it was    *)
(* read.                                                                   *)
SelectPage ==
    /\ scanStep = "select"
    /\ toCheck' = {d \in ListingPage : docStatus[d] = "processed" /\ chunkRows[d] # {}}
    /\ scanStep' = IF ListingPage = {} THEN "done" ELSE "check"
    /\ UNCHANGED <<store, page, total, found, repairVars, others>>

NextDocument == CHOOSE d \in toCheck : \A e \in toCheck : e <= d

(* get_document_upload_fields: a document deleted meanwhile is skipped. *)
CheckRow ==
    /\ scanStep = "check" /\ toCheck # {}
    /\ IF NextDocument \in listed THEN scanStep' = "vectors" /\ UNCHANGED toCheck
       ELSE toCheck' = toCheck \ {NextDocument} /\ UNCHANGED scanStep
    /\ UNCHANGED <<store, page, total, found, repairVars, others>>

(* _has_vectors *)
CheckVectors ==
    /\ scanStep = "vectors"
    /\ found' = IF objects[NextDocument] = {} THEN found \cup {NextDocument} ELSE found
    /\ toCheck' = toCheck \ {NextDocument} /\ scanStep' = "check"
    /\ UNCHANGED <<store, page, total, repairVars, others>>

\* Mutant: the loop stops a page early.
LastPageEarly(p, t) == (p + 1) * PageSize >= t

LastPage(p, t) == p * PageSize >= t

EndPage ==
    /\ scanStep = "check" /\ toCheck = {}
    /\ IF LastPage(page, total) THEN scanStep' = "done" /\ UNCHANGED page
       ELSE scanStep' = "count" /\ page' = page + 1
    /\ UNCHANGED <<store, total, toCheck, found, repairVars, others>>

(* A query raises, and so does the scan. *)
ScanFails ==
    /\ scanStep \in {"count", "select", "check", "vectors"}
    /\ scanStep' = "failed"
    /\ UNCHANGED <<store, page, total, toCheck, found, repairVars, others>>
-----------------------------------------------------------------------------
(* reindex_document_from_postgres for a document of the report, which may  *)
(* be gone by now.                                                         *)
GetDocumentStatus ==
    /\ scanStep = "done" /\ repairStep = "idle"
    /\ \E d \in found :
        /\ repaired' = d
        /\ repairStep' = IF d \in listed THEN "load" ELSE "skipped"
    /\ touched' = {}
    /\ UNCHANGED <<store, scanVars, loaded, cleared, drifted, touches>>

(* A full page may not be the last. *)
MorePages(n) == n = ChunkPageSize

(* get_document_chunks, in the order of the index *)
ChunkPage ==
    LET rows == chunkRows[repaired]
    IN  LimitOffset([i \in rows |-> Cardinality({j \in rows : j < i})],
                    ChunkPageSize, Cardinality(loaded))

(* _load_all_chunks *)
LoadChunks ==
    /\ repairStep = "load"
    /\ loaded' = loaded \cup ChunkPage
    /\ repairStep' = IF MorePages(Cardinality(ChunkPage)) THEN "load"
                     ELSE IF loaded' = {} THEN "skipped" ELSE "clear"
    /\ UNCHANGED <<store, scanVars, repaired, cleared, others>>

(* delete_document_chunks_graceful: a failure does not end the re-index. *)
ClearObjects ==
    /\ repairStep = "clear"
    /\ \/ cleared' = TRUE /\ objects' = [objects EXCEPT ![repaired] = {}]
       \/ cleared' = FALSE /\ UNCHANGED objects
    /\ repairStep' = "store"
    /\ UNCHANGED <<listed, docStatus, chunkRows, scanVars, repaired, loaded, others>>

(* store_chunks_with_tenant: object ids are derived from the index; a      *)
(* batch that fails in part raises.                                        *)
StoreObjects ==
    /\ repairStep = "store"
    /\ \E written \in SUBSET loaded :
        /\ objects' = [objects EXCEPT ![repaired] = @ \cup written]
        /\ repairStep' = IF written = loaded THEN "ok" ELSE "failed"
    /\ UNCHANGED <<listed, docStatus, chunkRows, scanVars, repaired, loaded, cleared, others>>
-----------------------------------------------------------------------------
Scanning == scanStep \in {"count", "select", "check", "vectors"}

Touch(d) ==
    /\ touches < MaxTouches /\ touches' = touches + 1
    /\ Scanning \/ repairStep \in {"load", "clear", "store"}
    /\ touched' = touched \cup {d}

(* An upload adds a row, newest of all. *)
UploadDocument ==
    \E d \in DocIds :
        /\ docStatus[d] = "none" /\ \A e \in 1..(d - 1) : docStatus[e] # "none"
        /\ Touch(d)
        /\ listed' = listed \cup {d} /\ docStatus' = [docStatus EXCEPT ![d] = "pending"]
        /\ drifted' = (drifted \/ scanStep = "select")
        /\ UNCHANGED <<chunkRows, objects, scanVars, repairVars>>

(* A run of the document replaces its objects, then its rows: it is seen   *)
(* between the two.                                                        *)
IngestDocument ==
    \E d \in listed :
        /\ Touch(d)
        /\ \/ /\ docStatus[d] # "processing"
              /\ docStatus' = [docStatus EXCEPT ![d] = "processing"]
              /\ objects' = [objects EXCEPT ![d] = {}] /\ UNCHANGED chunkRows
           \/ /\ docStatus[d] = "processing"
              /\ docStatus' = [docStatus EXCEPT ![d] = "processed"]
              /\ \E rows \in RowSets \ {{}} :
                    /\ chunkRows' = [chunkRows EXCEPT ![d] = rows]
                    /\ objects' = [objects EXCEPT ![d] = rows]
        /\ UNCHANGED <<listed, scanVars, repairVars, drifted>>

(* A delete takes the objects and the row. *)
DeleteDocument ==
    \E d \in listed :
        /\ Touch(d)
        /\ listed' = listed \ {d} /\ docStatus' = [docStatus EXCEPT ![d] = "deleted"]
        /\ chunkRows' = [chunkRows EXCEPT ![d] = {}] /\ objects' = [objects EXCEPT ![d] = {}]
        /\ drifted' = (drifted \/ Scanning)
        /\ UNCHANGED <<scanVars, repairVars>>

IndexNext ==
    \/ CountDocuments \/ SelectPage \/ CheckRow \/ CheckVectors \/ EndPage \/ ScanFails
    \/ GetDocumentStatus \/ LoadChunks \/ ClearObjects \/ StoreObjects
    \/ UploadDocument \/ IngestDocument \/ DeleteDocument

IndexSpec == IndexInit /\ [][IndexNext]_indexVars
-----------------------------------------------------------------------------
(* The scan reads by OFFSET while the listing changes.  It misses no       *)
(* orphan unless a row left the listing, or one came between the count and *)
(* the page; and what it reports is an orphan unless somebody changed it.  *)
ScanComplete ==
    repairStep = "idle" =>
        /\ scanStep = "done" /\ ~drifted => \A d \in DocIds \ touched : Orphan(d) => d \in found
        /\ \A d \in found \ touched : Orphan(d)

(* A re-index that ends well has put every chunk of the document into the  *)
(* index, however many pages that took, and nothing else if the old        *)
(* objects could be cleared, provided nobody changed it meanwhile.         *)
ReindexExact ==
    repairStep = "ok" /\ repaired \notin touched =>
        /\ chunkRows[repaired] \subseteq objects[repaired]
        /\ cleared => objects[repaired] = chunkRows[repaired]

(* The operator may rely on the report and on the repair. *)
IndexRepairSound == ScanComplete /\ ReindexExact
=============================================================================
