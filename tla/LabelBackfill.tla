---------------------------- MODULE LabelBackfill ----------------------------
(***************************************************************************)
(* The backfill of stale content types                                     *)
(* (ING/scripts/backfill_stale_content_type.py), run as often as the       *)
(* operator likes, with --dry-run or without, killed at any point, while   *)
(* documents are uploaded and ingested again.                              *)
(*                                                                         *)
(* A document's name says which type the registry gives it: "code" stands  *)
(* for a registered extension of another type, "md" for one of the stale   *)
(* type itself, "bare" for a name that determines nothing.                 *)
(***************************************************************************)
EXTENDS Integers, FiniteSets

CONSTANTS
    LabelledDocuments, \* the ids of the rows, in the order of the primary key
    BatchSize,         \* --batch-size
    MaxScriptRuns,     \* bounds of the model: how often the script is started,
    MaxReuploads       \* and how often a document is uploaded meanwhile

ASSUME LabelBackfillAssumption == LabelledDocuments \subseteq Nat \ {0} /\ BatchSize \in Nat \ {0}

VARIABLES
    filename,      \* per document: what its name determines
    rowLabel,      \* processed_documents.content_type
    objectLabel,   \* content_type of the document's objects in Weaviate
    eventLabel,    \* content_type of an upload whose run has not stored yet
    scriptStep, dryRun, cursor,
    batchRows,     \* the names in the page at hand, by the ids left to do
    \* history
    uploadedLabel, \* the label of the document's last upload
    reported,      \* the documents listed in weaviate_failures since then
    cut,           \* those whose update was the last thing a killed run did
    overtaken,     \* the documents uploaded since this run began
    overwritten,   \* those this or an earlier run then wrote all the same
    scriptRuns, reuploads

labels == <<filename, rowLabel, objectLabel, eventLabel>>
script == <<scriptStep, dryRun, cursor, batchRows>>
labelHistory == <<uploadedLabel, reported, cut, overtaken, overwritten, scriptRuns, reuploads>>
labelVars == <<labels, script, labelHistory>>

Stale == "text/markdown"
Other == "other"
Undetermined == "none"
-----------------------------------------------------------------------------
(* derive_confident_content_type *)
DeriveConfidentContentType(name) ==
    CASE name = "code" -> Other
      [] name = "md" -> Stale
      [] name = "bare" -> Undetermined

(* plan_content_type_update: the label to write, or Undetermined. *)
PlanContentTypeUpdate(label, name) ==
    LET derived == DeriveConfidentContentType(name) IN
    IF label # Stale \/ derived = Stale THEN Undetermined ELSE derived

NoRows == [d \in {} |-> Undetermined]

LabelsInit ==
    /\ filename \in [LabelledDocuments -> {"code", "md", "bare"}]
    /\ rowLabel \in [LabelledDocuments -> {Stale, Other}]
    /\ objectLabel = rowLabel /\ uploadedLabel = rowLabel
    /\ eventLabel = [d \in LabelledDocuments |-> Undetermined]
    /\ scriptStep = "off" /\ dryRun = FALSE /\ cursor = 0 /\ batchRows = NoRows
    /\ reported = {} /\ cut = {} /\ overtaken = {} /\ overwritten = {}
    /\ scriptRuns = 0 /\ reuploads = 0

StartScript(dry) ==
    /\ scriptStep \in {"off", "crashed", "done"} /\ scriptRuns < MaxScriptRuns
    /\ scriptRuns' = scriptRuns + 1
    /\ scriptStep' = "page" /\ dryRun' = dry /\ cursor' = 0 /\ batchRows' = NoRows
    /\ overtaken' = {}
    /\ UNCHANGED <<labels, uploadedLabel, reported, cut, overwritten, reuploads>>

\* Mutant: OFFSET instead of the cursor, over rows that leave the filter.
NextPageByOffset(after) ==
    LET matching == {d \in LabelledDocuments : rowLabel[d] = Stale}
        offset == IF after = 0 THEN 0 ELSE BatchSize
        Position(d) == Cardinality({e \in matching : e < d})
    IN  {d \in matching : offset <= Position(d) /\ Position(d) < offset + BatchSize}

(* WHERE content_type = 'text/markdown' AND id > cursor ORDER BY id LIMIT: *)
(* fewer than BatchSize matching rows come before a row of the page.       *)
NextPage(after) ==
    LET matching == {d \in LabelledDocuments : rowLabel[d] = Stale /\ d > after}
    IN  {d \in matching : Cardinality({e \in matching : e < d}) < BatchSize}

(* A page is read in a session of its own. *)
ReadStaleRows ==
    /\ scriptStep = "page"
    /\ batchRows' = [d \in NextPage(cursor) |-> filename[d]]
    /\ scriptStep' = IF NextPage(cursor) = {} THEN "done" ELSE "row"
    /\ UNCHANGED <<labels, dryRun, cursor, labelHistory>>

(* The row at hand: the rows of a page are taken in the order of their ids. *)
FirstRow == CHOOSE d \in DOMAIN batchRows : \A e \in DOMAIN batchRows : d <= e

(* The label to write for it, as it was read. *)
Planned == PlanContentTypeUpdate(Stale, batchRows[FirstRow])

NextRow == LET left == DOMAIN batchRows \ {FirstRow} IN
           /\ batchRows' = [d \in left |-> batchRows[d]]
           /\ scriptStep' = IF left = {} THEN "page" ELSE "row"

(* Nothing can or need be done about the row. *)
SkipStaleRow ==
    /\ scriptStep = "row" /\ Planned = Undetermined
    /\ cursor' = FirstRow /\ NextRow
    /\ UNCHANGED <<labels, dryRun, labelHistory>>

(* The row is written by its id.  A dry run goes straight to Weaviate, for *)
(* the number of objects.                                                  *)
UpdateStaleRow ==
    /\ scriptStep = "row" /\ Planned # Undetermined
    /\ cursor' = FirstRow /\ scriptStep' = "sync"
    /\ rowLabel' = IF dryRun THEN rowLabel ELSE [rowLabel EXCEPT ![cursor'] = Planned]
    /\ overwritten' = IF dryRun THEN overwritten ELSE overwritten \cup ({cursor'} \cap overtaken)
    /\ UNCHANGED <<filename, objectLabel, eventLabel, dryRun, batchRows, uploadedLabel,
                   reported, cut, overtaken, scriptRuns, reuploads>>

(* The script calls update_chunks_content_type, which WeaviateService does *)
(* not have: the call raises.  A dry run has no handler for that and ends; *)
(* the other records the document and goes on.                             *)
SyncObjects ==
    /\ scriptStep = "sync"
    /\ IF dryRun THEN scriptStep' = "crashed" /\ UNCHANGED <<batchRows, reported>>
       ELSE reported' = reported \cup {cursor} /\ NextRow
    /\ UNCHANGED <<labels, dryRun, cursor, uploadedLabel, cut, overtaken, overwritten,
                   scriptRuns, reuploads>>

(* The script is killed, or a query of it raises. *)
ScriptDies ==
    /\ scriptStep \in {"page", "row", "sync"}
    /\ scriptStep' = "crashed"
    /\ cut' = IF scriptStep = "sync" /\ ~dryRun THEN cut \cup {cursor} ELSE cut
    /\ UNCHANGED <<labels, dryRun, cursor, batchRows, uploadedLabel, reported, overtaken,
                   overwritten, scriptRuns, reuploads>>

(* The document is uploaded again, under a name and a type of its caller's *)
(* choice: the row has them at once ...                                    *)
ReuploadDocument ==
    /\ reuploads < MaxReuploads /\ reuploads' = reuploads + 1
    /\ \E d \in LabelledDocuments, name \in {"code", "md", "bare"}, label \in {Stale, Other} :
        /\ filename' = [filename EXCEPT ![d] = name]
        /\ rowLabel' = [rowLabel EXCEPT ![d] = label]
        /\ eventLabel' = [eventLabel EXCEPT ![d] = label]
        /\ uploadedLabel' = [uploadedLabel EXCEPT ![d] = label]
        /\ overtaken' = overtaken \cup {d}
        /\ reported' = reported \ {d} /\ cut' = cut \ {d} /\ overwritten' = overwritten \ {d}
    /\ UNCHANGED <<objectLabel, script, scriptRuns>>

(* ... and the run writes the type of the event into the objects, and      *)
(* leaves the row's alone.                                                 *)
IngestUpload ==
    /\ \E d \in LabelledDocuments :
        /\ eventLabel[d] # Undetermined
        /\ objectLabel' = [objectLabel EXCEPT ![d] = eventLabel[d]]
        /\ eventLabel' = [eventLabel EXCEPT ![d] = Undetermined]
    /\ UNCHANGED <<filename, rowLabel, script, labelHistory>>

LabelsNext ==
    \/ \E dry \in BOOLEAN : StartScript(dry)
    \/ ReadStaleRows \/ SkipStaleRow \/ UpdateStaleRow \/ SyncObjects \/ ScriptDies
    \/ ReuploadDocument \/ IngestUpload

LabelsSpec == LabelsInit /\ [][LabelsNext]_labelVars
-----------------------------------------------------------------------------
(* Keyset pages over a filter the script itself empties: a run that ends   *)
(* leaves no row behind that it could decide, whatever was uploaded        *)
(* meanwhile, except where it was overtaken.                               *)
BackfillComplete ==
    scriptStep = "done" /\ ~dryRun =>
        \A d \in LabelledDocuments \ overtaken :
            PlanContentTypeUpdate(rowLabel[d], filename[d]) = Undetermined

(* The label is the one the document was uploaded with, or its name proves *)
(* another, unless the script wrote over an upload that overtook it.       *)
LabelIsProven ==
    \A d \in LabelledDocuments \ overwritten :
        rowLabel[d] # uploadedLabel[d] =>
            uploadedLabel[d] = Stale /\ rowLabel[d] = DeriveConfidentContentType(filename[d])

(* Where the stores disagree the operator was told, or the script was      *)
(* killed between the two, or an upload is on its way.                     *)
DisagreementShown ==
    \A d \in LabelledDocuments :
        rowLabel[d] # objectLabel[d] =>
            \/ d \in reported \cup cut
            \/ scriptStep = "sync" /\ cursor = d
            \/ eventLabel[d] # Undetermined

(* What the operator may rely on. *)
LabelsSound == BackfillComplete /\ LabelIsProven /\ DisagreementShown
=============================================================================
