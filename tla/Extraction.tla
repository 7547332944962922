------------------------------ MODULE Extraction ------------------------------
(***************************************************************************)
(* From an uploaded file to the text of a document: the checks on its type *)
(* (inh_contracts/file_types.py, called by document_intake.py and again by *)
(* the ingestion service), and the activity extract_text with one          *)
(* extractor per format (temporal/activities/extract.py), which Temporal   *)
(* retries.  A file is a sequence of items: the heading that opens a       *)
(* section (sheet, slide, page, chapter), then its units (rows,            *)
(* paragraphs, cues); of a unit only its length class matters.             *)
(***************************************************************************)
EXTENDS Integers, Sequences, FiniteSets, SequencesExt, FiniteSetsExt

CONSTANTS
    FileItems,              \* bound of the model on a file
    CountCap,               \* _MAX_XLSX_CELLS, _MAX_PPTX_SLIDES
    TextCap,                \* _MAX_XLSX_TEXT_CHARS, _MAX_PPTX_TEXT_CHARS
    MaxAttempts             \* the retry policy of the activity (3 in the code)

ASSUME ExtractionAssumption ==
    /\ {FileItems, CountCap, TextCap} \subseteq Nat
    /\ MaxAttempts \in Nat \ {0}

VARIABLES
    file,        \* what was uploaded
    gate,        \* what the upload's checks said
    storedType,  \* the content type the document was registered with
    exStep,      \* where the activity is
    attempt,     \* attempts begun
    extractor,   \* the extractor of the attempt
    position,    \* items of the file read in the attempt
    texts,       \* the pieces of text so far: the positions of their items
    charTotal,       \* total_chars of the attempt
    unchecked,   \* how many of them were added since the cap was last compared
    failures,    \* the failures of the attempts, in order
    staged       \* the text in the staging area

extractionVars == <<file, gate, storedType, exStep, attempt, extractor, position, texts, charTotal,
                    unchecked, failures, staged>>

-----------------------------------------------------------------------------
(* The registry: formats by extractor, and the signature each file starts with. *)
Formats == {"txt", "html", "json", "pdf", "docx", "xlsx", "pptx", "png", "eml", "epub", "rtf",
            "odt", "srt"}
ZipBased == {"docx", "xlsx", "pptx", "epub", "odt"}

Magic(f) == CASE f \in ZipBased -> "PK"
              [] f \in {"pdf", "png", "rtf"} -> f
              [] OTHER -> "none"

ExtensionExempt(f) == f = "rtf"

(* A content type is a format's own, "generic" (application/octet-stream) or
   "unknown"; an extension is a format's own, "none" or "unknown". *)
ContentTypes == Formats \cup {"generic", "unknown"}
Extensions == Formats \cup {"none", "unknown"}

NoSpec == "no_spec"

GetSpecForMime(type) == IF type \in Formats THEN type ELSE NoSpec

(* resolve_upload_spec: the extension decides only for a generic type. *)
ResolveUploadSpec(type, extension) ==
    IF GetSpecForMime(type) # NoSpec THEN GetSpecForMime(type)
    ELSE IF type = "generic" /\ extension \in Formats THEN extension
    ELSE NoSpec

(* check_extension_consistency. *)
ExtensionConsistent(extension, spec) ==
    \/ extension \notin Formats
    \/ Magic(extension) = "none" \/ ExtensionExempt(extension)
    \/ extension = spec

(* sniff_content_type: the spec's own signature is there, and no other one that
   is not of the same family. *)
SniffAccepts(format, spec) ==
    /\ Magic(spec) # "none" => Magic(format) = Magic(spec)
    /\ Magic(format) # "none" => Magic(format) = Magic(spec)

-----------------------------------------------------------------------------
UnitKinds == {"blank", "nul", "short", "long"}
Size(u) == CASE u = "blank" -> 0 [] u \in {"nul", "short"} -> 1 [] u = "long" -> 3
HeadingSize == 1

Readable(u) == u \in {"short", "long"}

(* The items of a file: a heading comes first. *)
ItemKinds == UnitKinds \cup {"heading"}
ItemLists == { s \in SeqOf(ItemKinds, FileItems) : s # <<>> => s[1] = "heading" }

(* What an extractor does where the others differ: whether its parser refuses
   bytes for good (corrupt, encrypted, of another format), what its caps count,
   and what becomes of a file without text: "final" fails at once, "retried"
   is refused by the quality check, "placeholder" stands for the text. *)
Behaviour(parsed, cap, empty) == [parsed |-> parsed, cap |-> cap, empty |-> empty]

DecodeText == Behaviour(FALSE, "none", "retried")
ExtractHtml == Behaviour(FALSE, "none", "retried")
ExtractEml == Behaviour(FALSE, "none", "retried")
ExtractImage == Behaviour(FALSE, "none", "placeholder")
ExtractJson == Behaviour(TRUE, "none", "retried")
ExtractPdf == Behaviour(TRUE, "none", "retried")
ExtractDocx == Behaviour(TRUE, "none", "retried")
ExtractXlsx == Behaviour(TRUE, "cells", "retried")
ExtractPptx == Behaviour(TRUE, "slides", "retried")
ExtractEpub == Behaviour(TRUE, "none", "final")
ExtractRtf == Behaviour(TRUE, "none", "final")
ExtractOdt == Behaviour(TRUE, "none", "final")
ExtractSubtitle == Behaviour(FALSE, "none", "final")

Extractors ==
    [txt |-> DecodeText, html |-> ExtractHtml, eml |-> ExtractEml, png |-> ExtractImage,
     json |-> ExtractJson, pdf |-> ExtractPdf, docx |-> ExtractDocx, xlsx |-> ExtractXlsx,
     pptx |-> ExtractPptx, epub |-> ExtractEpub, rtf |-> ExtractRtf, odt |-> ExtractOdt,
     srt |-> ExtractSubtitle]

-----------------------------------------------------------------------------
(* Files whose type and name agree with their bytes, of any content; types and
   names that disagree are tried on one small file. *)
Agreeing ==
    { [format |-> f, declared |-> f, extension |-> f, intact |-> ok, gated |-> TRUE,
       items |-> s] : f \in Formats, ok \in BOOLEAN, s \in ItemLists }
Disagreeing ==
    [format : Formats, declared : ContentTypes, extension : Extensions,
     intact : {TRUE}, gated : BOOLEAN, items : {<<"heading", "short">>}]

ExtractionInit ==
    /\ file \in { f \in Agreeing \cup Disagreeing : f.intact \/ Extractors[f.format].parsed }
    /\ gate = "none" /\ storedType = "unknown" /\ exStep = "gate" /\ attempt = 0
    /\ extractor = NoSpec /\ position = 0 /\ texts = <<>> /\ charTotal = 0 /\ unchecked = 0
    /\ failures = <<>> /\ staged = <<>>

activityVars == <<extractor, position, texts, charTotal, unchecked, failures, staged>>

(* The upload is checked before it is stored; the resolved type replaces a
   generic one. The trigger route of the ingestion service has no such check. *)
CheckUpload ==
    /\ exStep = "gate"
    /\ LET spec == ResolveUploadSpec(file.declared, file.extension)
           ok == /\ spec # NoSpec /\ ExtensionConsistent(file.extension, spec)
                 /\ SniffAccepts(file.format, spec)
       IN  /\ gate' = IF ~file.gated THEN "bypassed" ELSE IF ok THEN "accepted" ELSE "rejected"
           /\ storedType' = IF gate' = "accepted" THEN spec ELSE file.declared
    /\ exStep' = IF gate' = "rejected" THEN "rejected" ELSE "queued"
    /\ UNCHANGED <<file, attempt>> /\ UNCHANGED activityVars

\* Mutant: what an attempt collected is still there in the next.
BeginAttemptResumed ==
    /\ exStep = "queued"
    /\ attempt' = attempt + 1 /\ exStep' = "fetching"
    /\ extractor' = NoSpec /\ position' = 0 /\ UNCHANGED <<texts, charTotal, unchecked>>
    /\ UNCHANGED <<file, gate, storedType, failures, staged>>

BeginAttempt ==
    /\ exStep = "queued"
    /\ attempt' = attempt + 1 /\ exStep' = "fetching"
    /\ extractor' = NoSpec /\ position' = 0 /\ texts' = <<>> /\ charTotal' = 0 /\ unchecked' = 0
    /\ UNCHANGED <<file, gate, storedType, failures, staged>>

\* Mutant: the exception is not marked as non-retryable.
FailAlwaysRetried(kind, permanent) ==
    /\ failures' = Append(failures, [kind |-> kind, permanent |-> permanent])
    /\ exStep' = IF attempt = MaxAttempts THEN "failed" ELSE "queued"
    /\ UNCHANGED <<file, gate, storedType, attempt, extractor, position, texts, charTotal, unchecked,
                   staged>>

(* An ApplicationError with non_retryable ends the activity, any other
   exception costs an attempt. *)
Fail(kind, permanent) ==
    /\ failures' = Append(failures, [kind |-> kind, permanent |-> permanent])
    /\ exStep' = IF permanent \/ attempt = MaxAttempts THEN "failed" ELSE "queued"
    /\ UNCHANGED <<file, gate, storedType, attempt, extractor, position, texts, charTotal, unchecked,
                   staged>>

StorageFails == exStep = "fetching" /\ Fail("storage", FALSE)

(* The type is resolved again, from what was stored. *)
Resolve ==
    /\ exStep = "fetching"
    /\ extractor' = ResolveUploadSpec(storedType, file.extension)
    /\ extractor' # NoSpec
    /\ exStep' = "opening"
    /\ UNCHANGED <<file, gate, storedType, attempt, position, texts, charTotal, unchecked, failures,
                   staged>>

Unregistered ==
    /\ exStep = "fetching"
    /\ ResolveUploadSpec(storedType, file.extension) = NoSpec
    /\ Fail("unregistered", TRUE)

(* A parser takes only an intact file of its own format; the extractors without
   one take any bytes. *)
Refused == Extractors[extractor].parsed /\ (~file.intact \/ file.format # extractor)

Open ==
    /\ exStep = "opening" /\ ~Refused
    /\ exStep' = "reading"
    /\ UNCHANGED <<file, gate, storedType, attempt>> /\ UNCHANGED activityVars

OpenFails ==
    /\ exStep = "opening" /\ Refused
    /\ Fail("corrupt", TRUE)

Item == file.items[position + 1]
MoreItems == exStep = "reading" /\ position < Len(file.items)

HeadingsSeen == { i \in 1..position : file.items[i] = "heading" }
CellsSeen == { i \in 1..position : file.items[i] # "heading" }

(* The cap is compared after a row that is not empty and after every shape. *)
Cap == Extractors[extractor].cap
Compared == Item # "heading" /\ (Cap = "slides" \/ (Cap = "cells" /\ Item # "blank"))

(* Headings of the capped formats are text and are counted, not compared. *)
ReadHeading ==
    /\ MoreItems /\ Item = "heading"
    /\ Cap = "slides" => Cardinality(HeadingsSeen) < CountCap
    /\ position' = position + 1
    /\ IF Cap # "none"
       THEN /\ texts' = Append(texts, position + 1)
            /\ charTotal' = charTotal + HeadingSize /\ unchecked' = unchecked + HeadingSize
       ELSE UNCHANGED <<texts, charTotal, unchecked>>
    /\ UNCHANGED <<file, gate, storedType, exStep, attempt, extractor, failures, staged>>

(* A unit without text is skipped; one with text is added and the cap compared. *)
ReadUnit ==
    /\ MoreItems /\ Item # "heading"
    /\ Cap = "cells" => Cardinality(CellsSeen) < CountCap
    /\ Compared => charTotal + Size(Item) <= TextCap
    /\ position' = position + 1
    /\ IF Item = "blank" THEN UNCHANGED <<texts, charTotal, unchecked>>
       ELSE /\ texts' = Append(texts, position + 1) /\ charTotal' = charTotal + Size(Item) /\ unchecked' = 0
    /\ UNCHANGED <<file, gate, storedType, exStep, attempt, extractor, failures, staged>>

CapExceeded ==
    /\ MoreItems
    /\ \/ Cap = "slides" /\ Item = "heading" /\ Cardinality(HeadingsSeen) >= CountCap
       \/ Cap = "cells" /\ Item # "heading" /\ Cardinality(CellsSeen) >= CountCap
       \/ Compared /\ charTotal + Size(Item) > TextCap
    /\ Fail("cap", TRUE)

(* No memory to open the file, or a unit that cannot be read, ends the attempt;
   OCR answers with its placeholder instead. *)
UnitRaises ==
    /\ exStep = "opening" \/ MoreItems
    /\ Extractors[extractor].empty # "placeholder"
    /\ Fail("unit", FALSE)

(* OCR that fails or finds nothing, an engine that is not installed. *)
Placeholder == <<0>>
PieceKind(p) == IF p = 0 THEN "placeholder" ELSE file.items[p]

Emptied(t) == \A i \in DOMAIN t : PieceKind(t[i]) = "nul"
NoData(t) == \A i \in DOMAIN t : PieceKind(t[i]) = "heading"

(* _strip_nul_bytes: NULs are removed behind the quality check. *)
Stripped(t) ==
    LET kept[n \in 0..Len(t)] ==
          IF n = 0 THEN <<>>
          ELSE IF PieceKind(t[n]) = "nul" THEN kept[n - 1] ELSE Append(kept[n - 1], t[n])
    IN  kept[Len(t)]

(* A workbook without a row of data is an empty text; slides keep their
   headings. *)
Finish ==
    /\ exStep = "reading" /\ position = Len(file.items)
    /\ LET empty == Extractors[extractor].empty
           text == IF empty = "placeholder" /\ texts = <<>> THEN Placeholder ELSE texts
       IN  IF NoData(text) /\ empty = "final" THEN Fail("no_text", TRUE)
           ELSE IF Emptied(text) \/ (NoData(text) /\ Cap = "cells") THEN Fail("empty", FALSE)
           ELSE /\ staged' = Stripped(text)
                /\ exStep' = "staged"
                /\ UNCHANGED <<file, gate, storedType, attempt, extractor, position, texts,
                               charTotal, unchecked, failures>>

(* The worker dies after the text is staged and before it reports: Temporal
   starts another attempt, which overwrites the text. *)
ReportLost ==
    /\ exStep = "staged" /\ attempt < MaxAttempts
    /\ exStep' = "queued"
    /\ UNCHANGED <<file, gate, storedType, attempt>> /\ UNCHANGED activityVars

ExtractionNext ==
    \/ CheckUpload \/ BeginAttempt \/ StorageFails \/ Resolve \/ Unregistered \/ Open \/ OpenFails
    \/ ReadHeading \/ ReadUnit \/ CapExceeded \/ UnitRaises \/ Finish \/ ReportLost

ExtractionSpec == ExtractionInit /\ [][ExtractionNext]_extractionVars

-----------------------------------------------------------------------------
ExtractionTypeOK ==
    /\ gate \in {"none", "accepted", "rejected", "bypassed"}
    /\ exStep \in {"gate", "rejected", "queued", "fetching", "opening", "reading", "staged", "failed"}
    /\ attempt \in 0..MaxAttempts /\ extractor \in Formats \cup {NoSpec}
    /\ position \in 0..Len(file.items) /\ storedType \in ContentTypes

(* What is staged of an upload that was checked is its whole text, each readable unit once and in
   order, whatever attempts failed before and at which unit; only an image
   without text is a placeholder. *)
StagedIsWhole ==
    staged # <<>> /\ gate = "accepted" =>
        \/ /\ \A i, j \in DOMAIN staged : i < j => staged[i] < staged[j]
           /\ { p \in ToSet(staged) : PieceKind(p) # "heading" }
                 = { p \in DOMAIN file.items : Readable(file.items[p]) }
        \/ file.format = "png" /\ staged = Placeholder

(* #118, #119: the text of a workbook or a deck stays under its cap but for the
   headings of the sections that had nothing to compare it at. *)
CapHolds == extractor # NoSpec /\ Cap # "none" => charTotal - unchecked <= TextCap

(* The text of an extraction is whole and bounded. *)
ExtractedText == ExtractionTypeOK /\ StagedIsWhole /\ CapHolds

(* #195, #206: a failure the bytes alone decide costs one attempt, and a failure
   that may pass (storage, memory, a unit) is tried again as often as allowed. *)
FailuresClassified ==
    /\ \A i \in DOMAIN failures :
         failures[i].kind \in {"corrupt", "cap", "unregistered", "no_text"}
            => i = Len(failures) /\ exStep = "failed"
    /\ exStep = "failed" => attempt = MaxAttempts \/ Last(failures).permanent

(* An upload the API accepted has an extractor in the ingestion service, the
   one of the type it was checked as. *)
AcceptedHasExtractor ==
    gate = "accepted" =>
        /\ extractor # NoSpec => extractor = ResolveUploadSpec(file.declared, file.extension)
        /\ \A i \in DOMAIN failures : failures[i].kind # "unregistered"

(* The failures of an extraction are the ones its file explains. *)
FailuresExplained == FailuresClassified /\ AcceptedHasExtractor
=============================================================================
