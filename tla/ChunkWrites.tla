----------------------------- MODULE ChunkWrites -----------------------------
(***************************************************************************)
(* Single-chunk writes of one document.  The public API (REST routes and   *)
(* MCP tools alike) creates, updates and deletes a chunk in PostgreSQL and *)
(* in Weaviate with compensation but without a lock over the two stores;   *)
(* the ingestion service edits a chunk in a Temporal workflow.  Requests   *)
(* interleave at every await.                                              *)
(*                                                                         *)
(* A request writes the text that carries its own name, so a content hash  *)
(* is identified with the text it is computed from.  The document itself   *)
(* exists throughout: its deletion is part of module Ingestion.            *)
(***************************************************************************)
EXTENDS Integers, FiniteSets, FiniteSetsExt

CONSTANTS Requests,     \* HTTP requests, tool calls and edit workflows
          MaxIndex,     \* bound: the highest chunk_index an append may take
          Attempts,     \* attempts of a compensating write and of a re-embed
          MaxFaults,    \* bound: failures that may happen in a behaviour
          Original,     \* the text the document was ingested with
          None          \* no row, no vector, or a NULL content_hash

ASSUME ChunkAssumption ==
    /\ MaxIndex \in Nat
    /\ Attempts \in Nat \ {0}
    /\ MaxFaults \in Nat
    /\ Original # None
    /\ {Original, None} \cap Requests = {}

VARIABLES rowText,     \* document_chunks.content by chunk_index
          rowHash,     \* document_chunks.content_hash
          vec,         \* the text whose embedding the Weaviate object holds
          chunkCount,  \* processed_documents.chunk_count
          req,         \* where each request stands
          signals,     \* what operators can find: metrics, logs, event rows
          lost,        \* indexes where Weaviate applied a write it reported as failed
          contended,   \* indexes on which two requests were open at a time
          faults

chunkVars == <<rowText, rowHash, vec, chunkCount, req, signals, lost, contended, faults>>

Idx == 0..MaxIndex
Texts == Requests \cup {Original}
OptText == Texts \cup {None}
Rows == {i \in Idx : rowText[i] # None}

Stages == {"idle", "found", "written", "restore", "unrow", "selected",
           "record", "done"}
Replies == {"none", "ok", "notfound", "conflict", "unavailable", "error"}
SignalKinds == {"timeout", "exhausted", "recorded"}

Fresh == [op |-> "none", at |-> "idle", idx |-> 0, prior |-> None, priorHash |-> None,
          tries |-> 0, reply |-> "none"]

Open(r) == req[r].at \notin {"idle", "done"}
OpenOn(i) == {r \in Requests : Open(r) /\ req[r].idx = i
                               /\ ~(req[r].op = "create" /\ req[r].at = "found")}

\* A document with one ingested chunk.  Rows from before the hash column have
\* no content_hash.
ChunkInit ==
    /\ rowText = [i \in Idx |-> IF i = 0 THEN Original ELSE None]
    /\ rowHash \in {[i \in Idx |-> IF i = 0 THEN h ELSE None] : h \in {Original, None}}
    /\ vec = rowText
    /\ chunkCount = 1
    /\ req = [r \in Requests |-> Fresh]
    /\ signals = {}
    /\ lost = {}
    /\ contended = {}
    /\ faults = 0

----------------------------------------------------------------------------
\* Steps of one request

Goto(r, at) == req' = [req EXCEPT ![r].at = at, ![r].tries = 0]
Answer(r, reply) == req' = [req EXCEPT ![r].at = "done", ![r].reply = reply]

Fault == /\ faults < MaxFaults
         /\ faults' = faults + 1

\* An index two open requests work on is contended from then on.
Contend(r, i) ==
    contended' = IF OpenOn(i) \ {r} = {} THEN contended ELSE contended \cup {i}

\* POST /chunks/{document_id}: the index is not known before the append.
BeginCreate(r) ==
    /\ req[r].at = "idle"
    /\ req' = [req EXCEPT ![r] = [Fresh EXCEPT !.op = "create", !.at = "found"]]
    /\ UNCHANGED <<rowText, rowHash, vec, chunkCount, signals, lost, contended, faults>>

\* PATCH and DELETE /chunks/{document_id}/index/{chunk_index}: read the chunk.
BeginOnChunk(r, op, i) ==
    /\ req[r].at = "idle"
    /\ req' = [req EXCEPT ![r] =
          IF rowText[i] = None
          THEN [Fresh EXCEPT !.op = op, !.idx = i, !.at = "done", !.reply = "notfound"]
          ELSE [Fresh EXCEPT !.op = op, !.idx = i, !.at = "found",
                             !.prior = rowText[i], !.priorHash = rowHash[i]]]
    /\ IF rowText[i] = None THEN UNCHANGED contended ELSE Contend(r, i)
    /\ UNCHANGED <<rowText, rowHash, vec, chunkCount, signals, lost, faults>>

\* PATCH /chunks/{document_id}/{chunk_index} of the ingestion service: the
\* workflow id names the chunk, so a second edit of it is refused.
BeginEdit(r, i) ==
    /\ req[r].at = "idle"
    /\ LET busy == \E s \in OpenOn(i) : req[s].op = "edit"
           reply == IF rowText[i] = None THEN "notfound" ELSE "conflict"
       IN IF rowText[i] = None \/ busy
          THEN /\ req' = [req EXCEPT ![r] = [Fresh EXCEPT !.op = "edit", !.idx = i,
                                                !.at = "done", !.reply = reply]]
               /\ UNCHANGED contended
          ELSE /\ req' = [req EXCEPT ![r] = [Fresh EXCEPT !.op = "edit", !.idx = i,
                                                !.at = "found"]]
               /\ Contend(r, i)
    /\ UNCHANGED <<rowText, rowHash, vec, chunkCount, signals, lost, faults>>

NextIndex == IF Rows = {} THEN 0 ELSE Max(Rows) + 1

\* append_document_chunk: under the lock of the parent row, one past the
\* highest index in use.
AppendRow(r) ==
    /\ req[r].at = "found" /\ req[r].op = "create"
    /\ NextIndex <= MaxIndex
    /\ rowText' = [rowText EXCEPT ![NextIndex] = r]
    /\ rowHash' = [rowHash EXCEPT ![NextIndex] = r]
    /\ chunkCount' = chunkCount + 1
    /\ req' = [req EXCEPT ![r].at = "written", ![r].idx = NextIndex]
    /\ Contend(r, NextIndex)
    /\ UNCHANGED <<vec, signals, lost, faults>>

\* The hash the update compares with, when the row read had one.
HashUnchanged(i, hash) == hash = None \/ rowHash[i] = hash

\* update_document_chunk: a compare-and-set on the content hash.
UpdateRow(r) ==
    LET i == req[r].idx IN
    /\ req[r].at = "found" /\ req[r].op = "update"
    /\ IF rowText[i] # None /\ HashUnchanged(i, req[r].priorHash)
       THEN /\ rowText' = [rowText EXCEPT ![i] = r]
            /\ rowHash' = [rowHash EXCEPT ![i] = r]
            /\ Goto(r, "written")
       ELSE /\ Answer(r, "notfound")
            /\ UNCHANGED <<rowText, rowHash>>
    /\ UNCHANGED <<vec, chunkCount, signals, lost, contended, faults>>

\* update_chunk_postgresql: no retry policy is given, so Temporal repeats the
\* activity for as long as it raises, also when the row is missing.
EditRow(r) ==
    LET i == req[r].idx IN
    /\ req[r].at = "found" /\ req[r].op = "edit"
    /\ rowText[i] # None
    /\ rowText' = [rowText EXCEPT ![i] = r]
    /\ rowHash' = [rowHash EXCEPT ![i] = r]
    /\ Goto(r, "written")
    /\ UNCHANGED <<vec, chunkCount, signals, lost, contended, faults>>

\* The database refuses the first write of a request.
RowFails(r) ==
    /\ req[r].at = "found" /\ req[r].op \in {"create", "update"}
    /\ Fault
    /\ Answer(r, "unavailable")
    /\ UNCHANGED <<rowText, rowHash, vec, chunkCount, signals, lost, contended>>

----------------------------------------------------------------------------
\* Weaviate

\* A POST needs a free object id, a PATCH an existing object.
Accepts(r) == (vec[req[r].idx] = None) <=> (req[r].op = "create")

\* upsert_chunk_vector and WeaviateService.update_chunk: embed and write.
Embed(r) ==
    /\ req[r].at = "written"
    /\ Accepts(r)
    /\ vec' = [vec EXCEPT ![req[r].idx] = r]
    /\ Answer(r, "ok")
    /\ UNCHANGED <<rowText, rowHash, chunkCount, signals, lost, contended, faults>>

\* Mutant: a failed re-embed of an edit is taken for success.
AfterEmbedErrorSwallowed(r) ==
    CASE req[r].op = "create" -> Goto(r, "unrow")
      [] req[r].op = "update" -> Goto(r, "restore")
      [] OTHER -> Answer(r, "ok")

\* What a raised error leads to: the append deletes its row, the update
\* restores the row, the workflow tries again and then records the failure.
AfterEmbedError(r) ==
    CASE req[r].op = "create" -> Goto(r, "unrow")
      [] req[r].op = "update" -> Goto(r, "restore")
      [] req[r].op = "edit" /\ req[r].tries + 1 < Attempts ->
            req' = [req EXCEPT ![r].tries = @ + 1]
      [] OTHER -> Goto(r, "record")

EmbedRefused(r) ==
    /\ req[r].at = "written"
    /\ ~Accepts(r)
    /\ AfterEmbedError(r)
    /\ UNCHANGED <<rowText, rowHash, vec, chunkCount, signals, lost, contended, faults>>

\* The write may have been applied although an error comes back.
Applied(r, text) ==
    \/ UNCHANGED <<vec, lost>>
    \/ /\ Accepts(r)
       /\ vec' = [vec EXCEPT ![req[r].idx] = text]
       /\ lost' = lost \cup {req[r].idx}

EmbedFails(r) ==
    /\ req[r].at = "written"
    /\ Fault
    /\ Applied(r, r)
    /\ AfterEmbedError(r)
    /\ UNCHANGED <<rowText, rowHash, chunkCount, signals, contended>>

\* A client-side timeout of an append leaves the row and says so.
CreateTimesOut(r) ==
    /\ req[r].at = "written" /\ req[r].op = "create"
    /\ Fault
    /\ Applied(r, r)
    /\ signals' = signals \cup {<<"timeout", req[r].idx>>}
    /\ Answer(r, "unavailable")
    /\ UNCHANGED <<rowText, rowHash, chunkCount, contended>>

\* delete_chunk_vector: a missing object is already clean.
DeleteVector(r) ==
    /\ req[r].at = "found" /\ req[r].op = "delete"
    /\ vec' = [vec EXCEPT ![req[r].idx] = None]
    /\ Goto(r, "unrow")
    /\ UNCHANGED <<rowText, rowHash, chunkCount, signals, lost, contended, faults>>

DeleteVectorFails(r) ==
    /\ req[r].at = "found" /\ req[r].op = "delete"
    /\ Fault
    /\ Applied(r, None)
    /\ Answer(r, "unavailable")
    /\ UNCHANGED <<rowText, rowHash, chunkCount, signals, contended>>

----------------------------------------------------------------------------
\* Deleting a row, as a delete and as the compensation of an append

\* What the request is told once its row is gone, or was already.
RowGoneReply(r, found) ==
    IF req[r].op = "create" THEN "unavailable" ELSE IF found THEN "ok" ELSE "notfound"

\* delete_document_chunk reads the row first and gives up without it.
SelectRow(r) ==
    /\ req[r].at = "unrow"
    /\ IF rowText[req[r].idx] = None
       THEN Answer(r, RowGoneReply(r, FALSE))
       ELSE req' = [req EXCEPT ![r].at = "selected"]
    /\ UNCHANGED <<rowText, rowHash, vec, chunkCount, signals, lost, contended, faults>>

\* Mutant: the row count of the DELETE is not looked at.
DeleteSelectedRowUnchecked(r) ==
    LET i == req[r].idx IN
    /\ req[r].at = "selected"
    /\ chunkCount' = IF chunkCount = 0 THEN chunkCount ELSE chunkCount - 1
    /\ rowText' = [rowText EXCEPT ![i] = None]
    /\ rowHash' = [rowHash EXCEPT ![i] = None]
    /\ Answer(r, RowGoneReply(r, rowText[i] # None))
    /\ UNCHANGED <<vec, signals, lost, contended, faults>>

\* The DELETE itself: the counters move only with a row count of one.
DeleteSelectedRow(r) ==
    LET i == req[r].idx IN
    /\ req[r].at = "selected"
    /\ chunkCount' = IF rowText[i] = None \/ chunkCount = 0 THEN chunkCount ELSE chunkCount - 1
    /\ rowText' = [rowText EXCEPT ![i] = None]
    /\ rowHash' = [rowHash EXCEPT ![i] = None]
    /\ Answer(r, RowGoneReply(r, rowText[i] # None))
    /\ UNCHANGED <<vec, signals, lost, contended, faults>>

\* A failed attempt is repeated, and the last one is made loud.
Exhaust(r, stage, reply) ==
    IF req[r].tries + 1 < Attempts
    THEN /\ req' = [req EXCEPT ![r].at = stage, ![r].tries = @ + 1]
         /\ UNCHANGED signals
    ELSE /\ Answer(r, reply)
         /\ signals' = signals \cup {<<"exhausted", req[r].idx>>}

DeleteRowFails(r) ==
    /\ req[r].at \in {"unrow", "selected"}
    /\ Fault
    /\ Exhaust(r, "unrow", "unavailable")
    /\ UNCHANGED <<rowText, rowHash, vec, chunkCount, lost, contended>>

\* Mutant: the restore does not compare the hash.
RestoreBlindly(r) ==
    LET i == req[r].idx IN
    /\ req[r].at = "restore"
    /\ IF rowText[i] # None
       THEN /\ rowText' = [rowText EXCEPT ![i] = req[r].prior]
            /\ rowHash' = [rowHash EXCEPT ![i] = req[r].prior]
       ELSE UNCHANGED <<rowText, rowHash>>
    /\ Answer(r, "unavailable")
    /\ UNCHANGED <<vec, chunkCount, signals, lost, contended, faults>>

\* restore_chunk_content_with_retry: only over the text this request wrote.
Restore(r) ==
    LET i == req[r].idx IN
    /\ req[r].at = "restore"
    /\ IF rowText[i] # None /\ HashUnchanged(i, r)
       THEN /\ rowText' = [rowText EXCEPT ![i] = req[r].prior]
            /\ rowHash' = [rowHash EXCEPT ![i] = req[r].prior]
       ELSE UNCHANGED <<rowText, rowHash>>
    /\ Answer(r, "unavailable")
    /\ UNCHANGED <<vec, chunkCount, signals, lost, contended, faults>>

RestoreFails(r) ==
    /\ req[r].at = "restore"
    /\ Fault
    /\ Exhaust(r, "restore", "unavailable")
    /\ UNCHANGED <<rowText, rowHash, vec, chunkCount, lost, contended>>

\* record_chunk_edit_weaviate_failure: an ingestion_events row.
RecordFailure(r) ==
    /\ req[r].at = "record"
    /\ signals' = signals \cup {<<"recorded", req[r].idx>>}
    /\ Answer(r, "error")
    /\ UNCHANGED <<rowText, rowHash, vec, chunkCount, lost, contended, faults>>

RecordFails(r) ==
    /\ req[r].at = "record"
    /\ Fault
    /\ Exhaust(r, "record", "error")
    /\ UNCHANGED <<rowText, rowHash, vec, chunkCount, lost, contended>>

ChunkNext ==
    \E r \in Requests :
       \/ BeginCreate(r)
       \/ \E i \in Idx, op \in {"update", "delete"} : BeginOnChunk(r, op, i)
       \/ \E i \in Idx : BeginEdit(r, i)
       \/ AppendRow(r)
       \/ UpdateRow(r)
       \/ EditRow(r)
       \/ RowFails(r)
       \/ Embed(r)
       \/ EmbedRefused(r)
       \/ EmbedFails(r)
       \/ CreateTimesOut(r)
       \/ DeleteVector(r)
       \/ DeleteVectorFails(r)
       \/ SelectRow(r)
       \/ DeleteSelectedRow(r)
       \/ DeleteRowFails(r)
       \/ Restore(r)
       \/ RestoreFails(r)
       \/ RecordFailure(r)
       \/ RecordFails(r)

ChunkSpec == ChunkInit /\ [][ChunkNext]_chunkVars

----------------------------------------------------------------------------
\* The types of the two stores, the counter and the requests of chunk_writes.py.
ChunkTypeOK ==
    /\ rowText \in [Idx -> OptText]
    /\ rowHash \in [Idx -> OptText]
    /\ vec \in [Idx -> OptText]
    /\ chunkCount \in Nat
    /\ req \in [Requests -> [op : {"none", "create", "update", "delete", "edit"}, at : Stages,
                             idx : Idx, prior : OptText, priorHash : OptText,
                             tries : Nat, reply : Replies]]
    /\ signals \subseteq (SignalKinds \X Idx)
    /\ lost \subseteq Idx
    /\ contended \subseteq Idx
    /\ faults \in 0..MaxFaults

\* chunk_count counts the rows, whatever appends, deletes and compensations
\* interleave: delete_document_chunk's row-count check keeps two deletes of one
\* chunk from decrementing twice.
ChunkCountExact == ChunkTypeOK /\ chunkCount = Cardinality(Rows)

\* Once nothing is open, PostgreSQL and Weaviate hold the same text for a chunk,
\* unless two requests overlapped on it, Weaviate reported an applied write as
\* failed, or the divergence is on record: a timeout or an exhausted
\* compensation in the CRITICAL log, or a chunk_edit_weaviate event.
DivergenceOnRecord ==
    (\A r \in Requests : ~Open(r)) =>
       \A i \in Idx : \/ rowText[i] = vec[i]
                      \/ i \in contended \cup lost
                      \/ \E k \in SignalKinds : <<k, i>> \in signals

\* The text of an acknowledged update or edit is replaced by the next request's
\* own text or deleted, never rolled back by the compensation of another
\* request: restore_chunk_content_with_retry compares the hash first.
AcknowledgedTextStands ==
    [][\A r \in Requests : \A i \in Idx :
          /\ req[r].reply = "ok"
          /\ rowText[i] = r
          /\ rowText'[i] \notin {r, None}
          => \E s \in Requests : rowText'[i] = s /\ req'[s].at = "written"]_chunkVars
=============================================================================
