------------------------------- MODULE Intake -------------------------------
(***************************************************************************)
(* How documents enter the system: intake_document and refresh_document of *)
(* the public API, for one workspace.                                      *)
(*                                                                         *)
(* An upload looks for a document with the same content, then for one with *)
(* the same file name, stores its bytes, writes a 'pending' row and        *)
(* publishes an event; if the event cannot be published it marks the row   *)
(* 'failed'.  A refresh reads the row, writes it back as 'pending' and     *)
(* publishes an event.  The look-ups and the writes are transactions of    *)
(* their own, and the requests of several clients interleave between them. *)
(*                                                                         *)
(* A request is known by its number.  The document id, the object key and  *)
(* the event it makes are fresh, so that the request's number stands for   *)
(* them.  Ingestion is one step here: Ingestion has the details.           *)
(***************************************************************************)
EXTENDS Integers, FiniteSets

CONSTANTS
    MaxRequests,  \* how many requests arrive (bound)
    MaxOpen,      \* how many of them are open at a time (bound)
    Names,        \* file names
    Contents,     \* the bytes of a file, or their SHA-256
    None,         \* no name, no content, no object
    Ops,          \* "upload", "refresh"
    Faults        \* the failures that may happen, see below

FaultKinds ==
    {"s3",      \* the object store refuses the bytes
     "db",      \* the row cannot be written, or its commit is not confirmed
     "mq",      \* the event cannot be published, or is and that is not known
     "mark",    \* every attempt to mark the row 'failed' fails
     "ingest",  \* an ingestion fails
     "crash"}   \* the API process dies

Requests == 1..MaxRequests
Documents == Requests
Objects == Requests

ASSUME IntakeAssumption ==
    /\ MaxRequests \in Nat /\ MaxOpen \in Nat
    /\ None \notin Names \cup Contents \cup Objects
    /\ Ops \subseteq {"upload", "refresh"}
    /\ Faults \subseteq FaultKinds

VARIABLES
    arrived,  \* requests 1..arrived have arrived
    pc,       \* where a request is
    job,      \* what it carries: document, file name, object and content hash
    answer,   \* what its client was told
    status,   \* processed_documents: the columns of each row
    name,
    object,
    hash,
    born,     \* the rows in order of their creation, 0 for no row
    stored,   \* the objects in the bucket
    queued,   \* the events that wait for their ingestion
    indexed,  \* the content whose chunks a document has
    orphans,  \* history: documents that a request left without event or mark
    raced     \* history: contents that two open uploads carried

row == <<status, name, object, hash, born>>
client == <<arrived, job, answer>>
vars == <<client, pc, row, stored, queued, indexed, orphans, raced>>

Has(d) == status[d] # "absent"

Open(r) == pc[r] \notin {"idle", "done"}

(* ORDER BY created_at DESC LIMIT 1 *)
IsNewest(d, S) == \A e \in S : born[e] <= born[d]

Reply(r, a) ==
    /\ pc' = [pc EXCEPT ![r] = "done"]
    /\ answer' = [answer EXCEPT ![r] = a]

Goto(r, step) ==
    /\ pc' = [pc EXCEPT ![r] = step]
    /\ UNCHANGED answer

-----------------------------------------------------------------------------
(* The steps of an upload, up to its row. *)

(* A valid upload: the checks of type, size and magic bytes have passed. *)
Upload(r, n, c) ==
    /\ "upload" \in Ops /\ r = arrived + 1
    /\ Cardinality({q \in Requests : Open(q)}) < MaxOpen
    /\ arrived' = r
    /\ job' = [job EXCEPT ![r] = [doc |-> r, name |-> n, object |-> r, hash |-> c]]
    /\ Goto(r, "findHash")
    /\ raced' = IF \E q \in Requests : Open(q) /\ job[q].hash = c
                THEN raced \cup {c} ELSE raced
    /\ UNCHANGED <<row, stored, queued, indexed, orphans>>

(* Broken variant: a document whose ingestion failed does not count. *)
FindByHashUnlessFailed(r) ==
    /\ pc[r] = "findHash"
    /\ LET same == {d \in Documents :
                       Has(d) /\ hash[d] = job[r].hash /\ status[d] # "failed"}
       IN  \/ same = {} /\ Goto(r, "findName") /\ UNCHANGED job
           \/ \E d \in same : /\ IsNewest(d, same)
                              /\ Goto(r, "check")
                              /\ job' = [job EXCEPT ![r].doc = d]
    /\ UNCHANGED <<arrived, row, stored, queued, indexed, orphans, raced>>

(* get_document_id_by_content_hash *)
FindByHash(r) ==
    /\ pc[r] = "findHash"
    /\ LET same == {d \in Documents : Has(d) /\ hash[d] = job[r].hash}
       IN  \/ same = {} /\ Goto(r, "findName") /\ UNCHANGED job
           \/ \E d \in same : /\ IsNewest(d, same)
                              /\ Goto(r, "check")
                              /\ job' = [job EXCEPT ![r].doc = d]
    /\ UNCHANGED <<arrived, row, stored, queued, indexed, orphans, raced>>

(* get_document_id_by_filename; without a match the document is new. *)
FindByName(r) ==
    /\ pc[r] = "findName"
    /\ LET same == {d \in Documents : Has(d) /\ name[d] = job[r].name}
       IN  \/ same = {} /\ UNCHANGED job
           \/ \E d \in same : IsNewest(d, same) /\ job' = [job EXCEPT ![r].doc = d]
    /\ Goto(r, "put")
    /\ UNCHANGED <<arrived, row, stored, queued, indexed, orphans, raced>>

(* The content is known: unless its ingestion failed there is nothing to do. *)
CheckIdentical(r) ==
    /\ pc[r] = "check"
    /\ IF status[job[r].doc] # "failed" THEN Reply(r, "identical") ELSE Goto(r, "put")
    /\ UNCHANGED <<arrived, job, row, stored, queued, indexed, orphans, raced>>

(* Broken variant: a failure of the store is logged and ignored. *)
PutObjectBestEffort(r) ==
    /\ pc[r] = "put"
    /\ Goto(r, "persist")
    /\ \/ stored' = stored \cup {r}
       \/ "s3" \in Faults /\ UNCHANGED stored
    /\ UNCHANGED <<arrived, job, row, queued, indexed, orphans, raced>>

(* upload_file *)
PutObject(r) ==
    /\ pc[r] = "put"
    /\ \/ Goto(r, "persist") /\ stored' = stored \cup {r}
       \/ "s3" \in Faults /\ Reply(r, "unavailable") /\ UNCHANGED stored
    /\ UNCHANGED <<arrived, job, row, queued, indexed, orphans, raced>>

-----------------------------------------------------------------------------
(* A refresh, up to its row. *)

(* get_document_upload_fields: all columns that matter but the hash. *)
Refresh(r, d) ==
    /\ "refresh" \in Ops /\ r = arrived + 1
    /\ Cardinality({q \in Requests : Open(q)}) < MaxOpen
    /\ arrived' = r
    /\ IF Has(d)
       THEN /\ job' = [job EXCEPT ![r] =
                          [doc |-> d, name |-> name[d], object |-> object[d], hash |-> None]]
            /\ Goto(r, "persist")
       ELSE Reply(r, "notFound") /\ UNCHANGED job
    /\ UNCHANGED <<row, stored, queued, indexed, orphans, raced>>

-----------------------------------------------------------------------------
(* What an upload and a refresh have in common. *)

(* create_or_reset_pending_document; a refresh keeps the stored hash. *)
WriteRow(d, j) ==
    /\ status' = [status EXCEPT ![d] = "pending"]
    /\ name' = [name EXCEPT ![d] = j.name]
    /\ object' = [object EXCEPT ![d] = j.object]
    /\ hash' = IF j.hash = None THEN hash ELSE [hash EXCEPT ![d] = j.hash]
    /\ born' = IF Has(d) THEN born
               ELSE [born EXCEPT ![d] = 1 + Cardinality({e \in Documents : Has(e)})]

Persist(r) ==
    /\ pc[r] = "persist"
    /\ \/ /\ WriteRow(job[r].doc, job[r]) /\ Goto(r, "publish")
          /\ orphans' = orphans \ {job[r].doc}
       \/ /\ "db" \in Faults /\ Reply(r, "unavailable")
          /\ \/ UNCHANGED <<row, orphans>>
             \/ WriteRow(job[r].doc, job[r]) /\ orphans' = orphans \cup {job[r].doc}
    /\ UNCHANGED <<arrived, job, stored, queued, indexed, raced>>

(* Broken variant: the client is told, the row is not marked. *)
PublishUnmarked(r) ==
    /\ pc[r] = "publish"
    /\ \/ Reply(r, "pending") /\ queued' = queued \cup {r}
       \/ "mq" \in Faults /\ Reply(r, "failed") /\ UNCHANGED queued
    /\ UNCHANGED <<arrived, job, row, stored, indexed, orphans, raced>>

(* XADD to the upload stream. *)
Publish(r) ==
    /\ pc[r] = "publish"
    /\ \/ Reply(r, "pending") /\ queued' = queued \cup {r}
       \/ /\ "mq" \in Faults /\ Goto(r, "mark")
          /\ queued' \in {queued, queued \cup {r}}
    /\ UNCHANGED <<arrived, job, row, stored, indexed, orphans, raced>>

(* mark_document_failed_with_retry.  An upload is told that it failed, a   *)
(* refresh that the service is unavailable.                                *)
MarkFailed(r) ==
    /\ pc[r] = "mark"
    /\ Reply(r, IF job[r].hash = None THEN "unavailable" ELSE "failed")
    /\ \/ status' = [status EXCEPT ![job[r].doc] = "failed"] /\ UNCHANGED orphans
       \/ /\ "mark" \in Faults
          /\ orphans' = orphans \cup {job[r].doc} /\ UNCHANGED status
    /\ UNCHANGED <<arrived, job, name, object, hash, born, stored, queued, indexed, raced>>

(* The process dies with the request.  Once the row is written nobody will *)
(* publish its event.                                                      *)
Crash(r) ==
    /\ "crash" \in Faults /\ Open(r)
    /\ Reply(r, "lost")
    /\ orphans' = IF pc[r] \in {"publish", "mark"} THEN orphans \cup {job[r].doc} ELSE orphans
    /\ UNCHANGED <<arrived, job, row, stored, queued, indexed, raced>>

-----------------------------------------------------------------------------
(* An event is ingested, in any order: the index takes over the bytes that *)
(* the event names.  It may fail, or be superseded by a later event of the *)
(* same document.                                                          *)
Ingest(r) ==
    /\ r \in queued
    /\ queued' = queued \ {r}
    /\ LET d == job[r].doc
           bytes == job[job[r].object].hash
       IN  \/ /\ job[r].object \in stored
              /\ status' = [status EXCEPT ![d] = "processed"]
              /\ indexed' = [indexed EXCEPT ![d] = bytes]
           \/ /\ "ingest" \in Faults \/ job[r].object \notin stored
              /\ status' = [status EXCEPT ![d] = "failed"]
              /\ UNCHANGED indexed
           \/ /\ \E q \in queued \ {r} : job[q].doc = d
              /\ UNCHANGED <<status, indexed>>
    /\ UNCHANGED <<client, pc, name, object, hash, born, stored, orphans, raced>>

-----------------------------------------------------------------------------
NoJob == [doc |-> None, name |-> None, object |-> None, hash |-> None]

Init ==
    /\ arrived = 0
    /\ pc = [r \in Requests |-> "idle"]
    /\ job = [r \in Requests |-> NoJob]
    /\ answer = [r \in Requests |-> "none"]
    /\ status = [d \in Documents |-> "absent"]
    /\ name = [d \in Documents |-> None]
    /\ object = [d \in Documents |-> None]
    /\ hash = [d \in Documents |-> None]
    /\ born = [d \in Documents |-> 0]
    /\ stored = {} /\ queued = {}
    /\ indexed = [d \in Documents |-> None]
    /\ orphans = {} /\ raced = {}

RequestStep(r) ==
    \/ \E n \in Names, c \in Contents : Upload(r, n, c)
    \/ \E d \in Documents : Refresh(r, d)
    \/ FindByHash(r) \/ FindByName(r) \/ CheckIdentical(r) \/ PutObject(r)
    \/ Persist(r) \/ Publish(r) \/ MarkFailed(r) \/ Crash(r)

Next == \E r \in Requests : RequestStep(r) \/ Ingest(r)

Spec == Init /\ [][Next]_vars

-----------------------------------------------------------------------------
Steps == {"idle", "findHash", "findName", "check", "put", "persist", "publish", "mark", "done"}
Answers == {"none", "pending", "failed", "identical", "unavailable", "notFound", "lost"}

Jobs == [doc : Documents \cup {None}, name : Names \cup {None},
         object : Objects \cup {None}, hash : Contents \cup {None}]

(* Every variable has its type, and a row has a name and a hash. *)
TypeOK ==
    /\ arrived \in 0..MaxRequests
    /\ pc \in [Requests -> Steps]
    /\ job \in [Requests -> Jobs]
    /\ answer \in [Requests -> Answers]
    /\ status \in [Documents -> {"absent", "pending", "processed", "failed"}]
    /\ name \in [Documents -> Names \cup {None}]
    /\ object \in [Documents -> Objects \cup {None}]
    /\ hash \in [Documents -> Contents \cup {None}]
    /\ born \in [Documents -> Nat]
    /\ \A d \in Documents : Has(d) => name[d] # None /\ hash[d] # None
    /\ stored \subseteq Objects /\ queued \subseteq Requests
    /\ indexed \in [Documents -> Contents \cup {None}]
    /\ orphans \subseteq Documents /\ raced \subseteq Contents

(* The bytes are stored before the row is written, and the row before the  *)
(* event is published, so that whatever order events are consumed in, an   *)
(* ingestion finds the object and the row, and so does a refresh (#7).     *)
EventsAreReadable ==
    /\ \A r \in queued : Has(job[r].doc) /\ job[r].object \in stored
    /\ \A d \in Documents : Has(d) => object[d] \in stored

(* A document does not stay 'pending' unnoticed: while it is, some event   *)
(* of it waits, or a request that will publish or mark it is open, or a    *)
(* request died or gave up compensating (#99).                             *)
PendingIsOwed ==
    \A d \in Documents : status[d] = "pending" =>
        \/ \E r \in queued : job[r].doc = d
        \/ \E r \in Requests : pc[r] \in {"publish", "mark"} /\ job[r].doc = d
        \/ d \in orphans

(* The same content under two documents (#75) comes from uploads that were *)
(* open at the same time, never from a sequence of uploads, refreshes and  *)
(* failures: intake_document's look-ups and reset keep hashes unique.      *)
DuplicatesOnlyFromRaces ==
    \A d, e \in Documents :
        d # e /\ Has(d) /\ Has(e) /\ hash[d] = hash[e] => hash[d] \in raced
=============================================================================
