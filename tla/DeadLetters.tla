----------------------------- MODULE DeadLetters -----------------------------
(***************************************************************************)
(* The failed runs of one document and what operators do about them: the   *)
(* dead-letter rows (services/database.py), the routes that retry and      *)
(* abandon them and the route that starts an ingestion and waits for it    *)
(* (api/app.py), against uploads that arrive meanwhile (trigger.py).       *)
(* What a run does inside is module Ingestion; here it succeeds or fails.  *)
(***************************************************************************)
EXTENDS Naturals, Sequences, FiniteSets

CONSTANTS
    Operators,    \* clients of the dead-letter routes
    MaxVersions,  \* bound: contents uploaded for the document
    MaxRows       \* bound: dead-letter rows

ASSUME DeadLettersAssumption == {MaxVersions, MaxRows} \subseteq Nat

VARIABLES
    version,   \* the newest content uploaded
    openRun,   \* the open workflow: the content it ingests and how far it is
    healthy,   \* the content of the last run that succeeded, 0 for none
    letters,   \* the dead-letter rows: content and status
    retries,   \* for each operator, the retry request under way
    waiter,    \* the caller of POST /ingest?wait=true
    replayed,  \* history: a retry put older content over a healthy document
    raced,     \* history: rows were resolved while a retry was under way
    missed     \* history: a run that succeeded did not resolve the rows

letterVars == <<version, openRun, healthy, letters, retries, waiter, replayed, raced, missed>>

-----------------------------------------------------------------------------
NoOpenRun == [content |-> 0, step |-> "none"]
NoRetry == [at |-> "idle", row |-> 0]
NoWaiter == [content |-> 0, reply |-> "none"]

(* The content of a message that does not validate: it never becomes a run. *)
Poison == 0

(* DEAD_LETTER_UNRESOLVED_STATUSES. *)
Unresolved == {"pending", "retrying"}

RunOpen == openRun.content # 0

Row(content) == [content |-> content, status |-> "pending"]

LettersInit ==
    /\ version = 0 /\ openRun = NoOpenRun /\ healthy = 0 /\ letters = <<>>
    /\ retries = [o \in Operators |-> NoRetry]
    /\ waiter = NoWaiter /\ replayed = FALSE /\ raced = FALSE /\ missed = FALSE

-----------------------------------------------------------------------------
(* A dead letter is recorded at best: an insert that fails is logged. *)
RecordDeadLetter(content) ==
    \/ Len(letters) < MaxRows /\ letters' = Append(letters, Row(content))
    \/ UNCHANGED letters

Started(content) == [content |-> content, step |-> "running"]

(* The waiter of a run learns how it ended; another run's end is not its. *)
Answered(reply) ==
    IF waiter.reply = "waiting" /\ waiter.content = openRun.content
    THEN [waiter EXCEPT !.reply = reply] ELSE waiter

(* An upload event: its run terminates the one that is open, which may have
   ingested its content and not yet resolved the rows. *)
UploadArrives ==
    /\ version < MaxVersions
    /\ version' = version + 1
    /\ openRun' = Started(version')
    /\ waiter' = Answered("superseded")
    /\ missed' = (missed \/ openRun.step = "succeeded")
    /\ UNCHANGED <<healthy, letters, retries, replayed, raced>>

(* A message that does not validate becomes a row and no run. *)
PoisonArrives ==
    /\ RecordDeadLetter(Poison)
    /\ UNCHANGED <<version, openRun, healthy, retries, waiter, replayed, raced, missed>>

(* POST /ingest does not supersede: an open run is answered with 409. *)
TriggerIngestion ==
    /\ version < MaxVersions /\ ~RunOpen
    /\ version' = version + 1
    /\ openRun' = Started(version')
    /\ \/ UNCHANGED waiter
       \/ waiter.reply # "waiting" /\ waiter' = [content |-> version', reply |-> "waiting"]
    /\ UNCHANGED <<healthy, letters, retries, replayed, raced, missed>>

-----------------------------------------------------------------------------
RunSucceeds ==
    /\ openRun.step = "running"
    /\ healthy' = openRun.content
    /\ openRun' = [openRun EXCEPT !.step = "succeeded"]
    /\ UNCHANGED <<version, letters, retries, waiter, replayed, raced, missed>>

\* Mutant: only rows somebody has retried are resolved.
ResolvedRetrying(rows) ==
    [j \in DOMAIN rows |-> IF rows[j].status = "retrying"
                           THEN [rows[j] EXCEPT !.status = "resolved"] ELSE rows[j]]

(* resolve_dead_letter_jobs_for_document. *)
Resolved(rows) ==
    [j \in DOMAIN rows |-> IF rows[j].status \in Unresolved
                           THEN [rows[j] EXCEPT !.status = "resolved"] ELSE rows[j]]

RetryUnderWay == \E o \in Operators : retries[o].at # "idle"

RunResolves ==
    /\ openRun.step = "succeeded"
    /\ letters' = Resolved(letters)
    /\ openRun' = [openRun EXCEPT !.step = "resolved"]
    /\ raced' = (raced \/ RetryUnderWay)
    /\ UNCHANGED <<version, healthy, retries, waiter, replayed, missed>>

(* The resolution is best-effort: its failure is logged. *)
ResolutionLost ==
    /\ openRun.step = "succeeded"
    /\ openRun' = [openRun EXCEPT !.step = "resolved"]
    /\ missed' = TRUE
    /\ UNCHANGED <<version, healthy, letters, retries, waiter, replayed, raced>>

RunCloses ==
    /\ openRun.step = "resolved"
    /\ openRun' = NoOpenRun
    /\ waiter' = Answered("success")
    /\ UNCHANGED <<version, healthy, letters, retries, replayed, raced, missed>>

(* A run that fails becomes a dead letter and is reported as a failure. *)
RunFails ==
    /\ openRun.step = "running"
    /\ RecordDeadLetter(openRun.content)
    /\ openRun' = NoOpenRun
    /\ waiter' = Answered("failure")
    /\ UNCHANGED <<version, healthy, retries, replayed, raced, missed>>

-----------------------------------------------------------------------------
(* POST /dead-letter/{id}/retry: the status is read, ... *)
RetryReads(o, j) ==
    /\ retries[o].at = "idle"
    /\ letters[j].status \in Unresolved
    /\ retries' = [retries EXCEPT ![o] = [at |-> "read", row |-> j]]
    /\ UNCHANGED <<version, openRun, healthy, letters, waiter, replayed, raced, missed>>

(* ... the row is marked, whatever its status is by now, ... *)
RetryMarks(o) ==
    /\ retries[o].at = "read"
    /\ letters' = [letters EXCEPT ![retries[o].row].status = "retrying"]
    /\ retries' = [retries EXCEPT ![o].at = "marked"]
    /\ UNCHANGED <<version, openRun, healthy, waiter, replayed, raced, missed>>

(* ... and its message goes to the trigger, which must not supersede. *)
RetryStarts(o) ==
    LET content == letters[retries[o].row].content
    IN  /\ retries[o].at = "marked" /\ content # Poison /\ ~RunOpen
        /\ openRun' = Started(content)
        /\ replayed' = (replayed \/ content < healthy)
        /\ retries' = [retries EXCEPT ![o] = NoRetry]
        /\ UNCHANGED <<version, healthy, letters, waiter, raced, missed>>

(* A poisoned message is a dead letter again, of its own. *)
RetryPoison(o) ==
    /\ retries[o].at = "marked" /\ letters[retries[o].row].content = Poison
    /\ RecordDeadLetter(Poison)
    /\ retries' = [retries EXCEPT ![o] = NoRetry]
    /\ UNCHANGED <<version, openRun, healthy, waiter, replayed, raced, missed>>

(* A run is open, or Temporal cannot be reached: the row is put back. *)
RetryRejected(o) ==
    /\ retries[o].at = "marked" /\ letters[retries[o].row].content # Poison
    /\ retries' = [retries EXCEPT ![o].at = "rejected"]
    /\ UNCHANGED <<version, openRun, healthy, letters, waiter, replayed, raced, missed>>

RetryPutsBack(o) ==
    /\ retries[o].at = "rejected"
    /\ letters' = [letters EXCEPT ![retries[o].row].status = "pending"]
    /\ retries' = [retries EXCEPT ![o] = NoRetry]
    /\ UNCHANGED <<version, openRun, healthy, waiter, replayed, raced, missed>>

(* The process of the API ends between two steps of a retry. *)
RetryDies(o) ==
    /\ retries[o].at # "idle"
    /\ retries' = [retries EXCEPT ![o] = NoRetry]
    /\ UNCHANGED <<version, openRun, healthy, letters, waiter, replayed, raced, missed>>

(* POST /dead-letter/{id}/abandon looks at no status. *)
Abandon(j) ==
    /\ letters' = [letters EXCEPT ![j].status = "abandoned"]
    /\ UNCHANGED <<version, openRun, healthy, retries, waiter, replayed, raced, missed>>

LettersNext ==
    \/ UploadArrives \/ PoisonArrives \/ TriggerIngestion
    \/ RunSucceeds \/ RunResolves \/ ResolutionLost \/ RunCloses \/ RunFails
    \/ \E j \in DOMAIN letters : Abandon(j) \/ \E o \in Operators : RetryReads(o, j)
    \/ \E o \in Operators : \/ RetryMarks(o) \/ RetryStarts(o) \/ RetryPoison(o)
                            \/ RetryRejected(o) \/ RetryPutsBack(o) \/ RetryDies(o)

LettersSpec == LettersInit /\ [][LettersNext]_letterVars

-----------------------------------------------------------------------------
LettersTypeOK ==
    /\ version \in 0..MaxVersions /\ healthy \in 0..version
    /\ openRun.content \in 0..version
    /\ openRun.step \in {"none", "running", "succeeded", "resolved"}
    /\ \A j \in DOMAIN letters :
          /\ letters[j].content \in 0..version
          /\ letters[j].status \in Unresolved \cup {"resolved", "abandoned"}
    /\ \A o \in Operators : retries[o].row \in 0..Len(letters)

(* #287: a document that was repaired has no row left that could be retried:
   older content is put over a healthy document only when the rows were
   resolved during a retry, or a run that succeeded did not resolve them. *)
ReplayNeedsRace == replayed => raced \/ missed

(* #110, #230: the answer of a request that waits is about its own run: success
   when that content became the document's, superseded when newer content came. *)
RepliesTruthful ==
    /\ waiter.reply = "success" => healthy >= waiter.content \/ replayed
    /\ waiter.reply = "superseded" => version > waiter.content

(* Retried dead letters never undo a repaired document unless requests overlap,
   and a waiting caller is told what became of its request. *)
RetriesSound == LettersTypeOK /\ ReplayNeedsRace /\ RepliesTruthful

(* "Resolving the row makes the retry route's own 409 guard (which admits only
   'pending'/'retrying') reject that replay": no retry puts older content over
   a document whose newer content was ingested, every run that succeeded
   having resolved the rows. *)
ReplayRejected == replayed => missed
=============================================================================
