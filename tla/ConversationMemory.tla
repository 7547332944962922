------------------------- MODULE ConversationMemory -------------------------
(***************************************************************************)
(* ONE conversation: ConversationMemoryWorkflow, the activities of its     *)
(* flush pipeline, and the row, chunks and vectors they append to.         *)
(*                                                                         *)
(* Each turn is a signal that starts a run or joins the open one; the      *)
(* stream delivers it at least once.  A run buffers turns and flushes the  *)
(* buffer: redact, chunk, the two stores side by side, statistics,         *)
(* clean-up.  A flush that fails is put on record as a dead letter.  After *)
(* ContinueAfter turns the run continues as a new one; when it has been    *)
(* idle for long, or was told to close, it ends, and a later turn starts   *)
(* another.                                                                *)
(*                                                                         *)
(* A turn becomes one chunk here.  Retries are not counted: giving up is   *)
(* possible at any attempt, which covers every maximum_attempts.  The      *)
(* workspace counters and the completion event are left out: nothing of    *)
(* the conversation reads them.                                            *)
(***************************************************************************)
EXTENDS Integers, Sequences, FiniteSets

CONSTANTS
    Turns,          \* turn ids
    NoTurn,         \* no chunk at an index
    MaxSignals,     \* how many signals are delivered (bound)
    MaxRuns,        \* how many runs are started (bound)
    MaxDeletes,     \* how often the conversation is deleted (bound)
    ContinueAfter,  \* conversation_continue_as_new_turns, 500 by default
    SeenBound,      \* _SEEN_TURN_IDS_BOUND, 2000 in the code
    MaxLost,        \* how many activities take effect but lose their result (bound)
    Faults          \* the failures that may happen, see below

(* The activity of that name may use up its attempts. *)
FaultKinds == {"tenant", "redact", "chunk", "pg", "wv", "stats", "deadLetter"}

Runs == 1..MaxRuns
Flushes == 1..MaxSignals
Stores == {"pg", "wv"}
Indexes == 0..(MaxSignals * (MaxLost + 2))
NoRun == 0
NoChunks == [start |-> 0, turns |-> <<>>]

ASSUME ConversationAssumption ==
    /\ MaxSignals \in Nat /\ MaxRuns \in Nat /\ MaxDeletes \in Nat /\ MaxLost \in Nat
    /\ ContinueAfter \in Nat \ {0} /\ SeenBound \in Nat \ {0}
    /\ NoTurn \notin Turns
    /\ Faults \subseteq FaultKinds

VARIABLES
    \* the workflow
    run,         \* the run started last
    phase,       \* what that run awaits
    buffer,      \* _buffer
    seen,        \* _seen_turn_ids, oldest first
    since,       \* turns_since_continue
    closing,     \* _closed
    flush,       \* number of the flush begun last
    batch,       \* per flush: the turns taken from the buffer
    kept,        \* the turns that came out of redact_turns
    \* the activities store_in_postgresql and store_in_weaviate
    runOf,       \* per flush: its run
    task,        \* per flush and store: how far the activity is
    got,         \* per flush and store: the chunks that its attempt has read
    lost,        \* results lost so far
    \* the stores
    staged,      \* ingestion_staging: the chunks of each run
    row,         \* the run that holds the row and the row's chunk_count
    chunks,      \* document_chunks: the turn at each index
    vectors,     \* Weaviate: the turn at each index
    deadLetters, \* dead_letter_jobs
    dropped,     \* turns that redact_turns dropped
    deleting,    \* a delete request is between its two stores
    \* bounds and history
    signals, deletes,
    accepted,    \* turns taken over by add_turn
    failed,      \* flushes whose dead letter was reported written
    logged,      \* flushes whose dead letter could not be written
    left         \* gather has left a store activity behind

workflow == <<run, phase, buffer, seen, since, closing, flush, batch, kept>>
activities == <<runOf, task, got, lost>>
tables == <<row, chunks>>
records == <<deadLetters, dropped, failed, logged>>
requests == <<deleting, deletes>>
vars == <<workflow, activities, staged, tables, vectors, records, requests,
          signals, accepted, left>>

Elems(s) == {s[i] : i \in 1..Len(s)}

-----------------------------------------------------------------------------
(* Signals. *)

(* The bounded memory of turn ids forgets the oldest. *)
Remember(s, t) ==
    IF Len(s) >= SeenBound THEN Append(Tail(s), t) ELSE Append(s, t)

(* signal_with_start finds no open run: a fresh one, which knows nothing   *)
(* of the runs before it.                                                  *)
StartRun(t) ==
    /\ phase = "closed" /\ run < MaxRuns
    /\ run' = run + 1
    /\ phase' = "tenant"
    /\ buffer' = <<t>> /\ seen' = <<t>>
    /\ since' = 0 /\ closing' = FALSE
    /\ accepted' = accepted \cup {t}

(* add_turn; a turn that the run remembers is ignored. *)
AddTurn(t) ==
    /\ phase # "closed"
    /\ IF t \in Elems(seen)
       THEN UNCHANGED <<buffer, seen, accepted>>
       ELSE /\ buffer' = Append(buffer, t)
            /\ seen' = Remember(seen, t)
            /\ accepted' = accepted \cup {t}
    /\ UNCHANGED <<run, phase, since, closing>>

(* A turn is delivered, or delivered again. *)
Signal(t) ==
    /\ signals < MaxSignals
    /\ signals' = signals + 1
    /\ StartRun(t) \/ AddTurn(t)
    /\ UNCHANGED <<flush, batch, kept, activities, staged, tables, vectors, records,
                   requests, left>>

Close ==
    /\ phase # "closed" /\ ~closing
    /\ closing' = TRUE
    /\ UNCHANGED <<run, phase, buffer, seen, since, flush, batch, kept, activities, staged,
                   tables, vectors, records, requests, signals, accepted, left>>

-----------------------------------------------------------------------------
(* The run's main loop. *)

(* The run is over; what it still has in its buffer goes with it. *)
EndRun ==
    /\ phase' = "closed"
    /\ buffer' = <<>>
    /\ UNCHANGED <<run, seen, since, closing>>

TenantReady ==
    /\ phase = "tenant"
    /\ \/ phase' = "wait" /\ UNCHANGED <<run, buffer, seen, since, closing>>
       \/ "tenant" \in Faults /\ EndRun
    /\ UNCHANGED <<flush, batch, kept, activities, staged, tables, vectors, records,
                   requests, signals, accepted, left>>

(* The buffer is long enough, or has waited long enough. *)
BeginFlush ==
    /\ phase = "wait" /\ buffer # <<>>
    /\ flush' = flush + 1
    /\ batch' = [batch EXCEPT ![flush + 1] = buffer]
    /\ runOf' = [runOf EXCEPT ![flush + 1] = run]
    /\ buffer' = <<>>
    /\ phase' = "redact"
    /\ UNCHANGED <<run, seen, since, closing, kept, task, got, lost, staged, tables, vectors,
                   records, requests, signals, accepted, left>>

(* Nothing is buffered and the run was told to close, or has been idle for *)
(* idle_finalize_seconds.                                                  *)
Idle ==
    /\ phase = "wait" /\ buffer = <<>>
    /\ phase' = "finalize"
    /\ UNCHANGED <<run, buffer, seen, since, closing, flush, batch, kept, activities,
                   staged, tables, vectors, records, requests, signals, accepted, left>>

(* publish_completion has returned or given up. *)
Finalize ==
    /\ phase = "finalize"
    /\ EndRun
    /\ UNCHANGED <<flush, batch, kept, activities, staged, tables, vectors, records,
                   requests, signals, accepted, left>>

(* _flush returns to the loop.  The new run gets the ids seen so far; the  *)
(* bound on runs stands in for none.                                       *)
FlushReturns ==
    LET turns == since + Len(batch[flush]) IN
        /\ IF closing
           THEN phase' = "finalize" /\ since' = turns /\ UNCHANGED <<run, buffer>>
           ELSE IF turns >= ContinueAfter /\ run < MaxRuns
           THEN run' = run + 1 /\ phase' = "wait" /\ buffer' = <<>> /\ since' = 0
           ELSE phase' = "wait" /\ since' = turns /\ UNCHANGED <<run, buffer>>
        /\ UNCHANGED <<seen, closing, flush, batch, kept>>

Await(p) ==
    /\ phase' = p
    /\ UNCHANGED <<run, buffer, seen, since, closing, flush, batch>>

-----------------------------------------------------------------------------
(* redact_turns and chunk_conversation. *)

(* Turns whose redaction fails are dropped, and audited; the others keep   *)
(* their order.                                                            *)
Redact ==
    /\ phase = "redact"
    /\ \E n \in 0..Len(batch[flush]) : \E at \in [1..n -> 1..Len(batch[flush])] :
          LET good == [i \in 1..n |-> batch[flush][at[i]]] IN
          /\ \A i, j \in 1..n : i < j => at[i] < at[j]
          /\ "redact" \notin Faults => n = Len(batch[flush])
          /\ dropped' = dropped \cup (Elems(batch[flush]) \ Elems(good))
          /\ IF n = 0
             THEN FlushReturns
             ELSE kept' = good /\ Await("chunk")
    /\ UNCHANGED <<activities, staged, tables, vectors, deadLetters, failed, logged,
                   requests, signals, accepted, left>>

(* Broken variant: a failed redaction leaves no trace. *)
RedactFailsSilently ==
    /\ phase = "redact" /\ "redact" \in Faults
    /\ FlushReturns
    /\ UNCHANGED <<activities, staged, tables, vectors, records, requests, signals,
                   accepted, left>>

RedactFails ==
    /\ phase = "redact" /\ "redact" \in Faults
    /\ Await("deadLetter")
    /\ UNCHANGED <<kept, activities, staged, tables, vectors, records, requests, signals,
                   accepted, left>>

(* The chunks continue at the row's chunk_count, as it is now. *)
Stage == staged' = [staged EXCEPT ![run] = [start |-> row.count, turns |-> kept]]

Chunk ==
    /\ phase = "chunk"
    /\ \/ /\ Stage /\ Await("store") /\ UNCHANGED lost
          /\ task' = [task EXCEPT ![flush] = [s \in Stores |-> "queued"]]
       \/ /\ lost < MaxLost /\ lost' = lost + 1
          /\ Stage /\ UNCHANGED <<run, phase, buffer, seen, since, closing, flush, batch, task>>
       \/ /\ "chunk" \in Faults
          /\ Await("deadLetter") /\ UNCHANGED <<staged, task, lost>>
    /\ UNCHANGED <<kept, runOf, got, tables, vectors, records, requests, signals, accepted,
                   left>>

-----------------------------------------------------------------------------
(* The two store activities of flush f, with append=True.                  *)

IsOpen(f) == phase # "closed" /\ runOf[f] = run

IsActiveRun(r) == row.run \in {NoRun, r}

SetTask(f, s, v) == task' = [task EXCEPT ![f][s] = v]

(* An attempt begins: the staging row of the run is read; store_in_weaviate *)
(* also asks whether its run still holds the document.                     *)
BeginStore(f, s) ==
    /\ task[f][s] = "queued" /\ IsOpen(f)
    /\ staged[runOf[f]] # NoChunks
    /\ IF s = "wv" /\ ~IsActiveRun(runOf[f])
       THEN SetTask(f, s, "superseded") /\ UNCHANGED got
       ELSE /\ got' = [got EXCEPT ![f][s] = staged[runOf[f]]]
            /\ SetTask(f, s, "read")
    /\ UNCHANGED <<workflow, runOf, lost, staged, tables, vectors, records, requests, signals,
                   accepted, left>>

(* The turn that chunk list c has at index i. *)
TurnAt(c, i) ==
    IF i \in c.start..(c.start + Len(c.turns) - 1) THEN c.turns[i - c.start + 1] ELSE NoTurn

Rows(table) == {i \in Indexes : table[i] # NoTurn}

(* Broken variant: the counter grows by the length of the list. *)
StoreProcessedDocumentCountsAll(r, c) ==
    LET new == {i \in Indexes : TurnAt(c, i) # NoTurn /\ chunks[i] = NoTurn} IN
        /\ row' = [run |-> r, count |-> row.count + Len(c.turns)]
        /\ chunks' = [i \in Indexes |-> IF i \in new THEN TurnAt(c, i) ELSE chunks[i]]

(* Broken variant: the chunks are renumbered from the live maximum. *)
StoreProcessedDocumentRenumbers(r, c) ==
    LET at(i) == TurnAt([c EXCEPT !.start = row.count], i)
        new == {i \in Indexes : at(i) # NoTurn /\ chunks[i] = NoTurn} IN
        /\ row' = [run |-> r, count |-> row.count + Cardinality(new)]
        /\ chunks' = [i \in Indexes |-> IF i \in new THEN at(i) ELSE chunks[i]]

(* store_processed_document for run r: the row is inserted or kept, a chunk *)
(* whose index is taken is skipped, and the counter grows by the chunks    *)
(* really inserted.                                                        *)
StoreProcessedDocument(r, c) ==
    LET new == {i \in Indexes : TurnAt(c, i) # NoTurn /\ chunks[i] = NoTurn} IN
        /\ row' = [run |-> r, count |-> row.count + Cardinality(new)]
        /\ chunks' = [i \in Indexes |-> IF i \in new THEN TurnAt(c, i) ELSE chunks[i]]

(* One transaction, fenced by the row's active_run_id. *)
StoreInPostgresql(f) ==
    /\ task[f]["pg"] = "read"
    /\ IF IsActiveRun(runOf[f])
       THEN /\ StoreProcessedDocument(runOf[f], got[f]["pg"])
            /\ \/ SetTask(f, "pg", "ok") /\ UNCHANGED lost
               \/ lost < MaxLost /\ lost' = lost + 1 /\ SetTask(f, "pg", "queued")
       ELSE SetTask(f, "pg", "superseded") /\ UNCHANGED <<tables, lost>>
    /\ UNCHANGED <<workflow, runOf, got, staged, vectors, records, requests, signals,
                   accepted, left>>

(* A batch with deterministic object ids: it overwrites, and may fail      *)
(* after writing some of its objects.                                      *)
StoreInWeaviate(f) ==
    LET c == got[f]["wv"] IN
        /\ task[f]["wv"] = "read"
        /\ \E S \in SUBSET {i \in Indexes : TurnAt(c, i) # NoTurn} :
              /\ vectors' = [i \in Indexes |-> IF i \in S THEN TurnAt(c, i) ELSE vectors[i]]
              /\ \/ /\ S = {i \in Indexes : TurnAt(c, i) # NoTurn}
                    /\ SetTask(f, "wv", "ok")
                 \/ "wv" \in Faults /\ SetTask(f, "wv", "queued")
        /\ UNCHANGED <<workflow, runOf, got, lost, staged, tables, records, requests, signals,
                       accepted, left>>

(* The attempts are used up, or there is nothing staged to read. *)
StoreGivesUp(f, s) ==
    /\ task[f][s] = "queued"
    /\ s \in Faults \/ staged[runOf[f]] = NoChunks \/ ~IsOpen(f)
    /\ SetTask(f, s, "failed")
    /\ UNCHANGED <<workflow, runOf, got, lost, staged, tables, vectors, records, requests, signals,
                   accepted, left>>

(* asyncio.gather: both have a result, or the first failure is raised and  *)
(* the other activity goes on.                                             *)
StoresReturn ==
    /\ phase = "store"
    /\ \/ /\ \A s \in Stores : task[flush][s] \in {"ok", "superseded"}
          /\ Await("stats") /\ UNCHANGED left
       \/ /\ \E s \in Stores : task[flush][s] = "failed"
          /\ Await("deadLetter")
          /\ left' = (left \/ \E s \in Stores : task[flush][s] \in {"queued", "read"})
    /\ UNCHANGED <<kept, activities, staged, tables, vectors, records, requests, signals,
                   accepted>>

-----------------------------------------------------------------------------
(* The end of a flush. *)

(* update_workspace_stats *)
UpdateStats ==
    /\ phase = "stats"
    /\ Await("cleanup") \/ ("stats" \in Faults /\ Await("deadLetter"))
    /\ UNCHANGED <<kept, activities, staged, tables, vectors, records, requests, signals,
                   accepted, left>>

(* cleanup_staging, best effort. *)
Cleanup ==
    /\ phase = "cleanup"
    /\ staged' \in {[staged EXCEPT ![run] = NoChunks], staged}
    /\ FlushReturns
    /\ UNCHANGED <<activities, tables, vectors, records, requests, signals, accepted, left>>

(* Broken variant: one dead letter per run, as migration 021 found it. *)
DeadLetterPerRun ==
    [run |-> run, key |-> NoTurn, turns |-> Elems(batch[flush])]

(* The dead letter of the flush, with its dedup_key. *)
DeadLetter ==
    [run |-> run, key |-> batch[flush][1], turns |-> Elems(batch[flush])]

(* add_dead_letter_job keeps the row that has the run and key already. *)
AddDeadLetter(d) ==
    deadLetters' = IF \E e \in deadLetters : e.run = d.run /\ e.key = d.key
                   THEN deadLetters ELSE deadLetters \cup {d}

(* _dead_letter_flush: the batch is on record, or in the critical log line. *)
DeadLetterFlush ==
    /\ phase = "deadLetter"
    /\ \/ AddDeadLetter(DeadLetter) /\ failed' = failed \cup {flush} /\ UNCHANGED logged
       \/ /\ "deadLetter" \in Faults
          /\ logged' = logged \cup {flush} /\ UNCHANGED <<deadLetters, failed>>
    /\ FlushReturns
    /\ UNCHANGED <<activities, staged, tables, vectors, dropped, requests, signals, accepted,
                   left>>

-----------------------------------------------------------------------------
(* DELETE /v1/conversations: the vectors, then the row with its chunks. *)

DeleteVectors ==
    /\ ~deleting /\ deletes < MaxDeletes /\ row.run # NoRun
    /\ deletes' = deletes + 1 /\ deleting' = TRUE
    /\ vectors' = [i \in Indexes |-> NoTurn]
    /\ UNCHANGED <<workflow, activities, staged, tables, records, signals, accepted, left>>

DeleteRow ==
    /\ deleting
    /\ deleting' = FALSE
    /\ \/ row' = [run |-> NoRun, count |-> 0] /\ chunks' = [i \in Indexes |-> NoTurn]
       \/ UNCHANGED tables
    /\ UNCHANGED <<deletes, workflow, activities, staged, vectors, records, signals, accepted,
                   left>>

-----------------------------------------------------------------------------
Init ==
    /\ run = 0 /\ phase = "closed" /\ buffer = <<>> /\ seen = <<>>
    /\ since = 0 /\ closing = FALSE
    /\ flush = 0 /\ batch = [f \in Flushes |-> <<>>] /\ kept = <<>>
    /\ runOf = [f \in Flushes |-> NoRun]
    /\ task = [f \in Flushes |-> [s \in Stores |-> "none"]]
    /\ got = [f \in Flushes |-> [s \in Stores |-> NoChunks]] /\ lost = 0
    /\ staged = [r \in Runs |-> NoChunks]
    /\ row = [run |-> NoRun, count |-> 0]
    /\ chunks = [i \in Indexes |-> NoTurn] /\ vectors = [i \in Indexes |-> NoTurn]
    /\ deadLetters = {} /\ dropped = {} /\ failed = {} /\ logged = {}
    /\ deleting = FALSE /\ deletes = 0
    /\ signals = 0 /\ accepted = {} /\ left = FALSE

FlushStep ==
    \/ BeginFlush \/ Redact \/ RedactFails \/ Chunk \/ StoresReturn
    \/ UpdateStats \/ Cleanup \/ DeadLetterFlush

StoreStep(f) ==
    \/ \E s \in Stores : BeginStore(f, s) \/ StoreGivesUp(f, s)
    \/ StoreInPostgresql(f) \/ StoreInWeaviate(f)

Next ==
    \/ \E t \in Turns : Signal(t)
    \/ Close \/ TenantReady \/ Idle \/ Finalize
    \/ FlushStep
    \/ \E f \in Flushes : StoreStep(f)
    \/ DeleteVectors \/ DeleteRow

Spec == Init /\ [][Next]_vars

-----------------------------------------------------------------------------
Chunks == [start : Nat, turns : Seq(Turns)]

(* Every variable has its type; the memory of turn ids is bounded. *)
TypeOK ==
    /\ run \in 0..MaxRuns
    /\ phase \in {"closed", "tenant", "wait", "redact", "chunk", "store", "stats", "cleanup",
                  "deadLetter", "finalize"}
    /\ buffer \in Seq(Turns) /\ kept \in Seq(Turns)
    /\ seen \in Seq(Turns) /\ Len(seen) <= SeenBound
    /\ since \in 0..MaxSignals /\ closing \in BOOLEAN
    /\ flush \in 0..MaxSignals /\ batch \in [Flushes -> Seq(Turns)]
    /\ runOf \in [Flushes -> 0..MaxRuns]
    /\ task \in [Flushes -> [Stores -> {"none", "queued", "read", "ok", "superseded", "failed"}]]
    /\ got \in [Flushes -> [Stores -> Chunks]] /\ staged \in [Runs -> Chunks]
    /\ lost \in 0..MaxLost
    /\ row \in [run : 0..MaxRuns, count : Nat]
    /\ chunks \in [Indexes -> Turns \cup {NoTurn}] /\ vectors \in [Indexes -> Turns \cup {NoTurn}]
    /\ deadLetters \subseteq [run : Runs, key : Turns, turns : SUBSET Turns]
    /\ dropped \subseteq Turns /\ accepted \subseteq Turns
    /\ failed \subseteq Flushes /\ logged \subseteq Flushes
    /\ signals \in 0..MaxSignals /\ deletes \in 0..MaxDeletes
    /\ deleting \in BOOLEAN /\ left \in BOOLEAN

Stored == {chunks[i] : i \in Rows(chunks)}

(* The pipeline is done with flush f. *)
Ended(f) ==
    f \in 1..flush /\ ~(f = flush /\ phase \in {"redact", "chunk", "store", "stats", "cleanup",
                                               "deadLetter"})

(* The turn is in the table, or it is on record that it is not. *)
Explained(t) ==
    \/ t \in Stored \/ t \in dropped
    \/ \E d \in deadLetters : t \in d.turns
    \/ \E f \in logged : t \in Elems(batch[f])

(* chunk_count is the number of the document's chunks, though attempts are *)
(* repeated after their commit, stores left behind commit late and the row *)
(* is deleted meanwhile (store_processed_document, append).                *)
CountMatchesRows == TypeOK /\ row.count = Cardinality(Rows(chunks))

(* So few turns have been delivered that no run has forgotten one and been *)
(* told of it again: _SEEN_TURN_IDS_BOUND has not mattered.                *)
Remembered == signals <= SeenBound + 1

(* Each failed flush has its own dead letter, with all of its turns,       *)
(* however often one run fails (dedup_key, migration 021), as long as no   *)
(* turn is flushed again that the run has forgotten.                       *)
FailedFlushOnRecord ==
    Remembered => \A f \in failed : \E d \in deadLetters : d.turns = Elems(batch[f])

(* A turn is stored once: an attempt repeated after a lost result, and a   *)
(* turn delivered again, add nothing.                                      *)
StoredOnce ==
    ~left => \A i, j \in Rows(chunks) : chunks[i] = chunks[j] => i = j

(* A failed batch is not flushed again: within a run the batches are       *)
(* disjoint.                                                               *)
FlushedOnce ==
    \A f, g \in 1..flush :
        f # g /\ runOf[f] = runOf[g] => Elems(batch[f]) \cap Elems(batch[g]) = {}

(* No turn is taken twice, whatever is repeated: it is in one batch of a   *)
(* run and in one row of the table.                                        *)
AtMostOnce == Remembered => StoredOnce /\ FlushedOnce

(* As long as the first run goes on, the conversation is not deleted and   *)
(* gather has left nothing behind, no turn is lost without a record,       *)
(* whatever fails: it waits, is being flushed, or is explained.            *)
TurnsKept ==
    Remembered /\ run = 1 /\ phase # "closed" /\ deletes = 0 /\ ~left =>
        \A t \in accepted :
            \/ t \in Elems(buffer)
            \/ \E f \in 1..flush : t \in Elems(batch[f]) /\ (Ended(f) => Explained(t))

-----------------------------------------------------------------------------
(* What comments in the code say and the code does not do. *)

(* The module docstring: a run gets what it needs "so the new run stays    *)
(* behaviorally continuous".  The turns of a flush that has ended are      *)
(* stored or on record, in every run.                                      *)
FlushIsStored ==
    \A f \in 1..flush : Ended(f) => \A t \in Elems(batch[f]) : Explained(t)
=============================================================================
