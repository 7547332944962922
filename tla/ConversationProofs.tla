------------------------ MODULE ConversationProofs ------------------------
(***************************************************************************)
(* Proofs about ConversationMemory, for any set of turns, any number of    *)
(* signals, runs, deletions and lost results, and any choice of failures.  *)
(***************************************************************************)
EXTENDS ConversationMemory, SequenceTheorems, FiniteSetTheorems, TLAPS

Flushing == phase \in {"redact", "chunk", "store", "stats", "cleanup", "deadLetter"}

NoDup(s) == \A i, j \in 1..Len(s) : s[i] = s[j] => i = j

(* What is in the buffer and in the batch at hand was delivered. *)
Delivered ==
    /\ Len(seen) <= signals
    /\ flush + Len(buffer) <= signals
    /\ since + Len(buffer) <= signals
    /\ Flushing => since + Len(batch[flush]) + Len(buffer) <= signals

(* The batch at hand is one of the open run, and it is not empty. *)
FlushAtHand ==
    /\ phase # "closed" => run \in Runs
    /\ Flushing => flush \in Flushes /\ runOf[flush] = run /\ Len(batch[flush]) > 0
    /\ \A g \in 1..flush : runOf[g] \in 1..run
    /\ \A f \in Flushes, s \in Stores : task[f][s] # "none" => f <= flush
    /\ row.run <= run

CountExact == row.count = Cardinality(Rows(chunks))

Base == TypeOK /\ Delivered /\ FlushAtHand /\ CountExact

(* What the open run has taken, it has taken once, and it remembers it     *)
(* until the memory is full.                                               *)
Memory ==
    signals <= SeenBound =>
        /\ Elems(buffer) \subseteq Elems(seen)
        /\ \A g \in 1..flush : runOf[g] = run => Elems(batch[g]) \subseteq Elems(seen)

TakenOnce ==
    Remembered =>
        /\ NoDup(buffer)
        /\ \A g \in 1..flush : NoDup(batch[g])
        /\ \A g \in 1..flush : runOf[g] = run => Elems(batch[g]) \cap Elems(buffer) = {}
        /\ FlushedOnce

(* A dead letter is that of a flush that has ended. *)
LettersTrue ==
    /\ \A d \in deadLetters : d.key \in d.turns /\ \E g \in 1..flush :
          runOf[g] = d.run /\ d.turns = Elems(batch[g]) /\ ~(g = flush /\ Flushing)
    /\ failed \subseteq 1..flush
    /\ FailedFlushOnRecord

(* The turns that redaction left are turns of the batch. *)
KeptOfBatch ==
    phase \in {"chunk", "store", "stats", "cleanup"} =>
        /\ Len(kept) <= Len(batch[flush])
        /\ Elems(kept) \subseteq Elems(batch[flush])
        /\ NoDup(batch[flush]) => NoDup(kept)

(* The stores of the flush at hand read what was staged for it, and unless *)
(* gather has left one behind there are no others.                         *)
StoresAtHand ==
    /\ phase = "store" =>
          /\ staged[run].turns = kept
          /\ task[flush]["pg"] = "read" => got[flush]["pg"] = staged[run]
    /\ ~left => \A f \in Flushes, s \in Stores :
                   task[f][s] \in {"queued", "read"} => f = flush /\ phase = "store"
    /\ row.run = NoRun => Rows(chunks) = {}

(* A row has a turn of the run that holds the document; a turn of the      *)
(* batch at hand is in the row that it was staged for.                     *)
RowsTrue ==
    Remembered /\ ~left =>
        /\ \A i \in Rows(chunks) : \E g \in 1..flush :
              /\ runOf[g] = row.run /\ chunks[i] \in Elems(batch[g])
              /\ g = flush => phase \notin {"redact", "chunk"}
        /\ phase = "store" /\ row.run = run =>
              \A i \in Rows(chunks) :
                  chunks[i] \in Elems(kept) => chunks[i] = TurnAt(staged[run], i)
        /\ \A i, j \in Rows(chunks) : chunks[i] = chunks[j] => i = j

(* The chunks of the batch at hand have been committed. *)
Committed ==
    \A i \in Indexes : TurnAt(staged[run], i) # NoTurn => chunks[i] = TurnAt(staged[run], i)

(* The first run of a conversation that was not deleted: its rows follow   *)
(* each other, and a turn is explained when its flush ends.                *)
FirstRun == Remembered /\ run = 1 /\ phase # "closed" /\ deletes = 0 /\ ~left

AcceptedKept ==
    \A t \in accepted : t \in Elems(buffer) \/ \E f \in 1..flush : t \in Elems(batch[f])

EndedExplained == \A f \in 1..flush : Ended(f) => \A t \in Elems(batch[f]) : Explained(t)

BatchSplit ==
    phase \in {"chunk", "store", "stats", "cleanup"} =>
        Elems(batch[flush]) \subseteq Elems(kept) \cup dropped

(* The rows are 0, 1, ... without a gap, and there is room for what is     *)
(* still to be flushed.                                                    *)
RowsFollow ==
    Rows(chunks) = 0..(row.count - 1) /\ row.count + Len(buffer) <= signals

RoomToFlush ==
    phase \in {"redact", "chunk"} => row.count + Len(batch[flush]) + Len(buffer) <= signals

(* The staged chunks are all in the table, or are the ones that follow. *)
StagedFollow ==
    phase = "store" =>
        /\ \A s \in Stores : task[flush][s] # "superseded"
        /\ staged[run].start + Len(kept) <= MaxSignals
        /\ Committed \/ (/\ staged[run].start = row.count /\ task[flush]["pg"] # "ok"
                         /\ row.count + Len(batch[flush]) + Len(buffer) <= signals)

KeptStored == phase \in {"stats", "cleanup"} => Elems(kept) \subseteq Stored

Follow ==
    /\ AcceptedKept /\ EndedExplained /\ BatchSplit
    /\ RowsFollow /\ RoomToFlush /\ StagedFollow /\ KeptStored

Traces ==
    /\ run = 0 => accepted = {}
    /\ deleting => deletes > 0
    /\ logged \subseteq 1..flush

-----------------------------------------------------------------------------
(* Sequences of turns.                                                     *)

LEMMA ElemsAppend ==
    ASSUME NEW s \in Seq(Turns), NEW t \in Turns
    PROVE  /\ Append(s, t) \in Seq(Turns) /\ Len(Append(s, t)) = Len(s) + 1
           /\ Elems(Append(s, t)) = Elems(s) \cup {t}
<1>1. /\ Append(s, t) \in Seq(Turns) /\ Len(Append(s, t)) = Len(s) + 1
      /\ \A i \in 1..Len(s) : Append(s, t)[i] = s[i]
      /\ Append(s, t)[Len(s) + 1] = t /\ Len(s) \in Nat
  OBVIOUS
<1>2. Elems(Append(s, t)) \subseteq Elems(s) \cup {t}
  BY <1>1 DEF Elems
<1>3. Elems(s) \cup {t} \subseteq Elems(Append(s, t))
  <2>1. \A i \in 1..Len(s) : i \in 1..(Len(s) + 1)
    BY <1>1
  <2>2. Len(s) + 1 \in 1..(Len(s) + 1)
    BY <1>1
  <2>3. \A i \in 1..(Len(s) + 1) : Append(s, t)[i] \in Elems(Append(s, t))
    BY <1>1 DEF Elems
  <2>4. Elems(s) \subseteq Elems(Append(s, t))
    BY <1>1, <2>1, <2>3 DEF Elems
  <2> QED
    BY <1>1, <2>2, <2>3, <2>4
<1> QED
  BY <1>1, <1>2, <1>3

LEMMA ElemsEmpty == Elems(<<>>) = {} /\ Len(<<>>) = 0 /\ NoDup(<<>>)
  BY DEF Elems, NoDup

LEMMA ElemsSingle ==
    ASSUME NEW t \in Turns
    PROVE  <<t>> \in Seq(Turns) /\ Len(<<t>>) = 1 /\ Elems(<<t>>) = {t} /\ NoDup(<<t>>)
  BY DEF Elems, NoDup

LEMMA ElemsType ==
    ASSUME NEW s \in Seq(Turns)
    PROVE  Elems(s) \subseteq Turns /\ Len(s) \in Nat /\ (s # <<>> => Len(s) > 0)
  BY DEF Elems

LEMMA NoDupAppend ==
    ASSUME NEW s \in Seq(Turns), NEW t \in Turns, NoDup(s), t \notin Elems(s)
    PROVE  NoDup(Append(s, t))
<1>1. /\ Len(Append(s, t)) = Len(s) + 1 /\ Len(s) \in Nat
      /\ \A i \in 1..Len(s) : Append(s, t)[i] = s[i]
      /\ Append(s, t)[Len(s) + 1] = t
  OBVIOUS
<1>2. \A i \in 1..Len(s) : s[i] # t
  BY DEF Elems
<1>3. SUFFICES ASSUME NEW i \in 1..(Len(s) + 1), NEW j \in 1..(Len(s) + 1),
                      Append(s, t)[i] = Append(s, t)[j]
               PROVE  i = j
  BY <1>1 DEF NoDup
<1>4. (i \in 1..Len(s) \/ i = Len(s) + 1) /\ (j \in 1..Len(s) \/ j = Len(s) + 1)
  BY <1>1
<1> QED
  BY <1>1, <1>2, <1>3, <1>4 DEF NoDup

LEMMA RememberType ==
    ASSUME NEW s \in Seq(Turns), Len(s) <= SeenBound, NEW t \in Turns
    PROVE  /\ Remember(s, t) \in Seq(Turns)
           /\ Len(Remember(s, t)) <= SeenBound /\ Len(Remember(s, t)) <= Len(s) + 1
           /\ Len(s) < SeenBound => Elems(Remember(s, t)) = Elems(s) \cup {t}
<1> USE ConversationAssumption
<1>1. CASE Len(s) >= SeenBound
  <2>1. s # <<>> /\ Len(s) \in Nat
    BY <1>1
  <2>2. Tail(s) \in Seq(Turns) /\ Len(Tail(s)) = Len(s) - 1
    BY <2>1
  <2>3. Append(Tail(s), t) \in Seq(Turns) /\ Len(Append(Tail(s), t)) = Len(s)
    BY <2>1, <2>2
  <2> QED
    BY <1>1, <2>1, <2>3 DEF Remember
<1>2. CASE ~(Len(s) >= SeenBound)
  <2>1. Len(s) \in Nat
    OBVIOUS
  <2> QED
    BY <1>2, <2>1, ElemsAppend DEF Remember
<1> QED
  BY <1>1, <1>2

LEMMA RowsFinite ==
    ASSUME NEW S, S \subseteq Indexes
    PROVE  IsFiniteSet(S) /\ Cardinality(S) \in Nat
<1>1. MaxSignals * (MaxLost + 2) \in Int
  BY ConversationAssumption
<1>2. IsFiniteSet(Indexes)
  BY <1>1, FS_Interval DEF Indexes
<1>3. IsFiniteSet(S)
  BY <1>2, FS_Subset
<1> QED
  BY <1>3, FS_CardinalityType

-----------------------------------------------------------------------------
(* Types, bounds and the counter of the row.                               *)

(* A step that leaves the workflow and the rows alone. *)
LEMMA BaseKept ==
    ASSUME Base, TypeOK', UNCHANGED <<workflow, runOf, tables, signals>>,
           \A f \in Flushes, s \in Stores : task'[f][s] # "none" => task[f][s] # "none"
    PROVE  Base'
<1>1. TypeOK /\ Delivered /\ FlushAtHand /\ CountExact
  BY DEF Base
<1>2. UNCHANGED <<run, phase, buffer, seen, since, flush, batch, runOf, row, chunks, signals>>
  BY DEF workflow, tables
<1>3. Delivered'
  BY <1>1, <1>2 DEF Delivered, Flushing
<1>4. FlushAtHand'
  BY <1>1, <1>2 DEF FlushAtHand, Flushing
<1>5. CountExact'
  BY <1>1, <1>2 DEF CountExact, Rows
<1> QED
  BY <1>3, <1>4, <1>5 DEF Base

LEMMA SignalBase ==
    ASSUME Base, NEW t \in Turns, Signal(t)
    PROVE  Base'
<1> USE ConversationAssumption
<1>1. TypeOK /\ Delivered /\ FlushAtHand /\ CountExact
  BY DEF Base
<1>2. /\ signals < MaxSignals /\ signals' = signals + 1
      /\ UNCHANGED <<flush, batch, kept, runOf, task, got, lost, staged, row, chunks, vectors>>
      /\ UNCHANGED <<deadLetters, dropped, failed, logged, deleting, deletes, left>>
  BY DEF Signal, activities, tables, records, requests
<1>3. buffer \in Seq(Turns) /\ Len(buffer) \in Nat /\ seen \in Seq(Turns) /\ Len(seen) <= SeenBound
  BY <1>1 DEF TypeOK
<1>4. /\ flush + Len(buffer) <= signals /\ since + Len(buffer) <= signals /\ Len(seen) <= signals
      /\ flush \in Nat /\ since \in Nat /\ signals \in Nat /\ Len(seen) \in Nat
  BY <1>1, <1>3 DEF Delivered, TypeOK
<1>5. signals' \in 0..MaxSignals
  BY <1>2, <1>4
<1>6. CASE StartRun(t)
  <2>1. /\ phase = "closed" /\ run < MaxRuns /\ run' = run + 1 /\ phase' = "tenant"
        /\ buffer' = <<t>> /\ seen' = <<t>> /\ since' = 0 /\ closing' = FALSE
        /\ accepted' = accepted \cup {t}
    BY <1>6 DEF StartRun
  <2>2. run' \in 0..MaxRuns /\ run' \in Runs /\ run \in Nat
    BY <1>1, <2>1 DEF TypeOK, Runs
  <2>3. /\ buffer' \in Seq(Turns) /\ seen' \in Seq(Turns) /\ Len(buffer') = 1 /\ Len(seen') = 1
        /\ since' \in 0..MaxSignals /\ Len(seen') <= SeenBound
    BY <2>1
  <2>4. TypeOK'
    BY <1>1, <1>2, <1>5, <2>1, <2>2, <2>3 DEF TypeOK
  <2>5. Delivered'
    BY <1>2, <1>4, <2>1, <2>3 DEF Delivered, Flushing
  <2>6. \A g \in 1..flush : runOf[g] \in 1..run'
    BY <1>1, <2>1, <2>2 DEF FlushAtHand
  <2>7. row.run \in Nat /\ row.run <= run
    BY <1>1 DEF FlushAtHand, TypeOK
  <2>8. FlushAtHand'
    BY <1>1, <1>2, <2>1, <2>2, <2>6, <2>7 DEF FlushAtHand, Flushing
  <2> QED
    BY <1>1, <1>2, <2>4, <2>5, <2>8 DEF Base, CountExact, Rows
<1>7. CASE AddTurn(t)
  <2>1. /\ UNCHANGED <<run, phase, since, closing>>
        /\ \/ UNCHANGED <<buffer, seen, accepted>>
           \/ /\ buffer' = Append(buffer, t) /\ seen' = Remember(seen, t)
              /\ accepted' = accepted \cup {t}
    BY <1>7 DEF AddTurn
  <2>2. /\ buffer' \in Seq(Turns) /\ Len(buffer') \in {Len(buffer), Len(buffer) + 1}
        /\ seen' \in Seq(Turns) /\ Len(seen') <= SeenBound /\ Len(seen') <= Len(seen) + 1
        /\ Len(seen') \in Nat
        /\ accepted' \subseteq Turns
    <3>1. CASE UNCHANGED <<buffer, seen, accepted>>
      BY <1>1, <1>3, <1>4, <3>1 DEF TypeOK
    <3>2. CASE /\ buffer' = Append(buffer, t) /\ seen' = Remember(seen, t)
               /\ accepted' = accepted \cup {t}
      <4>1. buffer' \in Seq(Turns) /\ Len(buffer') = Len(buffer) + 1
        BY <1>3, <3>2, ElemsAppend
      <4>2. seen' \in Seq(Turns) /\ Len(seen') <= SeenBound /\ Len(seen') <= Len(seen) + 1
        BY <1>3, <3>2, RememberType
      <4>3. Len(seen') \in Nat
        BY <4>2
      <4> QED
        BY <1>1, <3>2, <4>1, <4>2, <4>3 DEF TypeOK
    <3> QED
      BY <2>1, <3>1, <3>2
  <2>3. TypeOK'
    BY <1>1, <1>2, <1>5, <2>1, <2>2 DEF TypeOK
  <2>4. Delivered'
    <3>1. Flushing => since + Len(batch[flush]) + Len(buffer) <= signals /\ Len(batch[flush]) \in Nat
      BY <1>1 DEF Delivered, FlushAtHand, TypeOK
    <3>2. Len(seen) <= signals /\ flush + Len(buffer) <= signals /\ since + Len(buffer) <= signals
      BY <1>1 DEF Delivered
    <3>3. /\ Len(seen') <= signals'
          /\ flush' + Len(buffer') <= signals' /\ since' + Len(buffer') <= signals'
      BY <1>2, <1>3, <1>4, <2>1, <2>2, <3>2
    <3>4. Flushing' => since' + Len(batch'[flush']) + Len(buffer') <= signals'
      BY <1>2, <1>3, <1>4, <2>1, <2>2, <3>1 DEF Flushing
    <3> QED
      BY <3>3, <3>4 DEF Delivered
  <2>5. FlushAtHand' /\ CountExact'
    BY <1>1, <1>2, <2>1 DEF FlushAtHand, Flushing, CountExact, Rows
  <2> QED
    BY <2>3, <2>4, <2>5 DEF Base
<1> QED
  BY <1>6, <1>7 DEF Signal

(* The types of the variables that the bounds do not speak of. *)
SideType ==
    /\ closing \in BOOLEAN /\ kept \in Seq(Turns)
    /\ task \in [Flushes -> [Stores -> {"none", "queued", "read", "ok", "superseded", "failed"}]]
    /\ got \in [Flushes -> [Stores -> Chunks]] /\ staged \in [Runs -> Chunks]
    /\ lost \in 0..MaxLost
    /\ vectors \in [Indexes -> Turns \cup {NoTurn}]
    /\ deadLetters \subseteq [run : Runs, key : Turns, turns : SUBSET Turns]
    /\ dropped \subseteq Turns
    /\ failed \subseteq Flushes /\ logged \subseteq Flushes
    /\ deletes \in 0..MaxDeletes /\ deleting \in BOOLEAN /\ left \in BOOLEAN

(* A step of the workflow that takes nothing from the buffer to flush it. *)
LEMMA WorkflowBase ==
    ASSUME Base, SideType', UNCHANGED <<flush, batch, runOf, row, chunks, signals, accepted, seen>>,
           \A f \in Flushes, s \in Stores : task'[f][s] # "none" => f <= flush,
           phase' \in {"closed", "tenant", "wait", "finalize", "redact", "chunk", "store",
                       "stats", "cleanup", "deadLetter"},
           phase' # "closed" => run' \in Runs,
           Flushing' => Flushing /\ UNCHANGED <<run, buffer, since>>,
           run' \in {run, run + 1}, run' \in 0..MaxRuns,
           buffer' = buffer \/ buffer' = <<>>,
           since' \in Nat, since' + Len(buffer') <= signals
    PROVE  Base'
<1> USE ConversationAssumption
<1>1. TypeOK /\ Delivered /\ FlushAtHand /\ CountExact
  BY DEF Base
<1>2. buffer' \in Seq(Turns) /\ Len(buffer') \in Nat /\ Len(buffer') <= Len(buffer) /\ Len(buffer) \in Nat
  <2>1. buffer \in Seq(Turns) /\ Len(buffer) \in Nat
    BY <1>1 DEF TypeOK
  <2>2. CASE buffer' = buffer
    BY <2>1, <2>2
  <2>3. CASE buffer' = <<>>
    BY <2>1, <2>3
  <2> QED
    BY <2>2, <2>3
<1>3. /\ flush \in Nat /\ signals \in 0..MaxSignals /\ flush + Len(buffer) <= signals
      /\ Len(seen) <= signals
  BY <1>1 DEF TypeOK, Delivered
<1>4. since' \in 0..MaxSignals
  BY <1>2, <1>3
<1>5. TypeOK'
  BY <1>1, <1>2, <1>4 DEF TypeOK, SideType
<1>6. Delivered'
  <2>1. flush + Len(buffer') <= signals
    BY <1>2, <1>3
  <2>2. Flushing' => since' + Len(batch[flush]) + Len(buffer') <= signals
    BY <1>1 DEF Delivered
  <2> QED
    BY <1>1, <1>3, <2>1, <2>2 DEF Delivered
<1>7. FlushAtHand'
  <2>1. run \in Nat /\ row.run \in Nat /\ row.run <= run /\ run' >= run
    BY <1>1 DEF TypeOK, FlushAtHand
  <2>2. \A g \in 1..flush : runOf[g] \in 1..run'
    BY <1>1, <2>1 DEF FlushAtHand
  <2>3. Flushing' => flush \in Flushes /\ runOf[flush] = run' /\ Len(batch[flush]) > 0
    BY <1>1 DEF FlushAtHand
  <2> QED
    BY <1>1, <2>1, <2>2, <2>3 DEF FlushAtHand
<1>8. CountExact'
  BY <1>1 DEF CountExact, Rows
<1> QED
  BY <1>5, <1>6, <1>7, <1>8 DEF Base

(* A flush returns: the loop goes on, in this run or in the next, or ends. *)
LEMMA FlushReturnsTo ==
    ASSUME Base, Flushing, FlushReturns
    PROVE  /\ phase' \in {"wait", "finalize"} /\ run' \in {run, run + 1} /\ run' \in Runs
           /\ (run' = run /\ buffer' = buffer) \/ (run' = run + 1 /\ buffer' = <<>>)
           /\ since' \in Nat /\ since' + Len(buffer') <= signals
           /\ UNCHANGED <<seen, closing, flush, batch>> /\ kept' = kept
<1> USE ConversationAssumption
<1>1. TypeOK /\ Delivered /\ FlushAtHand
  BY DEF Base
<1>2. /\ run \in Runs /\ Len(batch[flush]) \in Nat /\ since \in Nat /\ Len(buffer) \in Nat
      /\ since + Len(batch[flush]) + Len(buffer) <= signals /\ signals \in Nat
  <2>1. run \in Runs /\ flush \in Flushes
    BY <1>1 DEF FlushAtHand, Flushing
  <2> QED
    BY <1>1, <2>1 DEF TypeOK, Delivered
<1>3. CASE phase' \in {"wait", "finalize"} /\ since' = since + Len(batch[flush]) /\ UNCHANGED <<run, buffer>>
  BY <1>2, <1>3 DEF FlushReturns
<1>4. CASE run < MaxRuns /\ run' = run + 1 /\ phase' = "wait" /\ buffer' = <<>> /\ since' = 0
  <2>1. run' \in Runs
    BY <1>2, <1>4 DEF Runs
  <2> QED
    BY <1>2, <1>4, <2>1, ElemsEmpty DEF FlushReturns
<1> QED
  BY <1>3, <1>4 DEF FlushReturns

LEMMA FlushReturnsBase ==
    ASSUME Base, Flushing, FlushReturns, SideType',
           UNCHANGED <<runOf, task, row, chunks, signals, accepted>>
    PROVE  Base'
<1>1. TypeOK /\ FlushAtHand
  BY DEF Base
<1>2. \A f \in Flushes, s \in Stores : task'[f][s] # "none" => f <= flush
  BY <1>1 DEF FlushAtHand
<1>3. buffer' = buffer \/ buffer' = <<>>
  BY FlushReturnsTo
<1>4. ~Flushing' /\ run' \in 0..MaxRuns
  BY FlushReturnsTo, ConversationAssumption DEF Flushing, Runs
<1> QED
  BY <1>2, <1>3, <1>4, FlushReturnsTo, WorkflowBase

(* The flush at hand awaits its next activity. *)
LEMMA AwaitBase ==
    ASSUME Base, Flushing, NEW p \in {"chunk", "store", "stats", "cleanup", "deadLetter"},
           Await(p), SideType', UNCHANGED <<runOf, row, chunks, signals, accepted>>,
           \A f \in Flushes, s \in Stores : task'[f][s] # "none" => f <= flush
    PROVE  Base'
<1>1. TypeOK /\ Delivered /\ FlushAtHand
  BY DEF Base
<1>2. phase' = p /\ UNCHANGED <<run, buffer, seen, since, closing, flush, batch>>
  BY DEF Await
<1>3. run \in Runs /\ run \in 0..MaxRuns /\ since \in Nat /\ since + Len(buffer) <= signals
  BY <1>1 DEF FlushAtHand, Flushing, TypeOK, Delivered
<1> QED
  BY <1>2, <1>3, WorkflowBase

LEMMA LoopBase ==
    ASSUME Base, Close \/ TenantReady \/ Idle \/ Finalize
    PROVE  Base'
<1> USE ConversationAssumption
<1>1. TypeOK /\ Delivered /\ FlushAtHand
  BY DEF Base
<1>2. /\ UNCHANGED <<run, seen, since, flush, batch, kept, runOf, task, got, lost, staged, row>>
      /\ UNCHANGED <<chunks, vectors, deadLetters, dropped, failed, logged, deleting, deletes>>
      /\ UNCHANGED <<signals, accepted, left>>
      /\ closing' \in {closing, TRUE}
  BY DEF Close, TenantReady, Idle, Finalize, EndRun, activities, tables, records, requests
<1>3. SideType'
  BY <1>1, <1>2 DEF TypeOK, SideType
<1>4. \/ phase # "closed" /\ phase' = phase /\ buffer' = buffer
      \/ phase # "closed" /\ phase' \in {"wait", "finalize"} /\ buffer' = buffer
      \/ phase # "closed" /\ phase' = "closed" /\ buffer' = <<>>
  BY DEF Close, TenantReady, Idle, Finalize, EndRun
<1>5. /\ run \in Runs /\ run \in 0..MaxRuns /\ since \in Nat /\ since + Len(buffer) <= signals
      /\ Len(buffer) \in Nat /\ signals \in Nat
  BY <1>1, <1>4 DEF TypeOK, FlushAtHand, Delivered
<1>6. since' \in Nat /\ since' + Len(buffer') <= signals
  <2>1. CASE buffer' = buffer
    BY <1>2, <1>5, <2>1
  <2>2. CASE buffer' = <<>>
    BY <1>2, <1>5, <2>2, ElemsEmpty
  <2> QED
    BY <1>4, <2>1, <2>2
<1>7. Flushing' => Flushing /\ UNCHANGED <<run, buffer, since>>
  BY <1>2, <1>4 DEF Flushing
<1>8. /\ phase' \in {"closed", "tenant", "wait", "finalize", "redact", "chunk", "store",
                     "stats", "cleanup", "deadLetter"}
      /\ \A f \in Flushes, s \in Stores : task'[f][s] # "none" => f <= flush
  BY <1>1, <1>2, <1>4 DEF TypeOK, FlushAtHand
<1> QED
  BY <1>2, <1>3, <1>4, <1>5, <1>6, <1>7, <1>8, WorkflowBase

LEMMA BeginFlushBase ==
    ASSUME Base, BeginFlush
    PROVE  Base'
<1> USE ConversationAssumption
<1>1. TypeOK /\ Delivered /\ FlushAtHand /\ CountExact
  BY DEF Base
<1>2. /\ phase = "wait" /\ buffer # <<>> /\ flush' = flush + 1
      /\ batch' = [batch EXCEPT ![flush + 1] = buffer]
      /\ runOf' = [runOf EXCEPT ![flush + 1] = run]
      /\ buffer' = <<>> /\ phase' = "redact"
      /\ UNCHANGED <<run, seen, since, closing, kept, task, got, lost, staged, row, chunks>>
      /\ UNCHANGED <<vectors, deadLetters, dropped, failed, logged, deleting, deletes>>
      /\ UNCHANGED <<signals, accepted, left>>
  BY DEF BeginFlush, tables, records, requests
<1>3. /\ buffer \in Seq(Turns) /\ Len(buffer) \in Nat /\ Len(buffer) > 0 /\ flush \in Nat
      /\ flush + Len(buffer) <= signals /\ signals \in 0..MaxSignals /\ since \in Nat
      /\ since + Len(buffer) <= signals
  BY <1>1, <1>2, ElemsType DEF TypeOK, Delivered
<1>4. flush + 1 \in Flushes /\ flush' \in 0..MaxSignals /\ flush' <= signals
  BY <1>2, <1>3 DEF Flushes
<1>5. run \in Runs /\ run \in 0..MaxRuns
  BY <1>1, <1>2 DEF FlushAtHand, TypeOK
<1>6. /\ batch' \in [Flushes -> Seq(Turns)] /\ batch'[flush + 1] = buffer
      /\ runOf' \in [Flushes -> 0..MaxRuns] /\ runOf'[flush + 1] = run
      /\ \A g \in Flushes : g # flush + 1 => batch'[g] = batch[g] /\ runOf'[g] = runOf[g]
  BY <1>1, <1>2, <1>3, <1>4, <1>5 DEF TypeOK
<1>7. buffer' \in Seq(Turns) /\ Len(buffer') = 0
  BY <1>2, ElemsEmpty
<1>8. TypeOK'
  BY <1>1, <1>2, <1>4, <1>6, <1>7 DEF TypeOK
<1>9. Delivered'
  BY <1>1, <1>2, <1>3, <1>4, <1>6, <1>7 DEF Delivered
<1>10. FlushAtHand'
  <2>1. \A g \in 1..(flush + 1) : g \in Flushes /\ (g \in 1..flush \/ g = flush + 1)
    BY <1>3, <1>4 DEF Flushes
  <2>2. \A g \in 1..flush : g # flush + 1
    BY <1>3
  <2>3. run \in 1..run
    BY <1>5 DEF Runs
  <2>4. \A g \in 1..flush' : runOf'[g] \in 1..run'
    BY <1>1, <1>2, <1>6, <2>1, <2>2, <2>3 DEF FlushAtHand
  <2>5. \A f \in Flushes : f <= flush => f <= flush'
    BY <1>2, <1>3 DEF Flushes
  <2>6. Flushing' => flush' \in Flushes /\ runOf'[flush'] = run' /\ Len(batch'[flush']) > 0
    BY <1>2, <1>3, <1>4, <1>6
  <2> QED
    BY <1>1, <1>2, <1>5, <2>4, <2>5, <2>6 DEF FlushAtHand
<1>11. CountExact'
  BY <1>1, <1>2 DEF CountExact, Rows
<1> QED
  BY <1>8, <1>9, <1>10, <1>11 DEF Base

(* Redaction keeps a part of the batch, in its order. *)
LEMMA RedactKeeps ==
    ASSUME NEW s \in Seq(Turns), NEW n \in Nat, n <= Len(s), NEW at,
           \A i \in 1..n : at[i] \in 1..Len(s),
           \A i, j \in 1..n : i < j => at[i] < at[j],
           NEW good \in [1..n -> Turns], \A i \in 1..n : good[i] = s[at[i]]
    PROVE  /\ good \in Seq(Turns) /\ Len(good) = n /\ Len(good) <= Len(s)
           /\ Elems(good) \subseteq Elems(s)
           /\ NoDup(s) => NoDup(good)
<1>1. Len(s) \in Nat /\ n \in Nat /\ n <= Len(s) /\ s \in [1..Len(s) -> Turns]
  OBVIOUS
<1>3. good \in Seq(Turns) /\ Len(good) = n
  OBVIOUS
<1>4. \A i \in 1..n : good[i] = s[at[i]] /\ at[i] \in 1..Len(s)
  OBVIOUS
<1>5. Elems(good) \subseteq Elems(s)
  BY <1>3, <1>4 DEF Elems
<1>6. ASSUME NoDup(s), NEW i \in 1..n, NEW j \in 1..n, good[i] = good[j]
      PROVE  i = j
  <2>1. at[i] = at[j]
    BY <1>4, <1>6 DEF NoDup
  <2>2. at[i] \in Int /\ at[j] \in Int /\ i \in Int /\ j \in Int
    BY <1>4
  <2> QED
    BY <2>1, <2>2
<1> QED
  BY <1>1, <1>3, <1>5, <1>6 DEF NoDup

(* What redaction does: it returns with nothing left, or goes on. *)
LEMMA RedactDoes ==
    ASSUME Base, Redact
    PROVE  /\ phase = "redact" /\ Flushing /\ batch[flush] \in Seq(Turns)
           /\ UNCHANGED <<runOf, task, got, lost, staged, row, chunks, vectors, deadLetters>>
           /\ UNCHANGED <<failed, logged, deleting, deletes, signals, accepted, left>>
           /\ \E good \in Seq(Turns) :
                 /\ Len(good) <= Len(batch[flush]) /\ Elems(good) \subseteq Elems(batch[flush])
                 /\ NoDup(batch[flush]) => NoDup(good)
                 /\ dropped' = dropped \cup (Elems(batch[flush]) \ Elems(good))
                 /\ \/ Elems(good) = {} /\ FlushReturns
                    \/ kept' = good /\ Await("chunk")
<1>1. phase = "redact" /\ Flushing
  BY DEF Redact, Flushing
<1>2. batch[flush] \in Seq(Turns)
  BY <1>1 DEF Base, FlushAtHand, TypeOK
<1>3. /\ UNCHANGED <<runOf, task, got, lost, staged, row, chunks, vectors, deadLetters>>
      /\ UNCHANGED <<failed, logged, deleting, deletes, signals, accepted, left>>
  BY DEF Redact, activities, tables, requests
<1>4. PICK n \in 0..Len(batch[flush]) : \E at \in [1..n -> 1..Len(batch[flush])] :
          LET good == [i \in 1..n |-> batch[flush][at[i]]] IN
          /\ \A i, j \in 1..n : i < j => at[i] < at[j]
          /\ "redact" \notin Faults => n = Len(batch[flush])
          /\ dropped' = dropped \cup (Elems(batch[flush]) \ Elems(good))
          /\ IF n = 0
             THEN FlushReturns
             ELSE kept' = good /\ Await("chunk")
  BY Zenon DEF Redact
<1>10. PICK at \in [1..n -> 1..Len(batch[flush])] :
          LET good == [i \in 1..n |-> batch[flush][at[i]]] IN
          /\ \A i, j \in 1..n : i < j => at[i] < at[j]
          /\ dropped' = dropped \cup (Elems(batch[flush]) \ Elems(good))
          /\ IF n = 0
             THEN FlushReturns
             ELSE kept' = good /\ Await("chunk")
  BY <1>4, Zenon
<1>5. PICK good : good = [i \in 1..n |-> batch[flush][at[i]]]
  OBVIOUS
<1>6. /\ \A i, j \in 1..n : i < j => at[i] < at[j]
      /\ dropped' = dropped \cup (Elems(batch[flush]) \ Elems(good))
      /\ IF n = 0 THEN FlushReturns ELSE kept' = good /\ Await("chunk")
  BY <1>5, <1>10
<1>7. PICK s \in Seq(Turns) : s = batch[flush]
  BY <1>2
<1>8. /\ good \in Seq(Turns) /\ Len(good) = n /\ Len(good) <= Len(s)
      /\ Elems(good) \subseteq Elems(s)
      /\ NoDup(s) => NoDup(good)
  <2>1. n \in Nat /\ n <= Len(s) /\ \A i \in 1..n : at[i] \in 1..Len(s)
    BY <1>7
  <2>2. good \in [1..n -> Turns] /\ \A i \in 1..n : good[i] = s[at[i]]
    BY <1>5, <1>7, <2>1
  <2>3. \A i, j \in 1..n : i < j => at[i] < at[j]
    BY <1>6
  <2> QED
    BY <2>1, <2>2, <2>3, RedactKeeps
<1>9. n = 0 => Elems(good) = {}
  BY <1>8 DEF Elems
<1> QED
  BY <1>1, <1>2, <1>3, <1>6, <1>7, <1>8, <1>9

LEMMA RedactBase ==
    ASSUME Base, Redact
    PROVE  Base'
<1>1. TypeOK /\ FlushAtHand
  BY DEF Base
<1>2. /\ Flushing /\ batch[flush] \in Seq(Turns)
      /\ UNCHANGED <<runOf, task, got, lost, staged, row, chunks, vectors, deadLetters>>
      /\ UNCHANGED <<failed, logged, deleting, deletes, signals, accepted, left>>
  BY RedactDoes
<1>3. PICK good \in Seq(Turns) :
                 /\ dropped' = dropped \cup (Elems(batch[flush]) \ Elems(good))
                 /\ FlushReturns \/ (kept' = good /\ Await("chunk"))
  BY RedactDoes
<1>4. dropped' \subseteq Turns
  BY <1>1, <1>2, <1>3, ElemsType DEF TypeOK
<1>5. CASE FlushReturns
  <2>1. closing' = closing /\ kept' = kept
    BY <1>5 DEF FlushReturns
  <2>2. SideType'
    BY <1>1, <1>2, <1>4, <2>1 DEF TypeOK, SideType
  <2> QED
    BY <1>2, <1>5, <2>2, FlushReturnsBase
<1>6. CASE kept' = good /\ Await("chunk")
  <2>1. closing' = closing
    BY <1>6 DEF Await
  <2>2. SideType'
    BY <1>1, <1>2, <1>4, <1>6, <2>1 DEF TypeOK, SideType
  <2>3. \A f \in Flushes, s \in Stores : task'[f][s] # "none" => f <= flush
    BY <1>1, <1>2 DEF FlushAtHand
  <2> QED
    BY <1>2, <1>6, <2>2, <2>3, AwaitBase
<1> QED
  BY <1>3, <1>5, <1>6

(* The steps that only go on to the next activity. *)
LEMMA AwaitingBase ==
    ASSUME Base, RedactFails \/ StoresReturn \/ UpdateStats
    PROVE  Base'
<1>1. TypeOK /\ FlushAtHand
  BY DEF Base
<1>2. Flushing
  BY DEF RedactFails, StoresReturn, UpdateStats, Flushing
<1>3. /\ UNCHANGED <<kept, runOf, task, got, lost, staged, row, chunks, vectors, deadLetters>>
      /\ UNCHANGED <<dropped, failed, logged, deleting, deletes, signals, accepted>>
  BY DEF RedactFails, StoresReturn, UpdateStats, activities, tables, records, requests
<1>4. left' \in BOOLEAN
  BY <1>1 DEF RedactFails, StoresReturn, UpdateStats, TypeOK
<1>5. PICK p \in {"chunk", "store", "stats", "cleanup", "deadLetter"} : Await(p)
  BY DEF RedactFails, StoresReturn, UpdateStats
<1>6. closing' = closing
  BY <1>5 DEF Await
<1>7. SideType'
  BY <1>1, <1>3, <1>4, <1>6 DEF TypeOK, SideType
<1>8. \A f \in Flushes, s \in Stores : task'[f][s] # "none" => f <= flush
  BY <1>1, <1>3 DEF FlushAtHand
<1> QED
  BY <1>2, <1>3, <1>5, <1>7, <1>8, AwaitBase

LEMMA ChunkBase ==
    ASSUME Base, Chunk
    PROVE  Base'
<1> USE ConversationAssumption
<1>1. TypeOK /\ Delivered /\ FlushAtHand
  BY DEF Base
<1>2. Flushing /\ phase = "chunk"
  BY DEF Chunk, Flushing
<1>3. /\ UNCHANGED <<kept, runOf, got, row, chunks, vectors, deadLetters>>
      /\ UNCHANGED <<dropped, failed, logged, deleting, deletes, signals, accepted, left>>
  BY DEF Chunk, tables, records, requests
<1>4. flush \in Flushes /\ run \in Runs /\ flush \in Nat /\ flush <= flush
  BY <1>1, <1>2 DEF FlushAtHand, TypeOK
<1>5. Stage => staged' \in [Runs -> Chunks]
  <2>1. [start |-> row.count, turns |-> kept] \in Chunks
    BY <1>1 DEF TypeOK, Chunks
  <2> QED
    BY <1>1, <1>4, <2>1 DEF TypeOK, Stage
<1>6. closing' = closing
  BY DEF Chunk, Await
<1>7. CASE /\ Stage /\ Await("store") /\ UNCHANGED lost
           /\ task' = [task EXCEPT ![flush] = [s \in Stores |-> "queued"]]
  <2>1. /\ task' \in [Flushes -> [Stores -> {"none", "queued", "read", "ok", "superseded", "failed"}]]
        /\ \A f \in Flushes : f # flush => task'[f] = task[f]
    BY <1>1, <1>4, <1>7 DEF TypeOK
  <2>2. SideType'
    BY <1>1, <1>3, <1>5, <1>6, <1>7, <2>1 DEF TypeOK, SideType
  <2>3. \A f \in Flushes, s \in Stores : task'[f][s] # "none" => f <= flush
    BY <1>1, <1>4, <2>1 DEF FlushAtHand
  <2> QED
    BY <1>2, <1>3, <1>7, <2>2, <2>3, AwaitBase
<1>8. CASE /\ lost < MaxLost /\ lost' = lost + 1
           /\ Stage /\ UNCHANGED <<run, phase, buffer, seen, since, closing, flush, batch, task>>
  <2>1. lost' \in 0..MaxLost
    BY <1>1, <1>8 DEF TypeOK
  <2>2. TypeOK'
    BY <1>1, <1>3, <1>5, <1>8, <2>1 DEF TypeOK
  <2> QED
    BY <1>3, <1>8, <2>2, BaseKept DEF workflow, tables
<1>9. CASE "chunk" \in Faults /\ Await("deadLetter") /\ UNCHANGED <<staged, task, lost>>
  <2>1. SideType'
    BY <1>1, <1>3, <1>6, <1>9 DEF TypeOK, SideType
  <2>2. \A f \in Flushes, s \in Stores : task'[f][s] # "none" => f <= flush
    BY <1>1, <1>9 DEF FlushAtHand
  <2> QED
    BY <1>2, <1>3, <1>9, <2>1, <2>2, AwaitBase
<1> QED
  BY <1>7, <1>8, <1>9 DEF Chunk

LEMMA CleanupBase ==
    ASSUME Base, Cleanup
    PROVE  Base'
<1>1. TypeOK /\ FlushAtHand
  BY DEF Base
<1>2. Flushing /\ FlushReturns
  BY DEF Cleanup, Flushing
<1>3. /\ UNCHANGED <<runOf, task, got, lost, row, chunks, vectors, deadLetters, dropped>>
      /\ UNCHANGED <<failed, logged, deleting, deletes, signals, accepted, left>>
  BY DEF Cleanup, activities, tables, records, requests
<1>4. staged' \in [Runs -> Chunks]
  <2>1. NoChunks \in Chunks
    BY DEF NoChunks, Chunks
  <2> QED
    BY <1>1, <2>1 DEF Cleanup, TypeOK
<1>5. closing' = closing /\ kept' = kept
  BY <1>2 DEF FlushReturns
<1>6. SideType'
  BY <1>1, <1>3, <1>4, <1>5 DEF TypeOK, SideType
<1> QED
  BY <1>2, <1>3, <1>6, FlushReturnsBase

LEMMA DeadLetterBase ==
    ASSUME Base, DeadLetterFlush
    PROVE  Base'
<1>1. TypeOK /\ FlushAtHand
  BY DEF Base
<1>2. Flushing /\ FlushReturns
  BY DEF DeadLetterFlush, Flushing
<1>3. /\ UNCHANGED <<runOf, task, got, lost, staged, row, chunks, vectors, dropped>>
      /\ UNCHANGED <<deleting, deletes, signals, accepted, left>>
  BY DEF DeadLetterFlush, activities, tables, requests
<1>4. flush \in Flushes /\ run \in Runs /\ Len(batch[flush]) > 0 /\ batch[flush] \in Seq(Turns)
  BY <1>1, <1>2 DEF FlushAtHand, TypeOK, Flushing
<1>5. DeadLetter \in [run : Runs, key : Turns, turns : SUBSET Turns]
  <2>1. batch[flush][1] \in Turns
    BY <1>4
  <2> QED
    BY <1>4, <2>1, ElemsType DEF DeadLetter
<1>6. /\ deadLetters' \in {deadLetters, deadLetters \cup {DeadLetter}}
      /\ failed' \subseteq failed \cup {flush} /\ logged' \subseteq logged \cup {flush}
  BY DEF DeadLetterFlush, AddDeadLetter
<1>7. closing' = closing /\ kept' = kept
  BY <1>2 DEF FlushReturns
<1>8. /\ deadLetters' \subseteq [run : Runs, key : Turns, turns : SUBSET Turns]
      /\ failed' \subseteq Flushes /\ logged' \subseteq Flushes
  BY <1>1, <1>4, <1>5, <1>6 DEF TypeOK
<1>9. SideType'
  BY <1>1, <1>3, <1>7, <1>8 DEF TypeOK, SideType
<1> QED
  BY <1>2, <1>3, <1>9, FlushReturnsBase

TaskStates == {"none", "queued", "read", "ok", "superseded", "failed"}

(* One store activity gets a new state. *)
LEMMA SetTaskOne ==
    ASSUME TypeOK, NEW f \in Flushes, NEW s \in Stores, NEW v \in TaskStates, SetTask(f, s, v),
           v # "none", task[f][s] # "none"
    PROVE  /\ task' \in [Flushes -> [Stores -> TaskStates]]
           /\ task'[f][s] = v
           /\ \A g \in Flushes, z \in Stores : g # f \/ z # s => task'[g][z] = task[g][z]
           /\ \A g \in Flushes, z \in Stores : task'[g][z] # "none" => task[g][z] # "none"
<1>1. task \in [Flushes -> [Stores -> TaskStates]]
  BY DEF TypeOK, TaskStates
<1>2. task' = [task EXCEPT ![f] = [task[f] EXCEPT ![s] = v]]
  BY DEF SetTask
<1>3. task[f] \in [Stores -> TaskStates]
  BY <1>1
<1>4. /\ [task[f] EXCEPT ![s] = v] \in [Stores -> TaskStates]
      /\ [task[f] EXCEPT ![s] = v][s] = v
      /\ \A z \in Stores : z # s => [task[f] EXCEPT ![s] = v][z] = task[f][z]
  BY <1>3
<1>5. /\ task' \in [Flushes -> [Stores -> TaskStates]]
      /\ task'[f] = [task[f] EXCEPT ![s] = v]
      /\ \A g \in Flushes : g # f => task'[g] = task[g]
  BY <1>1, <1>2, <1>4
<1> QED
  BY <1>4, <1>5

(* The chunks of a list: their place, and the turn at a place. *)
LEMMA TurnAtType ==
    ASSUME NEW c \in Chunks, NEW i \in Indexes
    PROVE  /\ TurnAt(c, i) \in Turns \cup {NoTurn}
           /\ TurnAt(c, i) # NoTurn => TurnAt(c, i) \in Elems(c.turns)
<1>1. c.start \in Nat /\ c.turns \in Seq(Turns) /\ Len(c.turns) \in Nat /\ i \in Int
  BY ConversationAssumption DEF Chunks, Indexes
<1>2. CASE i \in c.start..(c.start + Len(c.turns) - 1)
  <2>1. i - c.start + 1 \in 1..Len(c.turns)
    BY <1>1, <1>2
  <2>2. TurnAt(c, i) = c.turns[i - c.start + 1]
    BY <1>2 DEF TurnAt
  <2> QED
    BY <1>1, <2>1, <2>2 DEF Elems
<1>3. CASE i \notin c.start..(c.start + Len(c.turns) - 1)
  BY <1>3 DEF TurnAt
<1> QED
  BY <1>2, <1>3

(* Different places of a list without duplicates have different turns. *)
LEMMA TurnAtOnce ==
    ASSUME NEW c \in Chunks, NoDup(c.turns), NEW i \in Indexes, NEW j \in Indexes,
           TurnAt(c, i) # NoTurn, TurnAt(c, i) = TurnAt(c, j)
    PROVE  i = j
<1>1. c.start \in Nat /\ c.turns \in Seq(Turns) /\ Len(c.turns) \in Nat /\ i \in Int /\ j \in Int
  BY ConversationAssumption DEF Chunks, Indexes
<1>2. i \in c.start..(c.start + Len(c.turns) - 1) /\ j \in c.start..(c.start + Len(c.turns) - 1)
  BY DEF TurnAt
<1>3. i - c.start + 1 \in 1..Len(c.turns) /\ j - c.start + 1 \in 1..Len(c.turns)
  <2>1. PICK a \in Nat, n \in Nat : a = c.start /\ n = Len(c.turns)
    BY <1>1
  <2>2. i \in a..(a + n - 1) /\ j \in a..(a + n - 1)
    BY <1>2, <2>1
  <2>3. i - a + 1 \in 1..n /\ j - a + 1 \in 1..n
    BY <1>1, <2>2
  <2> QED
    BY <2>1, <2>3
<1>4. c.turns[i - c.start + 1] = c.turns[j - c.start + 1]
  BY <1>2 DEF TurnAt
<1>5. i - c.start + 1 = j - c.start + 1
  BY <1>3, <1>4 DEF NoDup
<1> QED
  BY <1>1, <1>5

(* A commit inserts rows where there are none, and counts them. *)
LEMMA CommitRows ==
    ASSUME TypeOK, CountExact, NEW c \in Chunks, NEW r \in 0..MaxRuns,
           StoreProcessedDocument(r, c)
    PROVE  /\ row' \in [run : 0..MaxRuns, count : Nat] /\ row'.run = r
           /\ chunks' \in [Indexes -> Turns \cup {NoTurn}]
           /\ CountExact'
<1>1. PICK new : new = {i \in Indexes : TurnAt(c, i) # NoTurn /\ chunks[i] = NoTurn}
  OBVIOUS
<1>2. /\ row' = [run |-> r, count |-> row.count + Cardinality(new)]
      /\ chunks' = [i \in Indexes |-> IF i \in new THEN TurnAt(c, i) ELSE chunks[i]]
  BY <1>1 DEF StoreProcessedDocument
<1>3. \A i \in Indexes : TurnAt(c, i) \in Turns \cup {NoTurn}
  BY TurnAtType
<1>4. chunks' \in [Indexes -> Turns \cup {NoTurn}]
  BY <1>2, <1>3 DEF TypeOK
<1>5. Rows(chunks') = Rows(chunks) \cup new /\ Rows(chunks) \cap new = {}
  BY <1>1, <1>2 DEF Rows
<1>6. /\ IsFiniteSet(new) /\ IsFiniteSet(Rows(chunks)) /\ Cardinality(new) \in Nat
      /\ Cardinality(Rows(chunks)) \in Nat
  <2>1. new \subseteq Indexes /\ Rows(chunks) \subseteq Indexes
    BY <1>1 DEF Rows
  <2> QED
    BY <2>1, RowsFinite
<1>7. Cardinality(Rows(chunks) \cup new) = Cardinality(Rows(chunks)) + Cardinality(new)
  <2>1. Cardinality(Rows(chunks) \cup new)
          = Cardinality(Rows(chunks)) + Cardinality(new) - Cardinality(Rows(chunks) \cap new)
    BY <1>6, FS_Union
  <2>2. Cardinality(Rows(chunks) \cap new) = 0
    BY <1>5, FS_EmptySet
  <2> QED
    BY <1>6, <2>1, <2>2
<1>8. row.count = Cardinality(Rows(chunks))
  BY DEF CountExact
<1>9. CountExact'
  BY <1>2, <1>5, <1>7, <1>8 DEF CountExact
<1>10. row'.run = r /\ row'.count \in Nat /\ row' = [run |-> row'.run, count |-> row'.count]
  BY <1>2, <1>6, <1>8
<1> QED
  BY <1>2, <1>4, <1>6, <1>8, <1>9

(* The store steps that leave the rows alone. *)
LEMMA StoreBase ==
    ASSUME Base, NEW f \in Flushes,
           \/ \E s \in Stores : BeginStore(f, s) \/ StoreGivesUp(f, s)
           \/ StoreInWeaviate(f)
    PROVE  Base'
<1>1. TypeOK
  BY DEF Base
<1>2. /\ UNCHANGED <<workflow, runOf, lost, staged, tables, records, requests, signals, accepted, left>>
  BY DEF BeginStore, StoreGivesUp, StoreInWeaviate
<1>3. PICK s \in Stores, v \in TaskStates : SetTask(f, s, v) /\ v # "none" /\ task[f][s] # "none"
  BY DEF BeginStore, StoreGivesUp, StoreInWeaviate, TaskStates, Stores
<1>4. /\ task' \in [Flushes -> [Stores -> TaskStates]]
      /\ \A g \in Flushes, z \in Stores : task'[g][z] # "none" => task[g][z] # "none"
  BY <1>1, <1>3, SetTaskOne
<1>5. got' \in [Flushes -> [Stores -> Chunks]]
  <2>1. CASE got' = got
    BY <1>1, <2>1 DEF TypeOK
  <2>2. CASE \E z \in Stores : /\ got' = [got EXCEPT ![f][z] = staged[runOf[f]]]
                               /\ task[f][z] = "queued"
    <3>1. PICK z \in Stores : /\ got' = [got EXCEPT ![f] = [got[f] EXCEPT ![z] = staged[runOf[f]]]]
                              /\ task[f][z] = "queued"
      BY <2>2
    <3>2. f \in 1..flush
      BY <1>1, <3>1 DEF Base, FlushAtHand, TypeOK, Flushes
    <3>3. runOf[f] \in Runs
      BY <1>1, <3>2 DEF Base, FlushAtHand, TypeOK, Runs
    <3>4. staged[runOf[f]] \in Chunks /\ got[f] \in [Stores -> Chunks]
      BY <1>1, <3>3 DEF TypeOK
    <3>5. [got[f] EXCEPT ![z] = staged[runOf[f]]] \in [Stores -> Chunks]
      BY <3>4
    <3> QED
      BY <1>1, <3>1, <3>5 DEF TypeOK
  <2> QED
    BY <2>1, <2>2 DEF BeginStore, StoreGivesUp, StoreInWeaviate
<1>6. vectors' \in [Indexes -> Turns \cup {NoTurn}]
  <2>1. CASE vectors' = vectors
    BY <1>1, <2>1 DEF TypeOK
  <2>2. CASE StoreInWeaviate(f)
    <3>1. PICK c \in Chunks : c = got[f]["wv"]
      BY <1>1 DEF TypeOK, Stores
    <3>2. PICK S \in SUBSET Indexes :
              vectors' = [i \in Indexes |-> IF i \in S THEN TurnAt(c, i) ELSE vectors[i]]
      BY <2>2, <3>1 DEF StoreInWeaviate
    <3>3. \A i \in Indexes : TurnAt(c, i) \in Turns \cup {NoTurn}
      BY TurnAtType
    <3> QED
      BY <1>1, <3>2, <3>3 DEF TypeOK
  <2> QED
    BY <2>1, <2>2 DEF BeginStore, StoreGivesUp
<1>7. TypeOK'
  BY <1>1, <1>2, <1>4, <1>5, <1>6
  DEF TypeOK, TaskStates, workflow, tables, records, requests
<1> QED
  BY <1>2, <1>4, <1>7, BaseKept

(* The commit of the rows: the counter grows by the rows inserted. *)
LEMMA CommitBase ==
    ASSUME Base, NEW f \in Flushes, StoreInPostgresql(f)
    PROVE  Base'
<1> USE ConversationAssumption
<1>1. TypeOK /\ Delivered /\ FlushAtHand /\ CountExact
  BY DEF Base
<1>2. /\ UNCHANGED <<run, phase, buffer, seen, since, closing, flush, batch, kept, runOf, got>>
      /\ UNCHANGED <<staged, vectors, deadLetters, dropped, failed, logged, deleting, deletes>>
      /\ UNCHANGED <<signals, accepted, left>>
  BY DEF StoreInPostgresql, workflow, records, requests
<1>3. PICK v \in TaskStates : SetTask(f, "pg", v) /\ v # "none" /\ task[f]["pg"] = "read"
  BY DEF StoreInPostgresql, TaskStates
<1>4. /\ task' \in [Flushes -> [Stores -> TaskStates]]
      /\ \A g \in Flushes, z \in Stores : task'[g][z] # "none" => task[g][z] # "none"
  <2>1. "pg" \in Stores
    BY DEF Stores
  <2> QED
    BY <1>1, <1>3, <2>1, SetTaskOne
<1>5. lost' \in 0..MaxLost
  BY <1>1 DEF StoreInPostgresql, TypeOK
<1>6. runOf[f] \in 0..MaxRuns /\ runOf[f] <= run
  <2>1. f \in 1..flush
    BY <1>1, <1>3 DEF FlushAtHand, TypeOK, Flushes, Stores
  <2> QED
    BY <1>1, <2>1 DEF FlushAtHand, TypeOK
<1>7. row' \in [run : 0..MaxRuns, count : Nat] /\ row'.run <= run
      /\ chunks' \in [Indexes -> Turns \cup {NoTurn}] /\ CountExact'
  <2>1. CASE UNCHANGED <<row, chunks>>
    BY <1>1, <2>1 DEF TypeOK, FlushAtHand, CountExact, Rows
  <2>2. CASE StoreProcessedDocument(runOf[f], got[f]["pg"])
    <3>1. PICK c \in Chunks : c = got[f]["pg"]
      BY <1>1 DEF TypeOK, Stores
    <3>2. PICK r : r = runOf[f]
      OBVIOUS
    <3>3. StoreProcessedDocument(r, c)
      BY <2>2, <3>1, <3>2
    <3> QED
      BY <1>1, <1>6, <3>2, <3>3, CommitRows DEF TypeOK
  <2> QED
    BY <2>1, <2>2 DEF StoreInPostgresql, tables
<1>8. TypeOK'
  BY <1>1, <1>2, <1>4, <1>5, <1>7 DEF TypeOK, TaskStates
<1>9. Delivered'
  BY <1>1, <1>2 DEF Delivered, Flushing
<1>10. FlushAtHand'
  BY <1>1, <1>2, <1>4, <1>7 DEF FlushAtHand, Flushing
<1> QED
  BY <1>7, <1>8, <1>9, <1>10 DEF Base

LEMMA DeleteBase ==
    ASSUME Base, DeleteVectors \/ DeleteRow
    PROVE  Base'
<1> USE ConversationAssumption
<1>1. TypeOK /\ Delivered /\ FlushAtHand /\ CountExact
  BY DEF Base
<1>2. /\ UNCHANGED <<run, phase, buffer, seen, since, closing, flush, batch, kept, runOf, got>>
      /\ UNCHANGED <<task, lost, staged, deadLetters, dropped, failed, logged>>
      /\ UNCHANGED <<signals, accepted, left>>
  BY DEF DeleteVectors, DeleteRow, workflow, records, activities
<1>3. deletes' \in 0..MaxDeletes /\ deleting' \in BOOLEAN
  <2>1. deletes \in 0..MaxDeletes
    BY <1>1 DEF TypeOK
  <2>2. CASE deletes < MaxDeletes /\ deletes' = deletes + 1 /\ deleting' = TRUE
    BY <2>1, <2>2
  <2>3. CASE deletes' = deletes /\ deleting' = FALSE
    BY <2>1, <2>3
  <2> QED
    BY <2>2, <2>3 DEF DeleteVectors, DeleteRow
<1>4. vectors' \in [Indexes -> Turns \cup {NoTurn}]
  BY <1>1 DEF DeleteVectors, DeleteRow, TypeOK
<1>5. row' \in [run : 0..MaxRuns, count : Nat] /\ row'.run <= run
      /\ chunks' \in [Indexes -> Turns \cup {NoTurn}] /\ CountExact'
  <2>1. CASE UNCHANGED <<row, chunks>>
    BY <1>1, <2>1 DEF TypeOK, FlushAtHand, CountExact, Rows
  <2>2. CASE row' = [run |-> NoRun, count |-> 0] /\ chunks' = [i \in Indexes |-> NoTurn]
    <3>1. Rows(chunks') = {}
      BY <2>2 DEF Rows
    <3>2. Cardinality(Rows(chunks')) = 0
      BY <3>1, FS_EmptySet
    <3>3. CountExact'
      BY <2>2, <3>2 DEF CountExact
    <3> QED
      BY <1>1, <2>2, <3>3 DEF TypeOK, NoRun
  <2> QED
    BY <2>1, <2>2 DEF DeleteVectors, DeleteRow, tables
<1>6. TypeOK'
  BY <1>1, <1>2, <1>3, <1>4, <1>5 DEF TypeOK
<1>7. Delivered'
  BY <1>1, <1>2 DEF Delivered, Flushing
<1>8. FlushAtHand'
  BY <1>1, <1>2, <1>5 DEF FlushAtHand, Flushing
<1> QED
  BY <1>5, <1>6, <1>7, <1>8 DEF Base

LEMMA InitBase ==
    ASSUME Init
    PROVE  Base
<1> USE ConversationAssumption
<1>1. NoChunks \in Chunks
  BY DEF NoChunks, Chunks
<1>2. TypeOK
  <2>1. <<>> \in Seq(Turns) /\ Len(<<>>) = 0 /\ NoRun \in 0..MaxRuns
    BY DEF NoRun
  <2>2. /\ batch \in [Flushes -> Seq(Turns)] /\ runOf \in [Flushes -> 0..MaxRuns]
        /\ task \in [Flushes -> [Stores -> TaskStates]]
        /\ got \in [Flushes -> [Stores -> Chunks]] /\ staged \in [Runs -> Chunks]
        /\ chunks \in [Indexes -> Turns \cup {NoTurn}] /\ vectors \in [Indexes -> Turns \cup {NoTurn}]
    BY <1>1, <2>1 DEF Init, TaskStates
  <2>3. row \in [run : 0..MaxRuns, count : Nat]
    BY <2>1 DEF Init
  <2>4. /\ run \in 0..MaxRuns /\ since \in 0..MaxSignals /\ flush \in 0..MaxSignals
        /\ lost \in 0..MaxLost /\ signals \in 0..MaxSignals /\ deletes \in 0..MaxDeletes
        /\ seen \in Seq(Turns) /\ Len(seen) <= SeenBound
        /\ buffer \in Seq(Turns) /\ kept \in Seq(Turns)
    BY <2>1 DEF Init
  <2>5. /\ phase = "closed" /\ closing \in BOOLEAN /\ deleting \in BOOLEAN /\ left \in BOOLEAN
        /\ deadLetters = {} /\ dropped = {} /\ accepted = {} /\ failed = {} /\ logged = {}
    BY DEF Init
  <2> QED
    BY <2>2, <2>3, <2>4, <2>5 DEF TypeOK, TaskStates
<1>3. Delivered /\ FlushAtHand
  BY DEF Init, Delivered, FlushAtHand, Flushing, NoRun
<1>4. Rows(chunks) = {}
  BY DEF Init, Rows
<1>5. CountExact
  BY <1>4, FS_EmptySet DEF Init, CountExact
<1> QED
  BY <1>2, <1>3, <1>5 DEF Base

LEMMA NextBase ==
    ASSUME Base, [Next]_vars
    PROVE  Base'
<1>1. CASE UNCHANGED vars
  <2>1. UNCHANGED <<workflow, activities, staged, tables, vectors, records, requests, signals,
                    accepted, left>>
    BY <1>1 DEF vars
  <2>2. TypeOK'
    BY <2>1 DEF Base, TypeOK, workflow, activities, tables, records, requests
  <2> QED
    BY <2>1, <2>2, BaseKept DEF activities
<1>2. CASE \E t \in Turns : Signal(t)
  BY <1>2, SignalBase
<1>3. CASE Close \/ TenantReady \/ Idle \/ Finalize
  BY <1>3, LoopBase
<1>4. CASE FlushStep
  BY <1>4, BeginFlushBase, RedactBase, AwaitingBase, ChunkBase, CleanupBase, DeadLetterBase
  DEF FlushStep
<1>5. CASE \E f \in Flushes : StoreStep(f)
  BY <1>5, StoreBase, CommitBase DEF StoreStep
<1>6. CASE DeleteVectors \/ DeleteRow
  BY <1>6, DeleteBase
<1> QED
  BY <1>1, <1>2, <1>3, <1>4, <1>5, <1>6 DEF Next

(* The counter of the row, chunk_count, is the number of the conversation's *)
(* chunks in every state: after a repeated commit, a late one and a        *)
(* deletion.                                                               *)
THEOREM CountFollowsTheRows == Spec => []CountMatchesRows
<1>1. Base => CountMatchesRows
  BY DEF Base, CountExact, CountMatchesRows
<1> QED
  BY <1>1, InitBase, NextBase, PTL DEF Spec

-----------------------------------------------------------------------------
(* Turns are taken once, and a failed flush leaves its own dead letter.    *)

(* A step that takes no turn, and puts no dead letter on record. *)
Quiet ==
    /\ UNCHANGED <<seen, flush, batch, runOf, signals, deadLetters, failed>>
    /\ Flushing' => Flushing
    /\ \/ run' = run /\ (buffer' = buffer \/ buffer' = <<>>)
       \/ run' = run + 1 /\ buffer' = <<>>

LEMMA QuietReturns ==
    ASSUME Base, Flushing, FlushReturns
    PROVE  /\ ~Flushing' /\ UNCHANGED <<seen, flush, batch>>
           /\ (run' = run /\ buffer' = buffer) \/ (run' = run + 1 /\ buffer' = <<>>)
  BY FlushReturnsTo DEF Flushing

LEMMA FlushKinds ==
    ASSUME Base, FlushStep
    PROVE  BeginFlush \/ DeadLetterFlush \/ Quiet
<1>1. CASE Redact
  <2>1. /\ Flushing /\ UNCHANGED <<runOf, signals, deadLetters, failed>>
        /\ FlushReturns \/ Await("chunk")
    BY <1>1, RedactDoes
  <2>2. CASE FlushReturns
    BY <2>1, <2>2, QuietReturns DEF Quiet
  <2>3. CASE Await("chunk")
    BY <2>1, <2>3 DEF Quiet, Await
  <2> QED
    BY <2>1, <2>2, <2>3
<1>2. CASE RedactFails \/ StoresReturn \/ UpdateStats \/ Chunk
  BY <1>2 DEF RedactFails, StoresReturn, UpdateStats, Chunk, Await, Quiet, Flushing, records,
              activities
<1>3. CASE Cleanup
  <2>1. Flushing /\ FlushReturns /\ UNCHANGED <<runOf, signals, deadLetters, failed>>
    BY <1>3 DEF Cleanup, Flushing, activities, records
  <2> QED
    BY <2>1, QuietReturns DEF Quiet
<1> QED
  BY <1>1, <1>2, <1>3 DEF FlushStep

LEMMA StepKinds ==
    ASSUME Base, [Next]_vars
    PROVE  (\E t \in Turns : Signal(t)) \/ BeginFlush \/ DeadLetterFlush \/ Quiet
<1>1. CASE UNCHANGED vars
  BY <1>1 DEF vars, workflow, activities, records, Quiet, Flushing
<1>2. CASE Close \/ TenantReady \/ Idle \/ Finalize
  BY <1>2 DEF Close, TenantReady, Idle, Finalize, EndRun, activities, records, Quiet, Flushing
<1>3. CASE FlushStep
  BY <1>3, FlushKinds
<1>4. CASE \E f \in Flushes : StoreStep(f)
  <2>1. UNCHANGED <<workflow, runOf, signals, records>>
    BY <1>4 DEF StoreStep, BeginStore, StoreGivesUp, StoreInPostgresql, StoreInWeaviate
  <2> QED
    BY <2>1 DEF workflow, records, Quiet, Flushing
<1>5. CASE DeleteVectors \/ DeleteRow
  <2>1. UNCHANGED <<workflow, activities, signals, records>>
    BY <1>5 DEF DeleteVectors, DeleteRow
  <2> QED
    BY <2>1 DEF workflow, activities, records, Quiet, Flushing
<1> QED
  BY <1>1, <1>2, <1>3, <1>4, <1>5 DEF Next

LEMMA QuietTaken ==
    ASSUME Base, Memory, TakenOnce, Quiet \/ DeadLetterFlush
    PROVE  Memory' /\ TakenOnce'
<1>1. /\ UNCHANGED <<seen, flush, batch, runOf, signals>>
      /\ \/ run' = run /\ (buffer' = buffer \/ buffer' = <<>>)
         \/ run' = run + 1 /\ buffer' = <<>>
  <2>1. CASE Quiet
    BY <2>1 DEF Quiet
  <2>2. CASE DeadLetterFlush
    <3>1. Flushing /\ FlushReturns /\ UNCHANGED <<runOf, signals>>
      BY <2>2 DEF DeadLetterFlush, Flushing, activities
    <3> QED
      BY <3>1, QuietReturns
  <2> QED
    BY <2>1, <2>2
<1>2. \A g \in 1..flush : runOf[g] \in 1..run /\ run \in Nat
  BY DEF Base, FlushAtHand, TypeOK
<1>3. \A g \in 1..flush : runOf[g] # run + 1
  BY <1>2
<1>4. \A g \in 1..flush : runOf[g] = run' => run' = run
  BY <1>1, <1>3
<1>5. CASE buffer' = buffer /\ run' = run
  BY <1>1, <1>5 DEF Memory, TakenOnce, Remembered, FlushedOnce
<1>6. CASE buffer' = <<>>
  <2>1. Elems(buffer') = {} /\ NoDup(buffer')
    BY <1>6, ElemsEmpty
  <2>2. Memory'
    BY <1>1, <1>4, <2>1 DEF Memory
  <2>3. TakenOnce'
    BY <1>1, <2>1 DEF TakenOnce, Remembered, FlushedOnce
  <2> QED
    BY <2>2, <2>3
<1> QED
  BY <1>1, <1>5, <1>6

LEMMA BeginFlushDoes ==
    ASSUME Base, BeginFlush
    PROVE  /\ buffer \in Seq(Turns) /\ buffer # <<>> /\ Len(buffer) > 0
           /\ flush \in Nat /\ flush' = flush + 1 /\ flush + 1 \in Flushes
           /\ batch'[flush + 1] = buffer /\ runOf'[flush + 1] = run
           /\ \A g \in 1..(flush + 1) : g \in 1..flush \/ g = flush + 1
           /\ \A g \in 1..flush :
                 g # flush + 1 /\ g \in 1..(flush + 1) /\ batch'[g] = batch[g] /\ runOf'[g] = runOf[g]
           /\ phase = "wait" /\ phase' = "redact" /\ buffer' = <<>> /\ run \in Runs
           /\ UNCHANGED <<run, seen, closing, kept, task, got, staged, row, chunks, signals>>
           /\ UNCHANGED <<deadLetters, dropped, failed, logged, deleting, deletes, accepted, left>>
<1>1. TypeOK /\ Delivered /\ FlushAtHand
  BY DEF Base
<1>2. /\ phase = "wait" /\ buffer # <<>> /\ flush' = flush + 1
      /\ batch' = [batch EXCEPT ![flush + 1] = buffer]
      /\ runOf' = [runOf EXCEPT ![flush + 1] = run]
      /\ buffer' = <<>> /\ phase' = "redact"
      /\ UNCHANGED <<run, seen, closing, kept, task, got, staged, row, chunks, signals>>
      /\ UNCHANGED <<deadLetters, dropped, failed, logged, deleting, deletes, accepted, left>>
  BY DEF BeginFlush, tables, records, requests
<1>3. /\ buffer \in Seq(Turns) /\ Len(buffer) \in Nat /\ Len(buffer) > 0 /\ flush \in Nat
      /\ flush + Len(buffer) <= signals /\ signals \in 0..MaxSignals
  BY <1>1, <1>2, ElemsType DEF TypeOK, Delivered
<1>4. flush + 1 \in Flushes
  BY <1>3, ConversationAssumption DEF Flushes
<1>5. \A g \in 1..flush : g \in Flushes /\ g # flush + 1 /\ g \in 1..(flush + 1)
  <2>1. MaxSignals \in Nat /\ flush + 1 <= MaxSignals
    BY <1>4, ConversationAssumption DEF Flushes
  <2> QED
    BY <1>3, <2>1 DEF Flushes
<1>6. \A g \in 1..(flush + 1) : g \in 1..flush \/ g = flush + 1
  BY <1>3
<1>7. /\ batch'[flush + 1] = buffer /\ runOf'[flush + 1] = run
      /\ \A g \in Flushes : g # flush + 1 => batch'[g] = batch[g] /\ runOf'[g] = runOf[g]
  BY <1>1, <1>2, <1>4 DEF TypeOK
<1>8. run \in Runs
  BY <1>1, <1>2 DEF FlushAtHand
<1> QED
  BY <1>2, <1>3, <1>4, <1>5, <1>6, <1>7, <1>8

LEMMA BeginFlushTaken ==
    ASSUME Base, Memory, TakenOnce, BeginFlush
    PROVE  Memory' /\ TakenOnce'
<1>1. /\ flush' = flush + 1 /\ batch'[flush + 1] = buffer /\ runOf'[flush + 1] = run
      /\ \A g \in 1..(flush + 1) : g \in 1..flush \/ g = flush + 1
      /\ \A g \in 1..flush : g # flush + 1 /\ batch'[g] = batch[g] /\ runOf'[g] = runOf[g]
      /\ buffer' = <<>> /\ UNCHANGED <<run, seen, signals>>
  BY BeginFlushDoes
<1>2. Elems(buffer') = {} /\ NoDup(buffer')
  BY <1>1, ElemsEmpty
<1>3. Memory'
  BY <1>1, <1>2 DEF Memory
<1>4. TakenOnce'
  <2>1. SUFFICES ASSUME Remembered'
                 PROVE  /\ \A g \in 1..(flush + 1) : NoDup(batch'[g])
                        /\ FlushedOnce'
    BY <1>1, <1>2 DEF TakenOnce
  <2>2. /\ NoDup(buffer)
        /\ \A g \in 1..flush : NoDup(batch[g])
        /\ \A g \in 1..flush : runOf[g] = run => Elems(batch[g]) \cap Elems(buffer) = {}
        /\ FlushedOnce
    BY <1>1, <2>1 DEF TakenOnce, Remembered
  <2>3. \A g \in 1..(flush + 1) : NoDup(batch'[g])
    BY <1>1, <2>2
  <2>4. ASSUME NEW f \in 1..(flush + 1), NEW g \in 1..(flush + 1), f # g, runOf'[f] = runOf'[g]
        PROVE  Elems(batch'[f]) \cap Elems(batch'[g]) = {}
    <3>1. CASE f \in 1..flush /\ g \in 1..flush
      BY <1>1, <2>2, <2>4, <3>1 DEF FlushedOnce
    <3>2. CASE f = flush + 1 /\ g \in 1..flush
      BY <1>1, <2>2, <2>4, <3>2
    <3>3. CASE f \in 1..flush /\ g = flush + 1
      BY <1>1, <2>2, <2>4, <3>3
    <3> QED
      BY <1>1, <2>4, <3>1, <3>2, <3>3
  <2> QED
    BY <1>1, <2>3, <2>4 DEF FlushedOnce
<1> QED
  BY <1>3, <1>4

(* What a signal does to the buffer and to the memory. *)
LEMMA SignalDoes ==
    ASSUME Base, NEW t \in Turns, Signal(t)
    PROVE  /\ signals' = signals + 1 /\ signals \in Nat /\ signals < MaxSignals
           /\ UNCHANGED <<flush, batch, kept, runOf, task, got, staged, row, chunks>>
           /\ UNCHANGED <<deadLetters, dropped, failed, logged, deleting, deletes, left>>
           /\ \/ /\ phase = "closed" /\ phase' = "tenant" /\ run' = run + 1
                 /\ buffer' = <<t>> /\ seen' = <<t>> /\ accepted' = accepted \cup {t}
              \/ UNCHANGED <<run, phase, buffer, seen, accepted>> /\ phase # "closed"
              \/ /\ UNCHANGED <<run, phase>> /\ phase # "closed" /\ t \notin Elems(seen)
                 /\ buffer' = Append(buffer, t) /\ seen' = Remember(seen, t)
                 /\ accepted' = accepted \cup {t}
<1>1. signals \in Nat
  BY ConversationAssumption DEF Base, TypeOK
<1>2. /\ signals' = signals + 1 /\ signals < MaxSignals
      /\ UNCHANGED <<flush, batch, kept, runOf, task, got, staged, row, chunks>>
      /\ UNCHANGED <<deadLetters, dropped, failed, logged, deleting, deletes, left>>
  BY DEF Signal, activities, tables, records, requests
<1> QED
  BY <1>1, <1>2 DEF Signal, StartRun, AddTurn

LEMMA SignalTaken ==
    ASSUME Base, Memory, TakenOnce, NEW t \in Turns, Signal(t)
    PROVE  Memory' /\ TakenOnce'
<1> USE ConversationAssumption
<1>1. /\ signals' = signals + 1 /\ signals \in Nat /\ UNCHANGED <<flush, batch, runOf>>
  BY SignalDoes
<1>2. /\ (signals' <= SeenBound => signals <= SeenBound /\ signals < SeenBound)
      /\ (Remembered' => Remembered /\ signals <= SeenBound)
  BY <1>1 DEF Remembered
<1>3. /\ buffer \in Seq(Turns) /\ seen \in Seq(Turns) /\ Len(seen) <= SeenBound
      /\ Len(seen) <= signals /\ Len(seen) \in Nat
  BY DEF Base, TypeOK, Delivered
<1>4. CASE run' = run + 1 /\ buffer' = <<t>> /\ seen' = <<t>>
  <2>1. Elems(buffer') = {t} /\ Elems(seen') = {t} /\ NoDup(buffer')
    BY <1>4, ElemsSingle
  <2>2. \A g \in 1..flush : runOf[g] \in 1..run /\ run \in Nat
    BY DEF Base, FlushAtHand, TypeOK
  <2>3. \A g \in 1..flush : runOf[g] # run'
    BY <1>4, <2>2
  <2>4. Memory'
    BY <1>1, <2>1, <2>3 DEF Memory
  <2>5. TakenOnce'
    BY <1>1, <1>2, <2>1, <2>3 DEF TakenOnce, FlushedOnce
  <2> QED
    BY <2>4, <2>5
<1>5. CASE UNCHANGED <<run, buffer, seen>>
  BY <1>1, <1>2, <1>5 DEF Memory, TakenOnce, FlushedOnce
<1>6. CASE /\ run' = run /\ t \notin Elems(seen)
           /\ buffer' = Append(buffer, t) /\ seen' = Remember(seen, t)
  <2>1. Elems(buffer') = Elems(buffer) \cup {t}
    BY <1>3, <1>6, ElemsAppend
  <2>2. signals < SeenBound => Elems(seen') = Elems(seen) \cup {t}
    <3>1. signals < SeenBound => Len(seen) < SeenBound
      BY <1>1, <1>3
    <3> QED
      BY <1>3, <1>6, <3>1, RememberType
  <2>3. Memory'
    BY <1>1, <1>2, <1>6, <2>1, <2>2 DEF Memory
  <2>4. ASSUME Remembered'
        PROVE  /\ NoDup(buffer')
               /\ \A g \in 1..flush : NoDup(batch[g])
               /\ \A g \in 1..flush : runOf[g] = run => Elems(batch[g]) \cap Elems(buffer') = {}
               /\ FlushedOnce
    <3>1. /\ Elems(buffer) \subseteq Elems(seen) /\ NoDup(buffer)
          /\ \A g \in 1..flush : runOf[g] = run => Elems(batch[g]) \subseteq Elems(seen)
          /\ \A g \in 1..flush : runOf[g] = run => Elems(batch[g]) \cap Elems(buffer) = {}
      BY <1>2, <2>4 DEF Memory, TakenOnce
    <3>2. NoDup(buffer')
      BY <1>3, <1>6, <3>1, NoDupAppend
    <3>3. \A g \in 1..flush : runOf[g] = run => Elems(batch[g]) \cap Elems(buffer') = {}
      BY <1>6, <2>1, <3>1
    <3> QED
      BY <1>2, <2>4, <3>2, <3>3 DEF TakenOnce
  <2>5. TakenOnce'
    BY <1>1, <1>6, <2>4 DEF TakenOnce, FlushedOnce
  <2> QED
    BY <2>3, <2>5
<1> QED
  BY <1>4, <1>5, <1>6, SignalDoes

LEMMA NextTaken ==
    ASSUME Base, Memory, TakenOnce, [Next]_vars
    PROVE  Memory' /\ TakenOnce'
  BY StepKinds, SignalTaken, BeginFlushTaken, QuietTaken

LEMMA QuietLetters ==
    ASSUME Base, LettersTrue, Quiet \/ \E t \in Turns : Signal(t)
    PROVE  LettersTrue'
<1>1. /\ UNCHANGED <<flush, batch, runOf, deadLetters, failed>>
      /\ (Flushing' => Flushing) /\ (Remembered' => Remembered)
  <2>1. CASE Quiet
    BY <2>1 DEF Quiet, Remembered
  <2>2. CASE \E t \in Turns : Signal(t)
    <3>1. PICK t \in Turns : Signal(t)
      BY <2>2
    <3>2. UNCHANGED <<flush, batch, runOf, deadLetters, failed>> /\ signals' = signals + 1
          /\ signals \in Nat
      BY <3>1, SignalDoes
    <3>3. phase' = phase \/ phase' = "tenant"
      BY <3>1, SignalDoes
    <3> QED
      BY <3>2, <3>3, ConversationAssumption DEF Flushing, Remembered
  <2> QED
    BY <2>1, <2>2
<1> QED
  BY <1>1 DEF LettersTrue, FailedFlushOnRecord

LEMMA BeginFlushLetters ==
    ASSUME Base, LettersTrue, BeginFlush
    PROVE  LettersTrue'
<1>1. /\ flush' = flush + 1
      /\ \A g \in 1..flush :
            g # flush + 1 /\ g \in 1..(flush + 1) /\ batch'[g] = batch[g] /\ runOf'[g] = runOf[g]
      /\ UNCHANGED <<deadLetters, failed, signals>>
  BY BeginFlushDoes
<1>2. /\ failed' \subseteq 1..flush'
      /\ \A d \in deadLetters' : d.key \in d.turns /\ \E g \in 1..flush' :
            runOf'[g] = d.run /\ d.turns = Elems(batch'[g]) /\ ~(g = flush' /\ Flushing')
  BY <1>1 DEF LettersTrue
<1>3. FailedFlushOnRecord'
  BY <1>1 DEF LettersTrue, FailedFlushOnRecord, Remembered
<1> QED
  BY <1>2, <1>3 DEF LettersTrue

(* The dead letter of a flush is that of no other flush of the run. *)
LEMMA DeadLetterLetters ==
    ASSUME Base, TakenOnce, LettersTrue, DeadLetterFlush
    PROVE  /\ LettersTrue'
           /\ Remembered /\ flush \in failed' =>
                 \E d \in deadLetters' : d.turns = Elems(batch[flush])
<1>1. Flushing /\ FlushReturns /\ UNCHANGED <<runOf, signals>>
  BY DEF DeadLetterFlush, Flushing, activities
<1>2. ~Flushing' /\ UNCHANGED <<flush, batch>>
  BY <1>1, QuietReturns
<1>3. /\ flush \in 1..flush /\ runOf[flush] = run /\ Len(batch[flush]) > 0
      /\ batch[flush] \in Seq(Turns)
  BY <1>1, ConversationAssumption DEF Base, FlushAtHand, TypeOK, Flushes
<1>4. batch[flush][1] \in Elems(batch[flush])
  BY <1>3 DEF Elems
<1>5. /\ DeadLetter.run = run /\ DeadLetter.key = batch[flush][1]
      /\ DeadLetter.turns = Elems(batch[flush])
  BY DEF DeadLetter
<1>6. CASE UNCHANGED <<deadLetters, failed>>
  <2>1. LettersTrue'
    BY <1>1, <1>2, <1>6 DEF LettersTrue, FailedFlushOnRecord, Remembered
  <2>2. Remembered /\ flush \in failed' => \E d \in deadLetters' : d.turns = Elems(batch[flush])
    BY <1>6 DEF LettersTrue, FailedFlushOnRecord
  <2> QED
    BY <2>1, <2>2
<1>7. CASE AddDeadLetter(DeadLetter) /\ failed' = failed \cup {flush}
  <2>1. deadLetters' = deadLetters \/ deadLetters' = deadLetters \cup {DeadLetter}
    BY <1>7 DEF AddDeadLetter
  <2>2. \A d \in deadLetters' : d.key \in d.turns /\ \E g \in 1..flush :
            runOf[g] = d.run /\ d.turns = Elems(batch[g])
    BY <1>3, <1>4, <1>5, <2>1 DEF LettersTrue
  <2>3. ASSUME Remembered
        PROVE  \E d \in deadLetters' : d.turns = Elems(batch[flush])
    <3>1. CASE deadLetters' = deadLetters \cup {DeadLetter}
      BY <1>5, <3>1
    <3>2. CASE \E e \in deadLetters : e.run = DeadLetter.run /\ e.key = DeadLetter.key
      <4>1. PICK e \in deadLetters : e.run = run /\ e.key = batch[flush][1]
        BY <1>5, <3>2
      <4>2. PICK g \in 1..flush : runOf[g] = run /\ e.turns = Elems(batch[g]) /\ g # flush
        BY <1>1, <4>1 DEF LettersTrue
      <4>3. batch[flush][1] \in Elems(batch[g])
        BY <4>1, <4>2 DEF LettersTrue
      <4>4. Elems(batch[flush]) \cap Elems(batch[g]) = {}
        BY <1>3, <2>3, <4>2 DEF TakenOnce, FlushedOnce
      <4> QED
        BY <1>4, <4>3, <4>4
    <3> QED
      BY <1>7, <3>1, <3>2 DEF AddDeadLetter
  <2>4. failed' \subseteq 1..flush
    BY <1>3, <1>7 DEF LettersTrue
  <2>5. FailedFlushOnRecord'
    <3>1. deadLetters \subseteq deadLetters'
      BY <2>1
    <3> QED
      BY <1>1, <1>2, <1>7, <2>3, <3>1 DEF LettersTrue, FailedFlushOnRecord, Remembered
  <2>6. LettersTrue'
    BY <1>1, <1>2, <2>2, <2>4, <2>5 DEF LettersTrue
  <2> QED
    BY <2>3, <2>6
<1> QED
  BY <1>6, <1>7 DEF DeadLetterFlush

TakenInv == Base /\ Memory /\ TakenOnce /\ LettersTrue

LEMMA InitTaken ==
    ASSUME Init
    PROVE  TakenInv
<1>1. Base
  BY InitBase
<1>2. Elems(buffer) = {} /\ NoDup(buffer) /\ 1..flush = {}
  BY ElemsEmpty DEF Init
<1>3. Memory /\ TakenOnce
  BY <1>2 DEF Memory, TakenOnce, FlushedOnce
<1>4. LettersTrue
  BY DEF Init, LettersTrue, FailedFlushOnRecord
<1> QED
  BY <1>1, <1>3, <1>4 DEF TakenInv

LEMMA NextTakenInv ==
    ASSUME TakenInv, [Next]_vars
    PROVE  TakenInv'
<1>1. Base /\ Memory /\ TakenOnce /\ LettersTrue
  BY DEF TakenInv
<1>2. LettersTrue'
  BY <1>1, StepKinds, QuietLetters, BeginFlushLetters, DeadLetterLetters
<1> QED
  BY <1>1, <1>2, NextBase, NextTaken DEF TakenInv

(* However often a run fails, each failed flush has its own dead letter    *)
(* with all of its turns, as long as no turn is flushed that the run has   *)
(* forgotten (_dead_letter_flush, dedup_key).                              *)
THEOREM FailuresAreRecorded == Spec => []FailedFlushOnRecord
<1>1. TakenInv => FailedFlushOnRecord
  BY DEF TakenInv, LettersTrue
<1> QED
  BY <1>1, InitTaken, NextTakenInv, PTL DEF Spec

-----------------------------------------------------------------------------
(* A turn is stored once.                                                  *)

StoreInv == KeptOfBatch /\ StoresAtHand /\ RowsTrue

(* A step that does not touch the flush at hand, its stores or the rows. *)
Aside ==
    /\ UNCHANGED <<run, phase, flush, batch, runOf, kept, task, got, staged, row, chunks, left>>
    /\ Remembered' => Remembered

(* A step that begins or ends a flush, or fails it, outside of its stores. *)
Between ==
    /\ phase # "store"
    /\ phase' \in {"closed", "tenant", "wait", "finalize", "deadLetter"}
    /\ UNCHANGED <<flush, batch, runOf, task, row, chunks, left>>
    /\ Remembered' => Remembered

LEMMA AsideStores ==
    ASSUME StoreInv, Aside
    PROVE  StoreInv'
<1>1. UNCHANGED <<run, phase, flush, batch, runOf, kept, task, got, staged, row, chunks, left>>
  BY DEF Aside
<1>2. KeptOfBatch'
  BY <1>1 DEF StoreInv, KeptOfBatch
<1>3. StoresAtHand'
  BY <1>1 DEF StoreInv, StoresAtHand, Rows
<1>4. RowsTrue'
  BY <1>1 DEF StoreInv, RowsTrue, Rows, Aside
<1> QED
  BY <1>2, <1>3, <1>4 DEF StoreInv

LEMMA BetweenStores ==
    ASSUME StoreInv, Between
    PROVE  StoreInv'
<1>1. /\ phase # "store" /\ UNCHANGED <<flush, batch, runOf, task, row, chunks, left>>
      /\ phase' \notin {"redact", "chunk", "store", "stats", "cleanup"}
  BY DEF Between
<1>2. KeptOfBatch'
  BY <1>1 DEF KeptOfBatch
<1>3. StoresAtHand'
  BY <1>1 DEF StoreInv, StoresAtHand, Rows
<1>4. RowsTrue'
  BY <1>1 DEF StoreInv, RowsTrue, Rows, Between
<1> QED
  BY <1>2, <1>3, <1>4 DEF StoreInv

LEMMA BeginFlushStores ==
    ASSUME Base, StoreInv, BeginFlush
    PROVE  StoreInv'
<1>1. /\ flush' = flush + 1
      /\ \A g \in 1..flush :
            g # flush + 1 /\ g \in 1..(flush + 1) /\ batch'[g] = batch[g] /\ runOf'[g] = runOf[g]
      /\ phase = "wait" /\ phase' = "redact"
      /\ UNCHANGED <<task, row, chunks, left, signals>>
  BY BeginFlushDoes
<1>2. KeptOfBatch'
  BY <1>1 DEF KeptOfBatch
<1>3. StoresAtHand'
  BY <1>1 DEF StoreInv, StoresAtHand, Rows
<1>4. RowsTrue'
  <2>1. SUFFICES ASSUME Remembered', ~left'
                 PROVE  /\ \A i \in Rows(chunks) : \E g \in 1..flush' :
                              /\ runOf'[g] = row.run /\ chunks[i] \in Elems(batch'[g])
                              /\ g = flush' => phase' \notin {"redact", "chunk"}
                        /\ \A i, j \in Rows(chunks) : chunks[i] = chunks[j] => i = j
    BY <1>1 DEF RowsTrue, Rows
  <2>2. /\ \A i \in Rows(chunks) : \E g \in 1..flush :
               runOf[g] = row.run /\ chunks[i] \in Elems(batch[g])
        /\ \A i, j \in Rows(chunks) : chunks[i] = chunks[j] => i = j
    BY <1>1, <2>1 DEF StoreInv, RowsTrue, Remembered
  <2> QED
    BY <1>1, <2>2
<1> QED
  BY <1>2, <1>3, <1>4 DEF StoreInv

(* Redaction leaves turns of the batch; none of them is in a row yet. *)
LEMMA RedactStores ==
    ASSUME Base, StoreInv, Redact
    PROVE  StoreInv'
<1>1. /\ phase = "redact" /\ Flushing
      /\ UNCHANGED <<runOf, task, got, staged, row, chunks, signals, left>>
  BY RedactDoes
<1>2. PICK good \in Seq(Turns) :
          /\ Len(good) <= Len(batch[flush]) /\ Elems(good) \subseteq Elems(batch[flush])
          /\ NoDup(batch[flush]) => NoDup(good)
          /\ FlushReturns \/ (kept' = good /\ Await("chunk"))
  BY RedactDoes
<1>3. CASE FlushReturns
  <2>1. phase' \in {"wait", "finalize"} /\ UNCHANGED <<flush, batch>>
    BY <1>1, <1>3, FlushReturnsTo
  <2> QED
    BY <1>1, <2>1, BetweenStores DEF Between, Remembered
<1>4. CASE kept' = good /\ Await("chunk")
  <2>1. phase' = "chunk" /\ UNCHANGED <<run, flush, batch>>
    BY <1>4 DEF Await
  <2>2. KeptOfBatch'
    BY <1>2, <1>4, <2>1 DEF KeptOfBatch
  <2>3. StoresAtHand'
    BY <1>1, <2>1 DEF StoreInv, StoresAtHand, Rows
  <2>4. RowsTrue'
    BY <1>1, <2>1 DEF StoreInv, RowsTrue, Rows, Remembered
  <2> QED
    BY <2>2, <2>3, <2>4 DEF StoreInv
<1> QED
  BY <1>2, <1>3, <1>4

LEMMA ChunkStores ==
    ASSUME TakenInv, StoreInv, Chunk
    PROVE  StoreInv'
<1>1. Base /\ TakenOnce /\ KeptOfBatch /\ StoresAtHand /\ RowsTrue
  BY DEF TakenInv, StoreInv
<1>2. phase = "chunk" /\ Flushing /\ UNCHANGED <<kept, runOf, got, row, chunks, signals, left>>
  BY DEF Chunk, Flushing, tables
<1>3. /\ flush \in Flushes /\ flush \in 1..flush /\ runOf[flush] = run /\ run \in Runs
      /\ staged \in [Runs -> Chunks] /\ task \in [Flushes -> [Stores -> TaskStates]]
  BY <1>1, <1>2, ConversationAssumption DEF Base, FlushAtHand, TypeOK, Flushes, Flushing, TaskStates
<1>4. CASE /\ Stage /\ Await("store")
           /\ task' = [task EXCEPT ![flush] = [s \in Stores |-> "queued"]]
  <2>1. phase' = "store" /\ UNCHANGED <<run, flush, batch>>
    BY <1>4 DEF Await
  <2>2. staged'[run].turns = kept
    BY <1>3, <1>4 DEF Stage
  <2>3. /\ task'[flush]["pg"] = "queued"
        /\ \A f \in Flushes : f # flush => task'[f] = task[f]
    BY <1>3, <1>4 DEF Stores
  <2>4. KeptOfBatch'
    BY <1>1, <1>2, <2>1 DEF KeptOfBatch
  <2>5. StoresAtHand'
    BY <1>1, <1>2, <2>1, <2>2, <2>3 DEF StoresAtHand, Rows
  <2>6. RowsTrue'
    <3>1. SUFFICES ASSUME Remembered, ~left
                   PROVE  RowsTrue'
      BY <1>2 DEF RowsTrue, Remembered
    <3>2. \A i \in Rows(chunks) : \E g \in 1..flush :
              runOf[g] = row.run /\ chunks[i] \in Elems(batch[g]) /\ g # flush
      BY <1>1, <1>2, <3>1 DEF RowsTrue
    <3>3. Elems(kept) \subseteq Elems(batch[flush])
      BY <1>1, <1>2 DEF KeptOfBatch
    <3>4. ASSUME row.run = run, NEW i \in Rows(chunks), chunks[i] \in Elems(kept)
          PROVE  FALSE
      <4>1. PICK g \in 1..flush : runOf[g] = run /\ chunks[i] \in Elems(batch[g]) /\ g # flush
        BY <3>2, <3>4
      <4>2. Elems(batch[g]) \cap Elems(batch[flush]) = {}
        BY <1>1, <1>3, <3>1, <4>1 DEF TakenOnce, FlushedOnce
      <4> QED
        BY <3>3, <3>4, <4>1, <4>2
    <3> QED
      BY <1>1, <1>2, <2>1, <3>1, <3>2, <3>4 DEF RowsTrue, Rows
  <2> QED
    BY <2>4, <2>5, <2>6 DEF StoreInv
<1>5. CASE UNCHANGED <<run, phase, flush, batch, task>>
  <2>1. KeptOfBatch'
    BY <1>1, <1>2, <1>5 DEF KeptOfBatch
  <2>2. StoresAtHand'
    BY <1>1, <1>2, <1>5 DEF StoresAtHand, Rows
  <2>3. RowsTrue'
    BY <1>1, <1>2, <1>5 DEF RowsTrue, Rows, Remembered
  <2> QED
    BY <2>1, <2>2, <2>3 DEF StoreInv
<1>6. CASE Await("deadLetter") /\ UNCHANGED task
  BY <1>2, <1>6, BetweenStores DEF Between, Await, Remembered
<1> QED
  BY <1>4, <1>5, <1>6 DEF Chunk

LEMMA StoresReturnStores ==
    ASSUME Base, StoreInv, StoresReturn
    PROVE  StoreInv'
<1>1. KeptOfBatch /\ StoresAtHand /\ RowsTrue
  BY DEF StoreInv
<1>2. phase = "store" /\ UNCHANGED <<kept, runOf, task, got, staged, row, chunks, signals>>
  BY DEF StoresReturn, activities, tables
<1>3. phase' \in {"stats", "deadLetter"} /\ UNCHANGED <<run, flush, batch>>
  BY DEF StoresReturn, Await
<1>8. ~left' => ~left
  BY Zenon DEF StoresReturn
<1>4. ~left' => \A s \in Stores : task[flush][s] \notin {"queued", "read"}
  BY DEF StoresReturn
<1>5. KeptOfBatch'
  BY <1>1, <1>2, <1>3 DEF KeptOfBatch
<1>6. StoresAtHand'
  BY <1>1, <1>2, <1>3, <1>4, <1>8 DEF StoresAtHand, Rows
<1>7. RowsTrue'
  BY <1>1, <1>2, <1>3, <1>8 DEF RowsTrue, Rows, Remembered
<1> QED
  BY <1>5, <1>6, <1>7 DEF StoreInv

LEMMA UpdateStatsStores ==
    ASSUME Base, StoreInv, UpdateStats
    PROVE  StoreInv'
<1>1. KeptOfBatch /\ StoresAtHand /\ RowsTrue
  BY DEF StoreInv
<1>2. phase = "stats" /\ UNCHANGED <<kept, runOf, task, got, staged, row, chunks, signals, left>>
  BY DEF UpdateStats, activities, tables
<1>3. phase' \in {"cleanup", "deadLetter"} /\ UNCHANGED <<run, flush, batch>>
  BY DEF UpdateStats, Await
<1>4. KeptOfBatch'
  BY <1>1, <1>2, <1>3 DEF KeptOfBatch
<1>5. StoresAtHand'
  BY <1>1, <1>2, <1>3 DEF StoresAtHand, Rows
<1>6. RowsTrue'
  BY <1>1, <1>2, <1>3 DEF RowsTrue, Rows, Remembered
<1> QED
  BY <1>4, <1>5, <1>6 DEF StoreInv

(* The chunks that an attempt of the flush at hand has read are the staged *)
(* ones.                                                                   *)
LEMMA BeginStoreStores ==
    ASSUME Base, StoreInv, NEW f \in Flushes, NEW s \in Stores, BeginStore(f, s)
    PROVE  StoreInv'
<1>1. KeptOfBatch /\ StoresAtHand /\ RowsTrue /\ TypeOK /\ FlushAtHand
  BY DEF StoreInv, Base
<1>2. /\ UNCHANGED <<run, phase, flush, batch, kept, runOf, staged, row, chunks, signals, left>>
      /\ task[f][s] = "queued"
  BY DEF BeginStore, workflow, tables
<1>3. PICK v \in {"superseded", "read"} :
          /\ SetTask(f, s, v)
          /\ \/ v = "superseded" /\ got' = got
             \/ got' = [got EXCEPT ![f][s] = staged[runOf[f]]]
  BY DEF BeginStore
<1>4. v \in TaskStates /\ v # "none"
  BY DEF TaskStates
<1>5. /\ task'[f][s] = v
      /\ \A g \in Flushes, z \in Stores : g # f \/ z # s => task'[g][z] = task[g][z]
  BY <1>1, <1>2, <1>3, <1>4, SetTaskOne
<1>6. KeptOfBatch'
  BY <1>1, <1>2 DEF KeptOfBatch
<1>7. ASSUME phase = "store", task'[flush]["pg"] = "read"
      PROVE  got'[flush]["pg"] = staged[run]
  <2>1. flush \in Flushes /\ runOf[flush] = run /\ "pg" \in Stores
    BY <1>1, <1>7 DEF FlushAtHand, Flushing, Stores
  <2>2. CASE f = flush /\ s = "pg"
    <3>1. got' = [got EXCEPT ![f] = [got[f] EXCEPT ![s] = staged[runOf[f]]]]
      BY <1>3, <1>5, <1>7, <2>2
    <3>2. got[f] \in [Stores -> Chunks] /\ got \in [Flushes -> [Stores -> Chunks]]
      BY <1>1 DEF TypeOK
    <3>3. got'[f][s] = staged[runOf[f]]
      BY <3>1, <3>2
    <3> QED
      BY <2>1, <2>2, <3>3
  <2>3. CASE f # flush \/ s # "pg"
    <3>1. task[flush]["pg"] = "read"
      BY <1>5, <1>7, <2>1, <2>3
    <3>2. got[flush]["pg"] = staged[run]
      BY <1>1, <1>7, <3>1 DEF StoresAtHand
    <3>3. got'[flush]["pg"] = got[flush]["pg"]
      <4>1. CASE got' = got
        BY <4>1
      <4>2. CASE got' = [got EXCEPT ![f][s] = staged[runOf[f]]]
        BY <1>1, <2>1, <2>3, <4>2 DEF TypeOK
      <4> QED
        BY <1>3, <4>1, <4>2
    <3> QED
      BY <3>2, <3>3
  <2> QED
    BY <2>2, <2>3
<1>8. StoresAtHand'
  <2>1. \A g \in Flushes, z \in Stores :
            task'[g][z] \in {"queued", "read"} => task[g][z] \in {"queued", "read"}
    BY <1>2, <1>5
  <2> QED
    BY <1>1, <1>2, <1>7, <2>1 DEF StoresAtHand, Rows
<1>9. RowsTrue'
  BY <1>1, <1>2 DEF RowsTrue, Rows, Remembered
<1> QED
  BY <1>6, <1>8, <1>9 DEF StoreInv

LEMMA StoreEndsStores ==
    ASSUME Base, StoreInv, NEW f \in Flushes,
           StoreInWeaviate(f) \/ \E s \in Stores : StoreGivesUp(f, s)
    PROVE  StoreInv'
<1>1. KeptOfBatch /\ StoresAtHand /\ RowsTrue /\ TypeOK /\ FlushAtHand
  BY DEF StoreInv, Base
<1>2. UNCHANGED <<run, phase, flush, batch, kept, runOf, got, staged, row, chunks, signals, left>>
  BY DEF StoreInWeaviate, StoreGivesUp, workflow, tables
<1>3. PICK s \in Stores, v \in {"ok", "queued", "failed"} :
          SetTask(f, s, v) /\ task[f][s] \in {"queued", "read"}
  BY DEF StoreInWeaviate, StoreGivesUp, Stores
<1>4. v \in TaskStates /\ v # "none" /\ task[f][s] # "none"
  BY <1>3 DEF TaskStates
<1>5. /\ task'[f][s] = v
      /\ \A g \in Flushes, z \in Stores : g # f \/ z # s => task'[g][z] = task[g][z]
  BY <1>1, <1>3, <1>4, SetTaskOne
<1>6. \A g \in Flushes, z \in Stores :
          /\ task'[g][z] \in {"queued", "read"} => task[g][z] \in {"queued", "read"}
          /\ task'[g][z] = "read" => task[g][z] = "read"
  BY <1>3, <1>5
<1>7. KeptOfBatch'
  BY <1>1, <1>2 DEF KeptOfBatch
<1>8. StoresAtHand'
  <2>1. phase = "store" => flush \in Flushes /\ "pg" \in Stores
    BY <1>1 DEF FlushAtHand, Flushing, Stores
  <2> QED
    BY <1>1, <1>2, <1>6, <2>1 DEF StoresAtHand, Rows
<1>9. RowsTrue'
  BY <1>1, <1>2 DEF RowsTrue, Rows, Remembered
<1> QED
  BY <1>7, <1>8, <1>9 DEF StoreInv

(* What a commit does, as long as gather has left no store behind: the     *)
(* staged chunks of the flush at hand get the rows that have no turn.      *)
LEMMA CommitDoes ==
    ASSUME Base, StoreInv, ~left, NEW f \in Flushes, StoreInPostgresql(f), row' # row \/ chunks' # chunks
    PROVE  /\ f = flush /\ phase = "store" /\ staged[run] \in Chunks /\ staged[run].turns = kept
           /\ row.run \in {NoRun, run}
           /\ row'.run = run /\ runOf[flush] = run /\ flush \in 1..flush
           /\ \A i \in Indexes :
                 chunks'[i] = IF TurnAt(staged[run], i) # NoTurn /\ chunks[i] = NoTurn
                              THEN TurnAt(staged[run], i) ELSE chunks[i]
<1>1. task[f]["pg"] = "read"
  BY DEF StoreInPostgresql
<1>2. f = flush /\ phase = "store"
  BY <1>1 DEF StoreInv, StoresAtHand, Stores
<1>3. got[f]["pg"] = staged[run] /\ staged[run].turns = kept
  BY <1>1, <1>2 DEF StoreInv, StoresAtHand
<1>4. runOf[f] = run /\ run \in Runs /\ flush \in 1..flush
  BY <1>2, ConversationAssumption DEF Base, FlushAtHand, Flushing, Flushes
<1>5. staged[run] \in Chunks
  BY <1>4 DEF Base, TypeOK
<1>6. IsActiveRun(run) /\ StoreProcessedDocument(run, staged[run])
  BY <1>3, <1>4 DEF StoreInPostgresql, tables
<1>7. row'.run = run
  BY <1>6 DEF StoreProcessedDocument
<1>8. \A i \in Indexes :
          chunks'[i] = IF TurnAt(staged[run], i) # NoTurn /\ chunks[i] = NoTurn
                       THEN TurnAt(staged[run], i) ELSE chunks[i]
  BY <1>6 DEF StoreProcessedDocument
<1> QED
  BY <1>2, <1>3, <1>4, <1>5, <1>6, <1>7, <1>8 DEF IsActiveRun

LEMMA CommitStores ==
    ASSUME TakenInv, StoreInv, NEW f \in Flushes, StoreInPostgresql(f)
    PROVE  StoreInv'
<1>1. /\ Base /\ TakenOnce /\ KeptOfBatch /\ StoresAtHand /\ RowsTrue /\ TypeOK /\ TypeOK'
      /\ FlushAtHand
  BY NextBase DEF StoreInv, TakenInv, Base, Next, StoreStep
<1>2. UNCHANGED <<run, phase, flush, batch, kept, runOf, got, staged, signals, left>>
  BY DEF StoreInPostgresql, workflow
<1>3. PICK v \in {"ok", "queued", "superseded"} :
          SetTask(f, "pg", v) /\ task[f]["pg"] = "read"
  BY DEF StoreInPostgresql
<1>4. v \in TaskStates /\ v # "none" /\ task[f]["pg"] # "none" /\ "pg" \in Stores
  BY <1>3 DEF TaskStates, Stores
<1>5. /\ task'[f]["pg"] = v
      /\ \A g \in Flushes, z \in Stores : g # f \/ z # "pg" => task'[g][z] = task[g][z]
  BY <1>1, <1>3, <1>4, SetTaskOne
<1>6. \A g \in Flushes, z \in Stores :
          /\ task'[g][z] \in {"queued", "read"} => task[g][z] \in {"queued", "read"}
          /\ task'[g][z] = "read" => task[g][z] = "read"
  BY <1>3, <1>5
<1>7. KeptOfBatch'
  BY <1>1, <1>2 DEF KeptOfBatch
<1>8. StoresAtHand'
  <2>1. phase = "store" => flush \in Flushes /\ "pg" \in Stores
    BY <1>1 DEF FlushAtHand, Flushing, Stores
  <2>2. row'.run = NoRun => Rows(chunks') = {}
    <3>1. CASE row' = row /\ chunks' = chunks
      BY <1>1, <3>1 DEF StoresAtHand, Rows
    <3>2. CASE StoreProcessedDocument(runOf[f], got[f]["pg"])
      <4>1. f \in 1..flush
        <5>1. f <= flush
          BY <1>1, <1>4 DEF FlushAtHand
        <5>2. flush \in Nat /\ MaxSignals \in Nat
          BY <1>1, ConversationAssumption DEF TypeOK
        <5> QED
          BY <5>1, <5>2 DEF Flushes
      <4>2. row'.run = runOf[f]
        BY <3>2 DEF StoreProcessedDocument
      <4>3. runOf[f] \in 1..run /\ run \in Nat
        BY <1>1, <4>1, ConversationAssumption DEF FlushAtHand, TypeOK
      <4> QED
        BY <4>2, <4>3 DEF NoRun
    <3> QED
      BY <3>1, <3>2 DEF StoreInPostgresql, tables
  <2> QED
    BY <1>1, <1>2, <1>6, <2>1, <2>2 DEF StoresAtHand
<1>9. RowsTrue'
  <2>1. CASE row' = row /\ chunks' = chunks
    BY <1>1, <1>2, <2>1 DEF RowsTrue, Rows, Remembered
  <2>2. CASE row' # row \/ chunks' # chunks
    <3>1. SUFFICES ASSUME Remembered, ~left
                   PROVE  RowsTrue'
      BY <1>2 DEF RowsTrue, Remembered
    <3>2. /\ phase = "store" /\ staged[run] \in Chunks /\ staged[run].turns = kept
          /\ row.run \in {NoRun, run} /\ row'.run = run
          /\ runOf[flush] = run /\ flush \in 1..flush
          /\ \A i \in Indexes :
                chunks'[i] = IF TurnAt(staged[run], i) # NoTurn /\ chunks[i] = NoTurn
                             THEN TurnAt(staged[run], i) ELSE chunks[i]
      BY <1>1, <2>2, <3>1, CommitDoes DEF StoreInv
    <3>3. PICK c \in Chunks : c = staged[run]
      BY <3>2
    <3>4. NoDup(c.turns) /\ Elems(c.turns) \subseteq Elems(batch[flush])
      BY <1>1, <3>1, <3>2, <3>3 DEF KeptOfBatch, TakenOnce
    <3>5. ASSUME NEW i \in Rows(chunks')
          PROVE  /\ i \in Indexes
                 /\ \/ i \in Rows(chunks) /\ chunks'[i] = chunks[i] /\ row.run = run
                    \/ i \notin Rows(chunks) /\ chunks'[i] = TurnAt(c, i) /\ TurnAt(c, i) # NoTurn
      <4>1. i \in Indexes /\ chunks'[i] # NoTurn
        BY DEF Rows
      <4>2. CASE chunks[i] = NoTurn
        BY <3>2, <3>3, <4>1, <4>2 DEF Rows
      <4>3. CASE chunks[i] # NoTurn
        <5>1. i \in Rows(chunks) /\ chunks'[i] = chunks[i]
          BY <3>2, <4>1, <4>3 DEF Rows
        <5>2. row.run # NoRun
          BY <1>1, <5>1 DEF StoresAtHand
        <5> QED
          BY <3>2, <4>1, <5>1, <5>2
      <4> QED
        BY <4>2, <4>3
    <3>6. \A i \in Rows(chunks) : row.run = run /\ chunks[i] \in Elems(c.turns) =>
              chunks[i] = TurnAt(c, i)
      BY <1>1, <3>1, <3>2, <3>3 DEF RowsTrue
    <3>7. ASSUME NEW i \in Rows(chunks')
          PROVE  \E g \in 1..flush : runOf[g] = run /\ chunks'[i] \in Elems(batch[g])
      <4>1. CASE i \in Rows(chunks) /\ chunks'[i] = chunks[i] /\ row.run = run
        BY <1>1, <3>1, <4>1 DEF RowsTrue
      <4>2. CASE chunks'[i] = TurnAt(c, i) /\ TurnAt(c, i) # NoTurn
        <5>1. chunks'[i] \in Elems(c.turns)
          BY <3>5, <4>2, TurnAtType
        <5> QED
          BY <3>2, <3>4, <5>1
      <4> QED
        BY <3>5, <4>1, <4>2
    <3>8. ASSUME NEW i \in Rows(chunks'), chunks'[i] \in Elems(c.turns)
          PROVE  chunks'[i] = TurnAt(c, i)
      BY <3>5, <3>6, <3>8
    <3>9. ASSUME NEW i \in Rows(chunks'), NEW j \in Rows(chunks'), chunks'[i] = chunks'[j]
          PROVE  i = j
      <4>1. CASE i \in Rows(chunks) /\ j \in Rows(chunks)
        <5>1. chunks[i] = chunks[j]
          BY <3>5, <3>9, <4>1
        <5> QED
          BY <1>1, <3>1, <4>1, <5>1 DEF RowsTrue
      <4>2. CASE i \notin Rows(chunks) \/ j \notin Rows(chunks)
        <5>1. i \in Indexes /\ j \in Indexes
          BY <3>5
        <5>2. chunks'[i] # NoTurn
          BY DEF Rows
        <5>3. chunks'[i] \in Elems(c.turns)
          <6>1. CASE i \notin Rows(chunks)
            BY <3>5, <5>1, <6>1, TurnAtType
          <6>2. CASE j \notin Rows(chunks)
            <7>1. chunks'[j] \in Elems(c.turns)
              BY <3>5, <5>1, <6>2, TurnAtType
            <7> QED
              BY <3>9, <7>1
          <6> QED
            BY <4>2, <6>1, <6>2
        <5>4. chunks'[i] = TurnAt(c, i) /\ chunks'[j] = TurnAt(c, j)
          BY <3>8, <3>9, <5>3
        <5> QED
          BY <3>4, <3>9, <5>1, <5>2, <5>4, TurnAtOnce
      <4> QED
        BY <4>1, <4>2
    <3> QED
      BY <1>2, <3>1, <3>2, <3>3, <3>7, <3>8, <3>9 DEF RowsTrue
  <2> QED
    BY <2>1, <2>2
<1> QED
  BY <1>7, <1>8, <1>9 DEF StoreInv

LEMMA DeleteRowStores ==
    ASSUME StoreInv, DeleteRow
    PROVE  StoreInv'
<1>1. KeptOfBatch /\ StoresAtHand /\ RowsTrue
  BY DEF StoreInv
<1>2. UNCHANGED <<run, phase, flush, batch, runOf, kept, task, got, staged, signals, left>>
  BY DEF DeleteRow, workflow, activities
<1>3. CASE UNCHANGED <<row, chunks>>
  BY <1>2, <1>3, AsideStores DEF Aside, Remembered
<1>4. CASE row' = [run |-> NoRun, count |-> 0] /\ chunks' = [i \in Indexes |-> NoTurn]
  <2>1. Rows(chunks') = {}
    BY <1>4 DEF Rows
  <2>2. KeptOfBatch'
    BY <1>1, <1>2 DEF KeptOfBatch
  <2>3. StoresAtHand'
    BY <1>1, <1>2, <2>1 DEF StoresAtHand
  <2>4. RowsTrue'
    BY <1>1, <1>2, <2>1 DEF RowsTrue
  <2> QED
    BY <2>2, <2>3, <2>4 DEF StoreInv
<1> QED
  BY <1>3, <1>4 DEF DeleteRow, tables

(* The steps that are aside of the flush at hand, or between two. *)
LEMMA OtherSteps ==
    ASSUME Base, \/ UNCHANGED vars \/ \E t \in Turns : Signal(t)
                 \/ Close \/ TenantReady \/ Idle \/ Finalize
                 \/ RedactFails \/ Cleanup \/ DeadLetterFlush \/ DeleteVectors
    PROVE  Aside \/ Between
<1>1. CASE UNCHANGED vars \/ Close \/ DeleteVectors
  <2>1. UNCHANGED <<run, phase, flush, batch, runOf, kept, task, got, staged, row, chunks, left, signals>>
    BY <1>1 DEF vars, Close, DeleteVectors, workflow, activities, tables
  <2> QED
    BY <2>1 DEF Aside, Remembered
<1>2. CASE \E t \in Turns : Signal(t)
  <2>1. PICK t \in Turns : Signal(t)
    BY <1>2
  <2>2. /\ UNCHANGED <<flush, batch, kept, runOf, task, got, staged, row, chunks, left>>
        /\ signals' = signals + 1 /\ signals \in Nat
    BY <2>1, SignalDoes
  <2>3. UNCHANGED <<run, phase>> \/ (phase = "closed" /\ phase' = "tenant")
    BY <2>1, SignalDoes
  <2>4. Remembered' => Remembered
    BY <2>2, ConversationAssumption DEF Remembered
  <2> QED
    BY <2>2, <2>3, <2>4 DEF Aside, Between
<1>3. CASE TenantReady \/ Idle \/ Finalize \/ RedactFails
  BY <1>3 DEF TenantReady, Idle, Finalize, RedactFails, EndRun, Await, Between, Remembered,
              activities, tables
<1>4. CASE Cleanup \/ DeadLetterFlush
  <2>1. /\ FlushReturns /\ Flushing /\ phase # "store"
        /\ UNCHANGED <<runOf, task, row, chunks, left, signals>>
    BY <1>4 DEF Cleanup, DeadLetterFlush, Flushing, activities, tables
  <2> QED
    BY <2>1, FlushReturnsTo DEF Between, Remembered
<1> QED
  BY <1>1, <1>2, <1>3, <1>4

LEMMA NextStores ==
    ASSUME TakenInv, StoreInv, [Next]_vars
    PROVE  StoreInv'
<1>1. Base
  BY DEF TakenInv
<1>2. CASE \/ UNCHANGED vars \/ \E t \in Turns : Signal(t)
           \/ Close \/ TenantReady \/ Idle \/ Finalize
           \/ RedactFails \/ Cleanup \/ DeadLetterFlush \/ DeleteVectors
  <2>1. Aside \/ Between
    BY <1>1, <1>2, OtherSteps
  <2> QED
    BY <2>1, AsideStores, BetweenStores
<1>3. CASE BeginFlush \/ Redact \/ Chunk \/ StoresReturn \/ UpdateStats
  BY <1>1, <1>3, BeginFlushStores, RedactStores, ChunkStores, StoresReturnStores,
     UpdateStatsStores
<1>4. CASE \E f \in Flushes : StoreStep(f)
  BY <1>1, <1>4, BeginStoreStores, StoreEndsStores, CommitStores DEF StoreStep
<1>5. CASE DeleteRow
  BY <1>5, DeleteRowStores
<1> QED
  BY <1>2, <1>3, <1>4, <1>5 DEF Next, FlushStep

LEMMA InitStores ==
    ASSUME Init
    PROVE  StoreInv
<1>1. Rows(chunks) = {}
  BY DEF Init, Rows
<1>2. phase = "closed" /\ \A f \in Flushes, s \in Stores : task[f][s] = "none"
  BY DEF Init
<1> QED
  BY <1>1, <1>2 DEF StoreInv, KeptOfBatch, StoresAtHand, RowsTrue

(* A turn is in one batch of a run and in one row of the table, though     *)
(* turns are delivered again and attempts are repeated after their commit  *)
(* (add_turn, chunk_conversation, store_processed_document).               *)
THEOREM TurnsAreTakenOnce == Spec => []AtMostOnce
<1>1. TakenInv /\ StoreInv => AtMostOnce
  BY DEF TakenInv, StoreInv, TakenOnce, RowsTrue, AtMostOnce, StoredOnce
<1> QED
  BY <1>1, InitTaken, InitStores, NextTakenInv, NextStores, PTL DEF Spec

-----------------------------------------------------------------------------
(* No turn is lost without a record.                                       *)

LEMMA NextTraces ==
    ASSUME Base, Traces, [Next]_vars
    PROVE  Traces'
<1>1. /\ run = 0 => accepted = {}
      /\ deleting => deletes > 0
      /\ logged \subseteq 1..flush
      /\ flush \in Nat /\ run \in Nat /\ deletes \in Nat
      /\ phase # "closed" => run # 0
  BY ConversationAssumption DEF Traces, Base, TypeOK, FlushAtHand, Runs
<1>2. CASE \E t \in Turns : Signal(t)
  <2>1. PICK t \in Turns : Signal(t)
    BY <1>2
  <2>2. UNCHANGED <<flush, logged, deleting, deletes>>
    BY <2>1, SignalDoes
  <2>3. run' # 0
    BY <1>1, <2>1, SignalDoes
  <2> QED
    BY <1>1, <2>2, <2>3 DEF Traces
<1>3. CASE BeginFlush
  <2>1. /\ flush' = flush + 1 /\ UNCHANGED <<run, accepted, logged, deleting, deletes>>
        /\ \A g \in 1..flush : g \in 1..(flush + 1)
    BY <1>3, BeginFlushDoes
  <2> QED
    BY <1>1, <2>1 DEF Traces
<1>4. CASE DeadLetterFlush
  <2>1. /\ Flushing /\ FlushReturns /\ UNCHANGED <<accepted, deleting, deletes>>
        /\ logged' \subseteq logged \cup {flush}
    BY <1>4 DEF DeadLetterFlush, Flushing, requests
  <2>2. flush' = flush /\ run' \in Runs /\ flush \in 1..flush
    BY <2>1, FlushReturnsTo, ConversationAssumption DEF Base, FlushAtHand, Flushes
  <2>3. run' # 0
    BY <2>2 DEF Runs
  <2> QED
    BY <1>1, <2>1, <2>2, <2>3 DEF Traces
<1>5. CASE Redact \/ Cleanup
  <2>1. UNCHANGED <<accepted, deleting, deletes, logged>> /\ Flushing
    BY <1>5, RedactDoes DEF Cleanup, records, requests, Flushing
  <2>2. run \in Runs
    BY <2>1 DEF Base, FlushAtHand, Flushing
  <2>3. CASE FlushReturns
    <3>1. flush' = flush /\ run' \in Runs
      BY <2>1, <2>3, FlushReturnsTo
    <3>2. run' # 0
      BY <3>1 DEF Runs
    <3> QED
      BY <1>1, <2>1, <3>1, <3>2 DEF Traces
  <2>4. CASE Await("chunk")
    <3>1. run' = run /\ flush' = flush
      BY <2>4 DEF Await
    <3> QED
      BY <1>1, <2>1, <3>1 DEF Traces
  <2> QED
    BY <1>5, <2>3, <2>4, RedactDoes DEF Cleanup
<1>6. CASE UNCHANGED <<run, accepted, logged, flush, deleting, deletes>>
  BY <1>1, <1>6 DEF Traces
<1>7. CASE DeleteVectors \/ DeleteRow
  <2>1. UNCHANGED <<run, accepted, logged, flush>> /\ (deleting' => deletes' = deletes + 1)
    BY <1>7 DEF DeleteVectors, DeleteRow, workflow, records
  <2> QED
    BY <1>1, <2>1 DEF Traces
<1>8. CASE UNCHANGED vars \/ Close \/ TenantReady \/ Idle \/ Finalize
  <2>1. UNCHANGED <<run, accepted, logged, flush, deleting, deletes>>
    BY <1>8 DEF vars, Close, TenantReady, Idle, Finalize, EndRun, workflow, records, requests
  <2> QED
    BY <1>6, <2>1
<1>9. CASE RedactFails \/ Chunk \/ StoresReturn \/ UpdateStats
  <2>1. UNCHANGED <<run, accepted, logged, flush, deleting, deletes>>
    BY <1>9 DEF RedactFails, Chunk, StoresReturn, UpdateStats, Await, records, requests
  <2> QED
    BY <1>6, <2>1
<1>10. CASE \E f \in Flushes : StoreStep(f)
  <2>1. UNCHANGED <<workflow, accepted, records, requests>>
    BY <1>10 DEF StoreStep, BeginStore, StoreGivesUp, StoreInPostgresql, StoreInWeaviate
  <2> QED
    BY <1>6, <2>1 DEF workflow, records, requests
<1> QED
  BY <1>2, <1>3, <1>4, <1>5, <1>7, <1>8, <1>9, <1>10 DEF Next, FlushStep

(* The rows and the records only grow. *)
Grows ==
    /\ UNCHANGED <<flush, batch>>
    /\ \A i \in Indexes : chunks[i] # NoTurn => chunks'[i] = chunks[i]
    /\ dropped \subseteq dropped' /\ deadLetters \subseteq deadLetters' /\ logged \subseteq logged'

LEMMA GrowsExplained ==
    ASSUME Grows, NEW t, Explained(t)
    PROVE  Explained(t)'
<1>1. t \in Stored => t \in Stored'
  BY DEF Grows, Stored, Rows
<1> QED
  BY <1>1 DEF Grows, Explained

LEMMA GrowsEnded ==
    ASSUME Grows, EndedExplained, \A f \in 1..flush : Ended(f)' => Ended(f)
    PROVE  EndedExplained'
  BY GrowsExplained DEF EndedExplained, Grows

(* The flush at hand ends. *)
LEMMA ReturnFollow ==
    ASSUME Base, FirstRun => Follow, Flushing, FlushReturns, Grows, FirstRun',
           UNCHANGED <<row, chunks, signals, accepted, deletes, left>>,
           FirstRun => \A t \in Elems(batch[flush]) : Explained(t)'
    PROVE  Follow'
<1>1. /\ phase' \in {"wait", "finalize"} /\ run \in Runs
      /\ (run' = run /\ buffer' = buffer) \/ run' = run + 1
  BY FlushReturnsTo DEF Base, FlushAtHand, Flushing
<1>2. run' = run /\ buffer' = buffer /\ run = 1
  BY <1>1 DEF FirstRun, Runs
<1>3. FirstRun
  BY <1>2 DEF FirstRun, Remembered, Flushing
<1>4. /\ AcceptedKept /\ EndedExplained /\ RowsFollow
      /\ \A t \in Elems(batch[flush]) : Explained(t)'
  BY <1>3 DEF Follow
<1>5. UNCHANGED <<flush, batch>>
  BY DEF Grows
<1>6. AcceptedKept'
  BY <1>2, <1>4, <1>5 DEF AcceptedKept
<1>7. EndedExplained'
  <2>1. SUFFICES ASSUME NEW f \in 1..flush, NEW t \in Elems(batch[f])
                 PROVE  Explained(t)'
    BY <1>5 DEF EndedExplained
  <2>2. CASE f = flush
    BY <1>4, <2>2
  <2>3. CASE f # flush
    <3>1. Explained(t)
      BY <1>4, <2>3 DEF EndedExplained, Ended
    <3> QED
      BY <3>1, GrowsExplained
  <2> QED
    BY <2>2, <2>3
<1>8. RowsFollow'
  BY <1>2, <1>4 DEF RowsFollow, Rows
<1> QED
  BY <1>1, <1>6, <1>7, <1>8 DEF Follow, BatchSplit, RoomToFlush, StagedFollow, KeptStored

(* A step within a flush that takes no turn and adds no row: what is left  *)
(* to show is what the next phase asks for.                                *)
LEMMA WithinFollow ==
    ASSUME Follow, UNCHANGED <<flush, batch, buffer, row, chunks, signals, accepted>>,
           dropped \subseteq dropped', UNCHANGED <<deadLetters, logged>>,
           Flushing => Flushing'
    PROVE  AcceptedKept' /\ EndedExplained' /\ RowsFollow'
<1>1. Grows
  BY DEF Grows
<1>2. \A f \in 1..flush : Ended(f)' => Ended(f)
  BY DEF Ended, Flushing
<1>3. AcceptedKept /\ EndedExplained /\ RowsFollow
  BY DEF Follow
<1>4. AcceptedKept' /\ RowsFollow'
  BY <1>3 DEF AcceptedKept, RowsFollow, Rows
<1> QED
  BY <1>1, <1>2, <1>3, <1>4, GrowsEnded

(* The first turn of the conversation: nothing is stored yet. *)
LEMMA FirstTurnFollow ==
    ASSUME Base, Traces, StoreInv, NEW t \in Turns, Signal(t), phase = "closed", FirstRun'
    PROVE  Follow'
<1> USE ConversationAssumption
<1>1. /\ run' = run + 1 /\ phase' = "tenant" /\ buffer' = <<t>> /\ accepted' = accepted \cup {t}
      /\ UNCHANGED <<flush, batch, row, chunks>> /\ signals' = signals + 1 /\ signals \in Nat
  BY SignalDoes
<1>2. run = 0 /\ accepted = {} /\ row.run = NoRun /\ flush \in Nat
  <2>1. run \in Nat /\ row.run \in Nat /\ row.run <= run /\ flush \in Nat
    BY DEF Base, TypeOK, FlushAtHand
  <2>2. run = 0
    BY <1>1, <2>1 DEF FirstRun
  <2> QED
    BY <2>1, <2>2 DEF Traces, NoRun
<1>3. flush = 0
  <2>1. \A g \in 1..flush : runOf[g] \in 1..0
    BY <1>2 DEF Base, FlushAtHand
  <2>2. 1 \in 1..flush => FALSE
    BY <2>1
  <2> QED
    BY <1>2, <2>2
<1>4. Rows(chunks) = {} /\ row.count = 0
  <2>1. Rows(chunks) = {}
    BY <1>2 DEF StoreInv, StoresAtHand
  <2> QED
    BY <2>1, FS_EmptySet DEF Base, CountExact
<1>5. Elems(buffer') = {t} /\ Len(buffer') = 1
  BY <1>1, ElemsSingle
<1>6. AcceptedKept'
  BY <1>1, <1>2, <1>5 DEF AcceptedKept
<1>7. EndedExplained'
  BY <1>1, <1>3 DEF EndedExplained
<1>8. RowsFollow'
  <2>1. Rows(chunks') = {} /\ row'.count = 0
    BY <1>1, <1>4
  <2>2. 0..(0 - 1) = {}
    OBVIOUS
  <2>3. 0 + 1 <= signals'
    BY <1>1
  <2> QED
    BY <1>5, <2>1, <2>2, <2>3 DEF RowsFollow
<1> QED
  BY <1>1, <1>6, <1>7, <1>8 DEF Follow, BatchSplit, RoomToFlush, StagedFollow, KeptStored

(* A further turn. *)
LEMMA NextTurnFollow ==
    ASSUME Base, FirstRun => Follow, NEW t \in Turns, Signal(t), phase # "closed", FirstRun'
    PROVE  Follow'
<1> USE ConversationAssumption
<1>1. /\ UNCHANGED <<run, phase, flush, batch, kept, task, staged, row, chunks>>
      /\ UNCHANGED <<dropped, deadLetters, logged, deletes, left>>
      /\ signals' = signals + 1 /\ signals \in Nat
  BY SignalDoes
<1>2. FirstRun
  BY <1>1 DEF FirstRun, Remembered
<1>3. Follow
  BY <1>2
<1>4. /\ Elems(buffer) \subseteq Elems(buffer') /\ Len(buffer') <= Len(buffer) + 1
      /\ Len(buffer) \in Nat /\ Len(buffer') \in Nat
      /\ accepted' \subseteq accepted \cup Elems(buffer')
  <2>1. buffer \in Seq(Turns) /\ Len(buffer) \in Nat
    BY DEF Base, TypeOK
  <2>2. CASE UNCHANGED <<buffer, accepted>>
    BY <2>1, <2>2
  <2>3. CASE buffer' = Append(buffer, t) /\ accepted' = accepted \cup {t}
    <3>1. Elems(buffer') = Elems(buffer) \cup {t} /\ Len(buffer') = Len(buffer) + 1
      BY <2>1, <2>3, ElemsAppend
    <3> QED
      BY <2>1, <2>3, <3>1
  <2> QED
    BY <2>2, <2>3, SignalDoes
<1>5. AcceptedKept'
  BY <1>1, <1>3, <1>4 DEF Follow, AcceptedKept
<1>6. EndedExplained'
  <2>1. Grows
    BY <1>1 DEF Grows
  <2>2. \A f \in 1..flush : Ended(f)' => Ended(f)
    BY <1>1 DEF Ended
  <2> QED
    BY <1>3, <2>1, <2>2, GrowsEnded DEF Follow
<1>7. BatchSplit' /\ KeptStored'
  BY <1>1, <1>3 DEF Follow, BatchSplit, KeptStored, Stored, Rows
<1>8. row.count \in Nat /\ (Flushing => Len(batch[flush]) \in Nat)
  BY DEF Base, TypeOK, FlushAtHand
<1>9. RowsFollow'
  <2>1. row.count + Len(buffer') <= signals + 1
    BY <1>1, <1>3, <1>4, <1>8 DEF Follow, RowsFollow
  <2> QED
    BY <1>1, <1>3, <2>1 DEF Follow, RowsFollow, Rows
<1>10. Flushing /\ row.count + Len(batch[flush]) + Len(buffer) <= signals =>
           row.count + Len(batch[flush]) + Len(buffer') <= signals + 1
  BY <1>1, <1>4, <1>8
<1>11. RoomToFlush'
  BY <1>1, <1>3, <1>10 DEF Follow, RoomToFlush, Flushing
<1>12. StagedFollow'
  BY <1>1, <1>3, <1>10 DEF Follow, StagedFollow, Committed, Flushing
<1> QED
  BY <1>5, <1>6, <1>7, <1>9, <1>11, <1>12 DEF Follow

LEMMA BeginFlushFollow ==
    ASSUME Base, Traces, FirstRun => Follow, BeginFlush, FirstRun'
    PROVE  Follow'
<1>1. /\ buffer \in Seq(Turns) /\ flush \in Nat /\ flush' = flush + 1
      /\ batch'[flush + 1] = buffer
      /\ \A g \in 1..(flush + 1) : g \in 1..flush \/ g = flush + 1
      /\ \A g \in 1..flush : g # flush + 1 /\ g \in 1..(flush + 1) /\ batch'[g] = batch[g]
      /\ flush + 1 \in 1..(flush + 1)
      /\ phase = "wait" /\ phase' = "redact" /\ buffer' = <<>>
      /\ UNCHANGED <<run, row, chunks, signals, dropped, deadLetters, logged>>
      /\ UNCHANGED <<deletes, accepted, left>>
  BY BeginFlushDoes
<1>2. FirstRun
  BY <1>1 DEF FirstRun, Remembered
<1>3. Follow
  BY <1>2
<1>4. AcceptedKept'
  BY <1>1, <1>3 DEF Follow, AcceptedKept
<1>5. EndedExplained'
  <2>1. SUFFICES ASSUME NEW f \in 1..(flush + 1), Ended(f)', NEW t \in Elems(batch'[f])
                 PROVE  Explained(t)'
    BY <1>1 DEF EndedExplained
  <2>2. f # flush + 1
    BY <1>1, <2>1 DEF Ended
  <2>3. f \in 1..flush /\ t \in Elems(batch[f]) /\ Ended(f)
    BY <1>1, <2>1, <2>2 DEF Ended
  <2>4. Explained(t)
    BY <1>3, <2>3 DEF Follow, EndedExplained
  <2>5. \A g \in logged : batch'[g] = batch[g]
    BY <1>1 DEF Traces
  <2> QED
    BY <1>1, <2>4, <2>5 DEF Explained, Stored, Rows
<1>6. Len(buffer') = 0 /\ Len(buffer) \in Nat /\ row.count \in Nat
  BY <1>1, ElemsEmpty DEF Base, TypeOK
<1>7. row.count + Len(buffer) <= signals /\ signals \in Nat
  BY <1>3, ConversationAssumption DEF Follow, RowsFollow, Base, TypeOK
<1>8. row.count + 0 <= signals /\ row.count + Len(buffer) + 0 <= signals
  BY <1>6, <1>7
<1>9. RowsFollow'
  BY <1>1, <1>3, <1>6, <1>8 DEF Follow, RowsFollow, Rows
<1>10. RoomToFlush'
  BY <1>1, <1>6, <1>8 DEF RoomToFlush
<1> QED
  BY <1>1, <1>4, <1>5, <1>9, <1>10 DEF Follow, BatchSplit, StagedFollow, KeptStored

LEMMA RedactFollow ==
    ASSUME Base, FirstRun => Follow, Redact, FirstRun'
    PROVE  Follow'
<1>1. /\ phase = "redact" /\ Flushing
      /\ UNCHANGED <<row, chunks, deadLetters, logged, deletes, signals, accepted, left>>
  BY RedactDoes
<1>2. PICK good \in Seq(Turns) :
          /\ dropped' = dropped \cup (Elems(batch[flush]) \ Elems(good))
          /\ \/ Elems(good) = {} /\ FlushReturns
             \/ kept' = good /\ Await("chunk")
  BY RedactDoes
<1>3. CASE Elems(good) = {} /\ FlushReturns
  <2>1. UNCHANGED <<flush, batch>>
    BY <1>1, <1>3, FlushReturnsTo
  <2>2. Grows
    BY <1>1, <1>2, <2>1 DEF Grows
  <2>3. \A t \in Elems(batch[flush]) : Explained(t)'
    BY <1>2, <1>3 DEF Explained
  <2> QED
    BY <1>1, <1>3, <2>2, <2>3, ReturnFollow
<1>4. CASE kept' = good /\ Await("chunk")
  <2>1. phase' = "chunk" /\ UNCHANGED <<run, buffer, flush, batch>>
    BY <1>4 DEF Await
  <2>2. Follow
    BY <1>1, <2>1 DEF FirstRun, Remembered
  <2>3. AcceptedKept' /\ EndedExplained' /\ RowsFollow'
    BY <1>1, <1>2, <2>1, <2>2, WithinFollow DEF Flushing
  <2>4. BatchSplit'
    BY <1>2, <1>4, <2>1 DEF BatchSplit
  <2>5. RoomToFlush'
    BY <1>1, <2>1, <2>2 DEF Follow, RoomToFlush
  <2> QED
    BY <2>1, <2>3, <2>4, <2>5 DEF Follow, StagedFollow, KeptStored
<1> QED
  BY <1>2, <1>3, <1>4

(* A flush that fails, or goes on from its stores. *)
LEMMA FailsFollow ==
    ASSUME FirstRun => Follow, Flushing, Await("deadLetter"), FirstRun', ~left' => ~left,
           UNCHANGED <<row, chunks, signals, accepted, deletes, dropped, deadLetters, logged>>
    PROVE  Follow'
<1>1. phase' = "deadLetter" /\ UNCHANGED <<run, buffer, flush, batch>>
  BY DEF Await
<1>2. Follow
  BY <1>1 DEF FirstRun, Remembered, Flushing
<1>3. AcceptedKept' /\ EndedExplained' /\ RowsFollow'
  BY <1>1, <1>2, WithinFollow DEF Flushing
<1> QED
  BY <1>1, <1>3 DEF Follow, BatchSplit, RoomToFlush, StagedFollow, KeptStored

LEMMA ChunkFollow ==
    ASSUME Base, StoreInv, FirstRun => Follow, Chunk, FirstRun'
    PROVE  Follow'
<1> USE ConversationAssumption
<1>1. /\ phase = "chunk" /\ Flushing
      /\ UNCHANGED <<kept, row, chunks, signals, accepted, deletes, dropped, deadLetters, logged, left>>
  BY DEF Chunk, Flushing, tables, records, requests
<1>2. CASE Await("deadLetter")
  BY <1>1, <1>2, FailsFollow
<1>3. CASE UNCHANGED <<run, phase, buffer, flush, batch, task>>
  <2>1. Follow
    BY <1>1, <1>3 DEF FirstRun, Remembered
  <2>2. AcceptedKept' /\ EndedExplained' /\ RowsFollow'
    BY <1>1, <1>3, <2>1, WithinFollow DEF Flushing
  <2>3. BatchSplit' /\ RoomToFlush'
    BY <1>1, <1>3, <2>1 DEF Follow, BatchSplit, RoomToFlush
  <2> QED
    BY <1>1, <1>3, <2>2, <2>3 DEF Follow, StagedFollow, KeptStored
<1>4. CASE /\ Stage /\ Await("store")
           /\ task' = [task EXCEPT ![flush] = [s \in Stores |-> "queued"]]
  <2>1. phase' = "store" /\ UNCHANGED <<run, buffer, flush, batch>>
    BY <1>4 DEF Await
  <2>2. Follow
    BY <1>1, <2>1 DEF FirstRun, Remembered
  <2>3. AcceptedKept' /\ EndedExplained' /\ RowsFollow'
    BY <1>1, <2>1, <2>2, WithinFollow DEF Flushing
  <2>4. BatchSplit'
    BY <1>1, <2>1, <2>2 DEF Follow, BatchSplit
  <2>5. flush \in Flushes /\ run \in Runs
    BY <1>1 DEF Base, FlushAtHand, Flushing
  <2>6. staged'[run].start = row.count /\ \A s \in Stores : task'[flush][s] = "queued"
    BY <1>4, <2>5 DEF Base, TypeOK, Stage
  <2>7. /\ row.count \in Nat /\ Len(batch[flush]) \in Nat /\ Len(buffer) \in Nat /\ Len(kept) \in Nat
        /\ signals \in 0..MaxSignals
    BY <2>5 DEF Base, TypeOK
  <2>8. Len(kept) <= Len(batch[flush]) /\ row.count + Len(batch[flush]) + Len(buffer) <= signals
    BY <1>1, <2>2 DEF StoreInv, KeptOfBatch, Follow, RoomToFlush
  <2>9. row.count + Len(kept) <= MaxSignals
    BY <2>7, <2>8
  <2>10. StagedFollow'
    BY <1>1, <2>1, <2>6, <2>8, <2>9 DEF StagedFollow, Stores
  <2> QED
    BY <2>1, <2>3, <2>4, <2>10 DEF Follow, RoomToFlush, KeptStored
<1> QED
  BY <1>2, <1>3, <1>4 DEF Chunk

(* The places of a list that fits: each has its turn, and each turn one. *)
LEMMA Places ==
    ASSUME NEW c \in Chunks, c.start + Len(c.turns) <= MaxSignals
    PROVE  /\ c.start..(c.start + Len(c.turns) - 1) \subseteq Indexes
           /\ \A i \in Indexes :
                 TurnAt(c, i) # NoTurn <=> i \in c.start..(c.start + Len(c.turns) - 1)
           /\ \A t \in Elems(c.turns) : \E i \in Indexes : TurnAt(c, i) = t
<1> USE ConversationAssumption
<1>1. PICK a \in Nat, n \in Nat : a = c.start /\ n = Len(c.turns)
  BY DEF Chunks
<1>2. c.turns \in Seq(Turns) /\ a + n <= MaxSignals
  BY <1>1 DEF Chunks
<1>3. MaxSignals <= MaxSignals * (MaxLost + 2) /\ MaxSignals * (MaxLost + 2) \in Nat
  <2>1. MaxSignals * MaxLost \in Nat
    OBVIOUS
  <2>2. MaxSignals * (MaxLost + 2) = MaxSignals * MaxLost + MaxSignals + MaxSignals
    OBVIOUS
  <2> QED
    BY <2>1, <2>2
<1>4. a..(a + n - 1) \subseteq Indexes
  BY <1>2, <1>3 DEF Indexes
<1>5. ASSUME NEW i \in Indexes
      PROVE  TurnAt(c, i) # NoTurn <=> i \in a..(a + n - 1)
  <2>1. CASE i \in a..(a + n - 1)
    <3>1. i - a + 1 \in 1..n
      BY <2>1
    <3>2. c.turns[i - a + 1] \in Turns
      BY <1>1, <1>2, <3>1
    <3> QED
      BY <1>1, <2>1, <3>2 DEF TurnAt
  <2>2. CASE i \notin a..(a + n - 1)
    BY <1>1, <2>2 DEF TurnAt
  <2> QED
    BY <2>1, <2>2
<1>6. ASSUME NEW t \in Elems(c.turns)
      PROVE  \E i \in Indexes : TurnAt(c, i) = t
  <2>1. PICK k \in 1..n : t = c.turns[k]
    BY <1>1 DEF Elems
  <2>2. PICK i \in a..(a + n - 1) : i - a + 1 = k
    <3>1. a + k - 1 \in a..(a + n - 1) /\ a + k - 1 - a + 1 = k
      BY <2>1
    <3> QED
      BY <3>1
  <2>3. TurnAt(c, i) = t
    BY <1>1, <2>1, <2>2 DEF TurnAt
  <2> QED
    BY <1>4, <2>2, <2>3
<1> QED
  BY <1>1, <1>4, <1>5, <1>6

LEMMA StoresReturnFollow ==
    ASSUME Base, StoreInv, FirstRun => Follow, StoresReturn, FirstRun'
    PROVE  Follow'
<1>1. /\ phase = "store" /\ Flushing
      /\ UNCHANGED <<kept, staged, row, chunks, signals, accepted, deletes, dropped, deadLetters, logged>>
  BY DEF StoresReturn, Flushing, activities, tables, records, requests
<1>2. ~left' => ~left
  BY Zenon DEF StoresReturn
<1>3. CASE Await("deadLetter")
  BY <1>1, <1>2, <1>3, FailsFollow
<1>4. CASE (\A s \in Stores : task[flush][s] \in {"ok", "superseded"}) /\ Await("stats")
  <2>1. phase' = "stats" /\ UNCHANGED <<run, buffer, flush, batch>>
    BY <1>4 DEF Await
  <2>2. Follow
    BY <1>1, <1>2, <2>1 DEF FirstRun, Remembered
  <2>3. AcceptedKept' /\ EndedExplained' /\ RowsFollow'
    BY <1>1, <2>1, <2>2, WithinFollow DEF Flushing
  <2>4. BatchSplit'
    BY <1>1, <2>1, <2>2 DEF Follow, BatchSplit
  <2>5. task[flush]["pg"] = "ok"
    BY <1>1, <1>4, <2>2 DEF Follow, StagedFollow, Stores
  <2>6. Committed /\ staged[run].start + Len(kept) <= MaxSignals
    BY <1>1, <2>2, <2>5 DEF Follow, StagedFollow
  <2>7. PICK c \in Chunks : c = staged[run]
    BY <1>1 DEF Base, TypeOK, FlushAtHand
  <2>8. c.turns = kept
    BY <1>1, <2>7 DEF StoreInv, StoresAtHand
  <2>9. ASSUME NEW t \in Elems(kept)
        PROVE  t \in Stored
    <3>1. PICK i \in Indexes : TurnAt(c, i) = t
      BY <2>6, <2>7, <2>8, Places
    <3>2. t # NoTurn
      <4>1. kept \in Seq(Turns)
        BY DEF Base, TypeOK
      <4> QED
        BY <4>1, ElemsType, ConversationAssumption
    <3>3. chunks[i] = t
      BY <2>6, <2>7, <3>1, <3>2 DEF Committed
    <3> QED
      BY <3>2, <3>3 DEF Stored, Rows
  <2>10. KeptStored'
    BY <1>1, <2>9 DEF KeptStored, Stored, Rows
  <2> QED
    BY <2>1, <2>3, <2>4, <2>10 DEF Follow, RoomToFlush, StagedFollow
<1> QED
  BY <1>3, <1>4 DEF StoresReturn

LEMMA UpdateStatsFollow ==
    ASSUME FirstRun => Follow, UpdateStats, FirstRun'
    PROVE  Follow'
<1>1. /\ phase = "stats" /\ Flushing
      /\ UNCHANGED <<kept, row, chunks, signals, accepted, deletes, dropped, deadLetters, logged, left>>
  BY DEF UpdateStats, Flushing, tables, records, requests
<1>2. CASE Await("deadLetter")
  BY <1>1, <1>2, FailsFollow
<1>3. CASE Await("cleanup")
  <2>1. phase' = "cleanup" /\ UNCHANGED <<run, buffer, flush, batch>>
    BY <1>3 DEF Await
  <2>2. Follow
    BY <1>1, <2>1 DEF FirstRun, Remembered
  <2>3. AcceptedKept' /\ EndedExplained' /\ RowsFollow'
    BY <1>1, <2>1, <2>2, WithinFollow DEF Flushing
  <2>4. BatchSplit' /\ KeptStored'
    BY <1>1, <2>1, <2>2 DEF Follow, BatchSplit, KeptStored, Stored, Rows
  <2> QED
    BY <2>1, <2>3, <2>4 DEF Follow, RoomToFlush, StagedFollow
<1> QED
  BY <1>2, <1>3 DEF UpdateStats

LEMMA CleanupFollow ==
    ASSUME Base, FirstRun => Follow, Cleanup, FirstRun'
    PROVE  Follow'
<1>1. /\ phase = "cleanup" /\ Flushing /\ FlushReturns
      /\ UNCHANGED <<row, chunks, signals, accepted, deletes, dropped, deadLetters, logged, left>>
  BY DEF Cleanup, Flushing, tables, records, requests
<1>2. UNCHANGED <<flush, batch>>
  BY <1>1, FlushReturnsTo
<1>3. Grows
  BY <1>1, <1>2 DEF Grows
<1>4. FirstRun => \A t \in Elems(batch[flush]) : Explained(t)'
  <2>1. FirstRun => \A t \in Elems(batch[flush]) : Explained(t)
    BY <1>1 DEF Follow, BatchSplit, KeptStored, Explained
  <2> QED
    BY <1>3, <2>1, GrowsExplained
<1> QED
  BY <1>1, <1>3, <1>4, ReturnFollow

LEMMA DeadLetterFollow ==
    ASSUME TakenInv, FirstRun => Follow, DeadLetterFlush, FirstRun'
    PROVE  Follow'
<1>1. Base /\ TakenOnce /\ LettersTrue
  BY DEF TakenInv
<1>2. /\ Flushing /\ FlushReturns
      /\ UNCHANGED <<row, chunks, signals, accepted, deletes, dropped, left>>
  BY DEF DeadLetterFlush, Flushing, tables, requests
<1>3. UNCHANGED <<flush, batch>>
  BY <1>1, <1>2, FlushReturnsTo
<1>4. deadLetters \subseteq deadLetters' /\ logged \subseteq logged'
  BY DEF DeadLetterFlush, AddDeadLetter
<1>5. Grows
  BY <1>2, <1>3, <1>4 DEF Grows
<1>6. flush \in failed' \/ flush \in logged'
  BY DEF DeadLetterFlush
<1>7. FirstRun => \A t \in Elems(batch[flush]) : Explained(t)'
  <2>1. CASE flush \in logged'
    BY <1>3, <2>1 DEF Explained
  <2>2. CASE flush \in failed'
    <3>1. Remembered => \E d \in deadLetters' : d.turns = Elems(batch[flush])
      BY <1>1, <2>2, DeadLetterLetters
    <3> QED
      BY <3>1 DEF Explained, FirstRun
  <2> QED
    BY <1>6, <2>1, <2>2
<1> QED
  BY <1>1, <1>2, <1>5, <1>7, ReturnFollow

(* The store steps that leave the rows alone. *)
LEMMA StoreFollow ==
    ASSUME Base, StoreInv, FirstRun => Follow, NEW f \in Flushes, FirstRun',
           \/ \E s \in Stores : BeginStore(f, s) \/ StoreGivesUp(f, s)
           \/ StoreInWeaviate(f)
    PROVE  Follow'
<1>1. /\ UNCHANGED <<run, phase, buffer, flush, batch, kept, staged, row, chunks, signals>>
      /\ UNCHANGED <<accepted, deletes, dropped, deadLetters, logged, left>>
  BY DEF BeginStore, StoreGivesUp, StoreInWeaviate, workflow, tables, records, requests
<1>2. FirstRun /\ Follow
  BY <1>1 DEF FirstRun, Remembered
<1>3. AcceptedKept' /\ EndedExplained' /\ RowsFollow'
  BY <1>1, <1>2, WithinFollow DEF Flushing
<1>4. BatchSplit' /\ KeptStored' /\ RoomToFlush'
  BY <1>1, <1>2 DEF Follow, BatchSplit, KeptStored, Stored, Rows, RoomToFlush
<1>5. PICK s \in Stores, v \in TaskStates :
          /\ SetTask(f, s, v) /\ task[f][s] \in {"queued", "read"} /\ v # "none"
          /\ v = "superseded" => ~IsActiveRun(runOf[f])
          /\ s = "pg" => v # "ok"
  BY DEF BeginStore, StoreGivesUp, StoreInWeaviate, TaskStates, Stores
<1>6. /\ task'[f][s] = v
      /\ \A g \in Flushes, z \in Stores : g # f \/ z # s => task'[g][z] = task[g][z]
  BY <1>5, SetTaskOne DEF Base
<1>7. f = flush /\ phase = "store"
  BY <1>2, <1>5 DEF StoreInv, StoresAtHand, FirstRun
<1>8. v # "superseded"
  <2>1. runOf[f] = 1
    BY <1>2, <1>7 DEF Base, FlushAtHand, Flushing, FirstRun
  <2>2. row.run \in Nat /\ row.run <= 1
    BY <1>2, ConversationAssumption DEF Base, FlushAtHand, TypeOK, FirstRun
  <2>3. IsActiveRun(runOf[f])
    BY <2>1, <2>2 DEF IsActiveRun, NoRun
  <2> QED
    BY <1>5, <2>3
<1>9. /\ \A z \in Stores : task'[flush][z] # "superseded"
      /\ task[flush]["pg"] # "ok" => task'[flush]["pg"] # "ok"
  <2>1. \A z \in Stores : task[flush][z] # "superseded"
    BY <1>2, <1>7 DEF Follow, StagedFollow
  <2> QED
    BY <1>5, <1>6, <1>7, <1>8, <2>1 DEF Stores
<1>10. StagedFollow'
  BY <1>1, <1>2, <1>9 DEF Follow, StagedFollow, Committed
<1> QED
  BY <1>3, <1>4, <1>10 DEF Follow

(* The commit: the staged chunks follow the rows, or are there already. *)
LEMMA CommitFollow ==
    ASSUME Base, StoreInv, FirstRun => Follow, NEW f \in Flushes, StoreInPostgresql(f), FirstRun'
    PROVE  Follow'
<1> USE ConversationAssumption
<1>1. /\ UNCHANGED <<run, phase, buffer, flush, batch, kept, staged, signals>>
      /\ UNCHANGED <<accepted, deletes, dropped, deadLetters, logged, left>>
      /\ task[f]["pg"] = "read"
  BY DEF StoreInPostgresql, workflow, records, requests
<1>2. FirstRun /\ Follow
  BY <1>1 DEF FirstRun, Remembered
<1>3. f = flush /\ phase = "store"
  BY <1>1, <1>2 DEF StoreInv, StoresAtHand, FirstRun, Stores
<1>4. runOf[f] = 1 /\ run = 1 /\ run \in Runs
  BY <1>2, <1>3 DEF Base, FlushAtHand, Flushing, FirstRun
<1>5. got[f]["pg"] = staged[run] /\ staged[run].turns = kept /\ staged[run] \in Chunks
  BY <1>1, <1>3, <1>4 DEF StoreInv, StoresAtHand, Base, TypeOK
<1>6. IsActiveRun(runOf[f])
  <2>1. row.run \in Nat /\ row.run <= 1
    BY <1>2 DEF Base, FlushAtHand, TypeOK, FirstRun
  <2> QED
    BY <1>4, <2>1 DEF IsActiveRun, NoRun
<1>7. /\ StoreProcessedDocument(runOf[f], got[f]["pg"])
      /\ SetTask(f, "pg", "ok") \/ SetTask(f, "pg", "queued")
  BY <1>6 DEF StoreInPostgresql
<1>8. /\ task'[flush]["pg"] # "superseded"
      /\ \A z \in Stores : z # "pg" => task'[flush][z] = task[flush][z]
  <2>1. "ok" \in TaskStates /\ "queued" \in TaskStates /\ "pg" \in Stores /\ TypeOK
    BY DEF TaskStates, Stores, Base
  <2> QED
    BY <1>1, <1>3, <1>7, <2>1, SetTaskOne
<1>9. PICK c \in Chunks : c = staged[run] /\ c.turns = kept
  BY <1>5
<1>10. PICK new : new = {i \in Indexes : TurnAt(c, i) # NoTurn /\ chunks[i] = NoTurn}
  OBVIOUS
<1>11. chunks' = [i \in Indexes |-> IF i \in new THEN TurnAt(c, i) ELSE chunks[i]]
  BY <1>5, <1>7, <1>9, <1>10 DEF StoreProcessedDocument
<1>12. c.start + Len(c.turns) <= MaxSignals
  BY <1>2, <1>3, <1>9 DEF Follow, StagedFollow
<1>13. PICK a \in Nat, n \in Nat : a = c.start /\ n = Len(c.turns)
  BY DEF Chunks
<1>14. /\ a..(a + n - 1) \subseteq Indexes
       /\ \A i \in Indexes : TurnAt(c, i) # NoTurn <=> i \in a..(a + n - 1)
  BY <1>12, <1>13, Places
<1>15. Grows
  BY <1>1, <1>10, <1>11 DEF Grows
<1>16. AcceptedKept' /\ EndedExplained' /\ BatchSplit'
  <2>1. \A g \in 1..flush : Ended(g)' => Ended(g)
    BY <1>1 DEF Ended
  <2> QED
    BY <1>1, <1>2, <1>15, <2>1, GrowsEnded DEF Follow, AcceptedKept, BatchSplit
<1>17. /\ Rows(chunks) = 0..(row.count - 1) /\ row.count + Len(buffer) <= signals
       /\ row.count \in Nat /\ Len(buffer) \in Nat /\ signals \in Nat
  BY <1>2 DEF Follow, RowsFollow, Base, TypeOK
<1>18. row'.count = Cardinality(Rows(chunks')) /\ row.count = Cardinality(Rows(chunks))
  BY NextBase DEF Base, CountExact, Next, StoreStep
<1>19. RowsFollow' /\ Committed'
  <2>1. CASE Committed
    <3>1. new = {}
      BY <1>9, <1>10, <2>1 DEF Committed
    <3>2. chunks' = chunks
      BY <1>11, <3>1 DEF Base, TypeOK
    <3>3. row'.count = row.count
      BY <1>18, <3>2
    <3> QED
      BY <1>1, <1>17, <2>1, <3>2, <3>3 DEF RowsFollow, Committed
  <2>2. CASE a = row.count /\ row.count + Len(batch[flush]) + Len(buffer) <= signals
    <3>1. new = a..(a + n - 1)
      <4>1. \A i \in a..(a + n - 1) : i \notin Rows(chunks)
        BY <1>17, <2>2
      <4> QED
        BY <1>10, <1>14, <4>1 DEF Rows
    <3>2. \A i \in new : TurnAt(c, i) # NoTurn
      BY <1>10
    <3>3. Rows(chunks') = Rows(chunks) \cup new
      BY <1>10, <1>11, <3>2 DEF Rows
    <3>4. Rows(chunks') = 0..(a + n - 1)
      BY <1>17, <2>2, <3>1, <3>3
    <3>5. Cardinality(0..(a + n - 1)) = a + n
      <4>1. 0 \in Int /\ a + n - 1 \in Int
        OBVIOUS
      <4>2. Cardinality(0..(a + n - 1)) = IF 0 > a + n - 1 THEN 0 ELSE a + n - 1 - 0 + 1
        BY <4>1, FS_Interval
      <4> QED
        BY <4>2
    <3>6. row'.count = a + n /\ a + n - 1 = row'.count - 1
      BY <1>18, <3>4, <3>5
    <3>7. n <= Len(batch[flush]) /\ Len(batch[flush]) \in Nat
      BY <1>3, <1>9, <1>13 DEF StoreInv, KeptOfBatch, Base, TypeOK
    <3>8. a + n + Len(buffer) <= signals
      <4> DEFINE x == Len(batch[flush])
                 y == Len(buffer)
      <4>1. x \in Nat /\ y \in Nat /\ signals \in Nat /\ n <= x /\ a + x + y <= signals
        BY <1>17, <2>2, <3>7
      <4> HIDE DEF x, y
      <4>2. a + n + y <= signals
        BY <4>1
      <4> QED
        BY <4>2 DEF y
    <3>9. Committed'
      <4>1. \A i \in Indexes : TurnAt(c, i) # NoTurn => i \in new
        BY <1>14, <3>1
      <4>2. \A i \in new : chunks'[i] = TurnAt(c, i)
        BY <1>10, <1>11
      <4> QED
        BY <1>1, <1>9, <4>1, <4>2 DEF Committed
    <3> QED
      BY <1>1, <3>4, <3>6, <3>8, <3>9 DEF RowsFollow
  <2> QED
    BY <1>2, <1>3, <1>9, <1>13, <2>1, <2>2 DEF Follow, StagedFollow
<1>20. StagedFollow'
  <2>1. \A z \in Stores : task'[flush][z] # "superseded"
    BY <1>2, <1>3, <1>8 DEF Follow, StagedFollow
  <2> QED
    BY <1>1, <1>9, <1>12, <1>19, <2>1 DEF StagedFollow
<1> QED
  BY <1>1, <1>3, <1>16, <1>19, <1>20 DEF Follow, RoomToFlush, KeptStored

(* The steps of the loop, and those of a deletion. *)
LEMMA LoopFollow ==
    ASSUME FirstRun => Follow, FirstRun',
           UNCHANGED vars \/ Close \/ TenantReady \/ Idle \/ Finalize
    PROVE  Follow'
<1>1. /\ UNCHANGED <<run, flush, batch, kept, task, staged, row, chunks, signals>>
      /\ UNCHANGED <<accepted, deletes, dropped, deadLetters, logged, left>>
  BY DEF vars, Close, TenantReady, Idle, Finalize, EndRun, workflow, activities, tables, records,
         requests
<1>2. /\ buffer' = buffer /\ phase # "closed"
      /\ phase' = phase \/ (phase \in {"tenant", "wait"} /\ phase' \in {"wait", "finalize"})
  <2>1. phase' # "closed"
    BY DEF FirstRun
  <2> QED
    BY <2>1 DEF vars, workflow, Close, TenantReady, Idle, Finalize, EndRun
<1>3. Follow
  BY <1>1, <1>2 DEF FirstRun, Remembered
<1>4. AcceptedKept' /\ EndedExplained' /\ RowsFollow'
  BY <1>1, <1>2, <1>3, WithinFollow DEF Flushing
<1>5. BatchSplit' /\ KeptStored' /\ RoomToFlush' /\ StagedFollow'
  BY <1>1, <1>2, <1>3
  DEF Follow, BatchSplit, KeptStored, Stored, Rows, RoomToFlush, StagedFollow, Committed
<1> QED
  BY <1>4, <1>5 DEF Follow

LEMMA DeleteFollow ==
    ASSUME Base, Traces, DeleteVectors \/ DeleteRow
    PROVE  ~FirstRun'
<1>1. deletes' > 0
  <2>1. deletes \in Nat
    BY ConversationAssumption DEF Base, TypeOK
  <2> QED
    BY <2>1 DEF DeleteVectors, DeleteRow, Traces
<1> QED
  BY <1>1 DEF FirstRun

LEMMA NextFollow ==
    ASSUME TakenInv, StoreInv, Traces, FirstRun => Follow, [Next]_vars
    PROVE  (FirstRun => Follow)'
<1>1. Base
  BY DEF TakenInv
<1>2. SUFFICES ASSUME FirstRun'
               PROVE  Follow'
  OBVIOUS
<1>3. CASE \E t \in Turns : Signal(t)
  BY <1>1, <1>2, <1>3, FirstTurnFollow, NextTurnFollow
<1>4. CASE UNCHANGED vars \/ Close \/ TenantReady \/ Idle \/ Finalize
  BY <1>2, <1>4, LoopFollow
<1>5. CASE BeginFlush
  BY <1>1, <1>2, <1>5, BeginFlushFollow
<1>6. CASE Redact
  BY <1>1, <1>2, <1>6, RedactFollow
<1>7. CASE RedactFails
  <2>1. /\ Flushing /\ Await("deadLetter")
        /\ UNCHANGED <<row, chunks, signals, accepted, deletes, dropped, deadLetters, logged, left>>
    BY <1>7 DEF RedactFails, Flushing, tables, records, requests
  <2> QED
    BY <1>2, <2>1, FailsFollow
<1>8. CASE Chunk \/ StoresReturn
  BY <1>1, <1>2, <1>8, ChunkFollow, StoresReturnFollow
<1>9. CASE UpdateStats \/ Cleanup \/ DeadLetterFlush
  BY <1>1, <1>2, <1>9, UpdateStatsFollow, CleanupFollow, DeadLetterFollow
<1>10. CASE \E f \in Flushes : StoreStep(f)
  BY <1>1, <1>2, <1>10, StoreFollow, CommitFollow DEF StoreStep
<1>11. CASE DeleteVectors \/ DeleteRow
  BY <1>1, <1>2, <1>11, DeleteFollow
<1> QED
  BY <1>3, <1>4, <1>5, <1>6, <1>7, <1>8, <1>9, <1>10, <1>11 DEF Next, FlushStep

AllInv == TakenInv /\ StoreInv /\ Traces /\ (FirstRun => Follow)

LEMMA AllInvariant ==
    Spec => []AllInv
<1>1. Init => AllInv
  <2>1. Init => Traces /\ ~FirstRun
    BY DEF Init, Traces, FirstRun
  <2> QED
    BY <2>1, InitTaken, InitStores DEF AllInv
<1>2. AllInv /\ [Next]_vars => AllInv'
  <2>1. ASSUME AllInv, [Next]_vars
        PROVE  AllInv'
    <3>1. TakenInv /\ StoreInv /\ Traces /\ (FirstRun => Follow) /\ Base
      BY <2>1 DEF AllInv, TakenInv
    <3>2. TakenInv' /\ StoreInv' /\ Traces' /\ (FirstRun => Follow)'
      BY <2>1, <3>1, NextTakenInv, NextStores, NextTraces, NextFollow
    <3> QED
      BY <3>2 DEF AllInv
  <2> QED
    BY <2>1
<1> QED
  BY <1>1, <1>2, PTL DEF Spec

(* As long as the first run goes on and nothing is deleted or left behind, *)
(* every accepted turn waits, is being flushed, or is in a row or on       *)
(* record (_flush, redact_turns, _dead_letter_flush).                      *)
THEOREM NoTurnIsLost == Spec => []TurnsKept
<1>1. AllInv => TurnsKept
  BY DEF AllInv, Follow, FirstRun, TurnsKept, AcceptedKept, EndedExplained
<1> QED
  BY <1>1, AllInvariant, PTL
=============================================================================
