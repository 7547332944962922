------------------------- MODULE UploadStreamProofs -------------------------
(***************************************************************************)
(* Proofs about UploadStream, for any number of events, consumers, permits *)
(* and crashes and any choice of failures.                                 *)
(***************************************************************************)
EXTENDS UploadStream, WellFoundedInduction, FiniteSetTheorems, TLAPS

(* A non-empty set of entries has a first one. *)
LEMMA LeastIsMember ==
    ASSUME NEW S, S \subseteq Events, S # {}
    PROVE  Least(S) \in S
<1>1. S \subseteq Nat
  BY StreamAssumption DEF Events
<1>2. PICK x \in S : \A y \in S : ~(<<y, x>> \in OpToRel(<, Nat))
  BY <1>1, NatLessThanWellFounded, WFMin
<1>3. \A y \in S : x <= y
  <2>1. SUFFICES ASSUME NEW y \in S, y < x PROVE FALSE
    BY <1>1
  <2>2. <<y, x>> \in {p \in Nat \X Nat : p[1] < p[2]}
    BY <1>1, <2>1
  <2>3. <<y, x>> \in OpToRel(<, Nat)
    BY <2>2, Zenon DEF OpToRel
  <2> QED
    BY <1>2, <2>3
<1> QED
  BY <1>3 DEF Least

(* A handler that is about to acknowledge has dealt with its entry. *)
AckIsEarned ==
    \A c \in Consumers, s \in Slots : task[c][s] = "acking" => Entry(c, s) \in Settled

(* The handler that is called in turn works on an entry of its batch. *)
TurnHasEntry ==
    \A c \in Consumers :
        task[c][InTurn] # "none" => mode[c] \in {"recover", "reclaim"} /\ batch[c] # {}

(* The inductive invariant. *)
IInv == TypeOK /\ NoEventLost /\ AckIsEarned /\ TurnHasEntry

LEMMA EntryType ==
    ASSUME IInv, NEW c \in Consumers, NEW s \in Slots, task[c][s] # "none"
    PROVE  Entry(c, s) \in Events /\ (s # InTurn => Entry(c, s) = s)
<1>1. CASE s # InTurn
  BY <1>1 DEF Slots, Entry
<1>2. CASE s = InTurn
  BY <1>2, LeastIsMember DEF Entry, IInv, TurnHasEntry, TypeOK
<1> QED
  BY <1>1, <1>2

(* A delivery only adds to the pending list, and an acknowledgement takes  *)
(* away its own entry.                                                     *)
LEMMA DeliverType ==
    ASSUME TypeOK, NEW c \in Consumers, NEW S, S \subseteq Events, Deliver(c, S)
    PROVE  /\ owner' \in [Events -> Consumers \cup {Nobody}]
           /\ delivered' \in [Events -> Nat]
           /\ Pending \subseteq Pending' /\ S \subseteq Pending'
           /\ idle' \subseteq Pending'
  BY StreamAssumption DEF Deliver, TypeOK, Pending

LEMMA AckType ==
    ASSUME TypeOK, NEW m \in Events, Ack(m)
    PROVE  /\ owner' \in [Events -> Consumers \cup {Nobody}]
           /\ Pending' = Pending \ {m}
           /\ idle' \subseteq Pending'
           /\ UNCHANGED <<sent, cursor, delivered>>
  BY StreamAssumption DEF Ack, TypeOK, Pending

(* A run started for an entry, and nothing else, is added to Started. *)
LEMMA StartedGrows ==
    ASSUME TypeOK, NEW m \in Events, starts' = Append(starts, m)
    PROVE  starts' \in Seq(Events) /\ Started' = Started \cup {m}
  BY DEF TypeOK, Started

(* A step that changes neither what is settled nor how entries are bound   *)
(* to their handlers.                                                      *)
LEMMA NoEventLostKept ==
    ASSUME NoEventLost, cursor' = cursor, Pending \subseteq Pending',
           Settled \subseteq Settled', dropped \subseteq dropped'
    PROVE  NoEventLost'
  BY DEF NoEventLost

(* One handler slot changes. *)
LEMMA SlotSet ==
    ASSUME TypeOK, NEW c \in Consumers, NEW s \in Slots,
           NEW v \in {"none", "waiting", "calling", "acking"},
           task' = [task EXCEPT ![c][s] = v]
    PROVE  /\ task' \in [Consumers -> [Slots -> {"none", "waiting", "calling", "acking"}]]
           /\ task'[c][s] = v
           /\ \A b \in Consumers, t \in Slots : b # c \/ t # s => task'[b][t] = task[b][t]
<1>1. task'[c] = [task[c] EXCEPT ![s] = v] /\ \A b \in Consumers \ {c} : task'[b] = task[b]
  BY DEF TypeOK
<1>2. task' \in [Consumers -> [Slots -> {"none", "waiting", "calling", "acking"}]]
  BY DEF TypeOK
<1>3. task'[c][s] = v /\ \A t \in Slots \ {s} : task'[c][t] = task[c][t]
  BY <1>1 DEF TypeOK
<1> QED
  BY <1>1, <1>2, <1>3

LEMMA SubscribeKeeps ==
    ASSUME IInv, NEW c \in Consumers, Subscribe(c)
    PROVE  IInv'
<1> USE StreamAssumption
<1>1. PICK own \in SUBSET Events : Deliver(c, own) /\ Enter(c, "recover", own)
  BY DEF Subscribe, Reached
<1>2. UNCHANGED <<sent, cursor, task, crashes, starts, deadLetters, dropped>>
  BY <1>1 DEF Subscribe, Deliver, outcome
<1>3. TypeOK /\ NoEventLost /\ AckIsEarned /\ TurnHasEntry
  BY DEF IInv
<1>4. task[c][InTurn] = "none"
  BY <1>3 DEF TurnHasEntry, Subscribe
<1>5. TypeOK'
  BY <1>1, <1>2, <1>3, DeliverType DEF TypeOK, Enter
<1>6. Settled' = Settled
  BY <1>2 DEF Settled, Started
<1>7. NoEventLost'
  BY <1>1, <1>2, <1>3, <1>6, DeliverType, NoEventLostKept
<1>8. AckIsEarned'
  BY <1>1, <1>2, <1>3, <1>4, <1>6 DEF AckIsEarned, Entry, Enter, TypeOK
<1>9. TurnHasEntry'
  BY <1>1, <1>2, <1>3, <1>4 DEF TurnHasEntry, Enter, TypeOK
<1> QED
  BY <1>5, <1>7, <1>8, <1>9 DEF IInv

LEMMA PollKeeps ==
    ASSUME IInv, NEW c \in Consumers, Poll(c)
    PROVE  IInv'
<1> USE StreamAssumption
<1> DEFINE new == {m \in Events : m > cursor /\ m <= sent /\ m <= cursor + ReadCount}
<1>1. /\ mode[c] = "poll" /\ cursor < sent /\ Deliver(c, new) /\ Enter(c, "batch", new)
      /\ cursor' = IF cursor + ReadCount < sent THEN cursor + ReadCount ELSE sent
      /\ task' = [task EXCEPT ![c] = [s \in Slots |-> IF s \in new THEN "waiting" ELSE @[s]]]
      /\ UNCHANGED <<sent, crashes, starts, deadLetters, dropped>>
  BY DEF Poll, Deliver, outcome
<1>2. TypeOK /\ NoEventLost /\ AckIsEarned /\ TurnHasEntry
  BY DEF IInv
<1>3. new \subseteq Events /\ InTurn \notin new
  BY DEF Events, InTurn
<1>4. /\ task' \in [Consumers -> [Slots -> {"none", "waiting", "calling", "acking"}]]
      /\ \A s \in Slots : task'[c][s] = IF s \in new THEN "waiting" ELSE task[c][s]
      /\ \A b \in Consumers \ {c} : task'[b] = task[b]
  BY <1>1, <1>2 DEF TypeOK
<1>5. sent' \in 0..MaxEvents /\ cursor' \in 0..sent'
  BY <1>1, <1>2 DEF TypeOK
<1>6. TypeOK'
  BY <1>1, <1>2, <1>3, <1>4, <1>5, DeliverType DEF TypeOK, Enter
<1>7. Settled' = Settled
  BY <1>1 DEF Settled, Started
<1>8. NoEventLost'
  <2>1. \A m \in 1..cursor' : m \in 1..cursor \/ m \in new
    BY <1>1, <1>2 DEF TypeOK, Events
  <2>2. Pending \subseteq Pending' /\ new \subseteq Pending'
    BY <1>1, <1>2, <1>3, DeliverType
  <2> QED
    BY <1>1, <1>2, <1>7, <2>1, <2>2 DEF NoEventLost
<1>9. task[c][InTurn] = "none" /\ InTurn \in Slots
  BY <1>1, <1>2 DEF TurnHasEntry, Slots
<1>10. AckIsEarned'
  BY <1>1, <1>2, <1>3, <1>4, <1>7, <1>9 DEF AckIsEarned, Entry, Enter, TypeOK
<1>11. TurnHasEntry'
  BY <1>1, <1>2, <1>3, <1>4, <1>9 DEF TurnHasEntry, Enter, TypeOK
<1> QED
  BY <1>6, <1>8, <1>10, <1>11 DEF IInv

LEMMA AcquireKeeps ==
    ASSUME IInv, NEW c \in Consumers, Acquire(c)
    PROVE  IInv'
<1> USE StreamAssumption
<1>1. TypeOK /\ NoEventLost /\ AckIsEarned /\ TurnHasEntry
  BY DEF IInv
<1>2. UNCHANGED <<sent, cursor, owner, delivered, idle, crashes, starts, deadLetters, dropped>>
  BY DEF Acquire, redis, outcome
<1>3. Least(Waiting(c)) \in Waiting(c)
  BY LeastIsMember DEF Acquire, Waiting
<1>4. PICK m \in Events :
          /\ task[c][m] = "waiting"
          /\ \/ /\ task' = [task EXCEPT ![c][m] = "none"]
                /\ \/ mode[c] = "batch" /\ Enter(c, "poll", {})
                   \/ UNCHANGED <<mode, batch>>
             \/ task' = [task EXCEPT ![c][m] = "calling"] /\ UNCHANGED <<mode, batch>>
  BY <1>3 DEF Acquire, Waiting
<1>5. m \in Slots /\ m # InTurn /\ InTurn \in Slots
  BY DEF Slots, Events, InTurn
<1>6. /\ task' \in [Consumers -> [Slots -> {"none", "waiting", "calling", "acking"}]]
      /\ task'[c][m] \in {"none", "calling"}
      /\ \A b \in Consumers, s \in Slots : b # c \/ s # m => task'[b][s] = task[b][s]
  <2>1. PICK v \in {"none", "calling"} : task' = [task EXCEPT ![c][m] = v]
    BY <1>4
  <2> QED
    BY <1>1, <1>5, <2>1, SlotSet
<1>7. /\ mode' \in [Consumers -> {"down", "recover", "poll", "batch", "reclaim"}]
      /\ batch' \in [Consumers -> SUBSET Events]
      /\ \A b \in Consumers : mode[b] # "batch" => mode'[b] = mode[b] /\ batch'[b] = batch[b]
  BY <1>1, <1>4 DEF TypeOK, Enter
<1>8. TypeOK'
  BY <1>1, <1>2, <1>6, <1>7 DEF TypeOK, Pending
<1>9. Settled' = Settled
  BY <1>2 DEF Settled, Started
<1>10. NoEventLost'
  BY <1>1, <1>2, <1>9 DEF NoEventLost, Pending
<1>11. \A b \in Consumers : task[b][InTurn] # "none" => batch'[b] = batch[b] /\ mode'[b] = mode[b]
  BY <1>1, <1>7 DEF TurnHasEntry
<1>12. AckIsEarned'
  BY <1>1, <1>5, <1>6, <1>9, <1>11 DEF AckIsEarned, Entry
<1>13. TurnHasEntry'
  BY <1>1, <1>5, <1>6, <1>11 DEF TurnHasEntry
<1> QED
  BY <1>8, <1>10, <1>12, <1>13 DEF IInv

LEMMA ReclaimKeeps ==
    ASSUME IInv, NEW c \in Consumers, Reclaim(c)
    PROVE  IInv'
<1> USE StreamAssumption
<1>1. TypeOK /\ NoEventLost /\ AckIsEarned /\ TurnHasEntry
  BY DEF IInv
<1>2. idle \subseteq Events
  BY <1>1 DEF TypeOK, Pending
<1>3. PICK S \in SUBSET Events : Deliver(c, S) /\ Enter(c, "reclaim", S)
  BY <1>2 DEF Reclaim, Reached
<1>4. /\ mode[c] = "batch"
      /\ UNCHANGED <<sent, cursor, task, crashes, starts, deadLetters, dropped>>
  BY <1>3 DEF Reclaim, Deliver, outcome
<1>5. task[c][InTurn] = "none"
  BY <1>1, <1>4 DEF TurnHasEntry
<1>6. TypeOK'
  BY <1>1, <1>3, <1>4, DeliverType DEF TypeOK, Enter
<1>7. Settled' = Settled
  BY <1>4 DEF Settled, Started
<1>8. NoEventLost'
  BY <1>1, <1>3, <1>4, <1>7, DeliverType, NoEventLostKept
<1>9. AckIsEarned'
  BY <1>1, <1>3, <1>4, <1>5, <1>7 DEF AckIsEarned, Entry, Enter, TypeOK
<1>10. TurnHasEntry'
  BY <1>1, <1>3, <1>4, <1>5 DEF TurnHasEntry, Enter, TypeOK
<1> QED
  BY <1>6, <1>8, <1>9, <1>10 DEF IInv

LEMMA PublishKeeps ==
    ASSUME IInv, Publish
    PROVE  IInv'
<1> USE StreamAssumption
<1>1. TypeOK /\ NoEventLost /\ AckIsEarned /\ TurnHasEntry
  BY DEF IInv
<1>2. /\ sent < MaxEvents /\ sent' = sent + 1
      /\ UNCHANGED <<cursor, owner, delivered, idle, mode, batch, task, crashes>>
      /\ UNCHANGED <<starts, deadLetters, dropped>>
  BY DEF Publish, loop, outcome
<1>3. sent' \in 0..MaxEvents /\ cursor' \in 0..sent'
  BY <1>1, <1>2 DEF TypeOK
<1>4. TypeOK'
  BY <1>1, <1>2, <1>3 DEF TypeOK, Pending
<1>5. Settled' = Settled
  BY <1>2 DEF Settled, Started
<1>6. NoEventLost' /\ AckIsEarned' /\ TurnHasEntry'
  BY <1>1, <1>2, <1>5 DEF NoEventLost, AckIsEarned, TurnHasEntry, Pending, Entry
<1> QED
  BY <1>4, <1>6 DEF IInv

LEMMA ElapseKeeps ==
    ASSUME IInv, NEW m \in Events, Elapse(m)
    PROVE  IInv'
<1>1. TypeOK /\ NoEventLost /\ AckIsEarned /\ TurnHasEntry
  BY DEF IInv
<1>2. /\ m \in Pending /\ idle' = idle \cup {m}
      /\ UNCHANGED <<sent, cursor, owner, delivered, mode, batch, task, crashes>>
      /\ UNCHANGED <<starts, deadLetters, dropped>>
  BY DEF Elapse, loop, outcome
<1>3. TypeOK'
  BY <1>1, <1>2 DEF TypeOK, Pending
<1>4. Settled' = Settled
  BY <1>2 DEF Settled, Started
<1>5. NoEventLost' /\ AckIsEarned' /\ TurnHasEntry'
  BY <1>1, <1>2, <1>4 DEF NoEventLost, AckIsEarned, TurnHasEntry, Pending, Entry
<1> QED
  BY <1>3, <1>5 DEF IInv

(* The loop leaves the entries at hand and goes back to polling. *)
LEMMA BackToPolling ==
    ASSUME IInv, NEW c \in Consumers, task[c][InTurn] = "none", Enter(c, "poll", {}),
           UNCHANGED <<redis, task, crashes, outcome, dropped>>
    PROVE  IInv'
<1>1. TypeOK /\ NoEventLost /\ AckIsEarned /\ TurnHasEntry
  BY DEF IInv
<1>2. /\ UNCHANGED <<sent, cursor, owner, delivered, idle, task, crashes>>
      /\ UNCHANGED <<starts, deadLetters, dropped>>
  BY DEF redis, outcome
<1>3. /\ mode' \in [Consumers -> {"down", "recover", "poll", "batch", "reclaim"}]
      /\ batch' \in [Consumers -> SUBSET Events]
      /\ \A b \in Consumers : b # c => mode'[b] = mode[b] /\ batch'[b] = batch[b]
  BY <1>1 DEF TypeOK, Enter
<1>4. TypeOK'
  BY <1>1, <1>2, <1>3 DEF TypeOK, Pending
<1>5. Settled' = Settled
  BY <1>2 DEF Settled, Started
<1>6. NoEventLost'
  BY <1>1, <1>2, <1>5 DEF NoEventLost, Pending
<1>7. AckIsEarned' /\ TurnHasEntry'
  BY <1>1, <1>2, <1>3, <1>5 DEF AckIsEarned, TurnHasEntry, Entry
<1> QED
  BY <1>4, <1>6, <1>7 DEF IInv

LEMMA HandleInTurnKeeps ==
    ASSUME IInv, NEW c \in Consumers, HandleInTurn(c), mode[c] \in {"recover", "reclaim"},
           batch[c] # {}, task[c][InTurn] = "none", UNCHANGED <<crashes, outcome>>
    PROVE  IInv'
<1>1. TypeOK /\ NoEventLost /\ AckIsEarned /\ TurnHasEntry
  BY DEF IInv
<1>2. CASE Enter(c, "poll", {}) /\ UNCHANGED task
  BY <1>2, BackToPolling DEF HandleInTurn
<1>3. CASE task' = [task EXCEPT ![c][InTurn] = "calling"] /\ UNCHANGED <<mode, batch>>
  <2>1. /\ UNCHANGED <<sent, cursor, owner, delivered, idle, mode, batch, crashes>>
        /\ UNCHANGED <<starts, deadLetters, dropped>>
    BY <1>3 DEF HandleInTurn, redis, outcome
  <2>2. InTurn \in Slots
    BY DEF Slots
  <2>3. /\ task' \in [Consumers -> [Slots -> {"none", "waiting", "calling", "acking"}]]
        /\ task'[c][InTurn] = "calling"
        /\ \A b \in Consumers, s \in Slots : b # c \/ s # InTurn => task'[b][s] = task[b][s]
    BY <1>1, <1>3, <2>2, SlotSet
  <2>4. TypeOK'
    BY <1>1, <2>1, <2>3 DEF TypeOK, Pending
  <2>5. Settled' = Settled
    BY <2>1 DEF Settled, Started
  <2>6. NoEventLost'
    BY <1>1, <2>1, <2>5 DEF NoEventLost, Pending
  <2>7. AckIsEarned' /\ TurnHasEntry'
    BY <1>1, <2>1, <2>2, <2>3, <2>5 DEF AckIsEarned, TurnHasEntry, Entry
  <2> QED
    BY <2>4, <2>6, <2>7 DEF IInv
<1> QED
  BY <1>2, <1>3 DEF HandleInTurn

LEMMA DropPoisonKeeps ==
    ASSUME IInv, NEW c \in Consumers, DropPoison(c), mode[c] = "reclaim",
           batch[c] # {}, task[c][InTurn] = "none", UNCHANGED <<crashes, outcome>>
    PROVE  IInv'
<1> DEFINE m == Least(batch[c])
<1>1. TypeOK /\ NoEventLost /\ AckIsEarned /\ TurnHasEntry
  BY DEF IInv
<1>2. CASE /\ Ack(m) /\ dropped' = dropped \cup {m}
           /\ batch' = [batch EXCEPT ![c] = @ \ {m}] /\ UNCHANGED <<mode, task>>
  <2>1. m \in Events
    BY <1>1, LeastIsMember DEF TypeOK
  <2> HIDE DEF m
  <2>2. /\ owner' \in [Events -> Consumers \cup {Nobody}]
        /\ Pending' = Pending \ {m} /\ idle' \subseteq Pending'
        /\ UNCHANGED <<sent, cursor, delivered>>
    BY <1>1, <1>2, <2>1, AckType
  <2>3. UNCHANGED <<mode, task, crashes, starts, deadLetters>>
    BY <1>2 DEF outcome
  <2>4. /\ batch' \in [Consumers -> SUBSET Events]
        /\ \A b \in Consumers : b # c => batch'[b] = batch[b]
    BY <1>1, <1>2 DEF TypeOK
  <2>5. TypeOK'
    BY <1>1, <1>2, <2>1, <2>2, <2>3, <2>4 DEF TypeOK
  <2>6. Settled' = Settled
    BY <2>3 DEF Settled, Started
  <2>7. NoEventLost'
    BY <1>1, <1>2, <2>2, <2>6 DEF NoEventLost
  <2>8. AckIsEarned' /\ TurnHasEntry'
    BY <1>1, <2>3, <2>4, <2>6 DEF AckIsEarned, TurnHasEntry, Entry
  <2> QED
    BY <2>5, <2>7, <2>8 DEF IInv
<1>3. CASE Enter(c, "poll", {}) /\ UNCHANGED <<redis, task, dropped>>
  BY <1>3, BackToPolling
<1> QED
  BY <1>2, <1>3 DEF DropPoison

LEMMA TakeNextKeeps ==
    ASSUME IInv, NEW c \in Consumers, TakeNext(c)
    PROVE  IInv'
<1>1. /\ mode[c] \in {"recover", "reclaim"} /\ batch[c] # {} /\ task[c][InTurn] = "none"
      /\ UNCHANGED <<crashes, outcome>>
      /\ HandleInTurn(c) \/ (mode[c] = "reclaim" /\ DropPoison(c))
  BY DEF TakeNext
<1> QED
  BY <1>1, HandleInTurnKeeps, DropPoisonKeeps

LEMMA NoneLeftKeeps ==
    ASSUME IInv, NEW c \in Consumers, NoneLeft(c)
    PROVE  IInv'
<1>1. task[c][InTurn] = "none"
  BY DEF NoneLeft, IInv, TurnHasEntry
<1> QED
  BY <1>1, BackToPolling DEF NoneLeft

(* The handler in slot s has dealt with its entry: what is settled grows   *)
(* by it, and nothing else of the stream changes.                          *)
LEMMA HandledKeeps ==
    ASSUME IInv, NEW c \in Consumers, NEW s \in Slots, task[c][s] = "calling",
           task' = [task EXCEPT ![c][s] = "acking"],
           UNCHANGED <<redis, mode, batch, crashes, dropped>>,
           starts' \in Seq(Events), deadLetters' \subseteq Events,
           Settled \subseteq Settled', Entry(c, s) \in Settled'
    PROVE  IInv'
<1>1. TypeOK /\ NoEventLost /\ AckIsEarned /\ TurnHasEntry
  BY DEF IInv
<1>2. UNCHANGED <<sent, cursor, owner, delivered, idle, mode, batch, crashes, dropped>>
  BY DEF redis
<1>3. /\ task' \in [Consumers -> [Slots -> {"none", "waiting", "calling", "acking"}]]
      /\ task'[c][s] = "acking"
      /\ \A b \in Consumers, t \in Slots : b # c \/ t # s => task'[b][t] = task[b][t]
  BY <1>1, SlotSet
<1>4. TypeOK'
  BY <1>1, <1>2, <1>3 DEF TypeOK, Pending
<1>5. NoEventLost'
  BY <1>1, <1>2, NoEventLostKept DEF Pending
<1>6. AckIsEarned'
  <2>1. \A b \in Consumers, t \in Slots : Entry(b, t)' = Entry(b, t)
    BY <1>2 DEF Entry
  <2> QED
    BY <1>1, <1>3, <2>1 DEF AckIsEarned
<1>7. TurnHasEntry'
  BY <1>1, <1>2, <1>3 DEF TurnHasEntry, Slots
<1> QED
  BY <1>4, <1>5, <1>6, <1>7 DEF IInv

LEMMA StartRunKeeps ==
    ASSUME IInv, NEW c \in Consumers, NEW s \in Slots, StartRun(c, s)
    PROVE  IInv'
<1>1. TypeOK /\ Entry(c, s) \in Events
  BY EntryType DEF StartRun, IInv
<1>2. starts' \in Seq(Events) /\ Started' = Started \cup {Entry(c, s)}
  BY <1>1, StartedGrows DEF StartRun
<1>3. deadLetters' = deadLetters /\ deadLetters' \subseteq Events
  BY <1>1 DEF StartRun, TypeOK
<1>4. Settled \subseteq Settled' /\ Entry(c, s) \in Settled'
  BY <1>2, <1>3 DEF Settled
<1> QED
  BY <1>2, <1>3, <1>4, HandledKeeps DEF StartRun

LEMMA RecordDeadLetterKeeps ==
    ASSUME IInv, NEW c \in Consumers, NEW s \in Slots, RecordDeadLetter(c, s)
    PROVE  IInv'
<1>1. TypeOK /\ Entry(c, s) \in Events
  BY EntryType DEF RecordDeadLetter, IInv
<1>2. starts' = starts /\ starts' \in Seq(Events) /\ Started' = Started
  BY <1>1 DEF RecordDeadLetter, TypeOK, Started
<1>3. /\ deadLetters' \subseteq Events /\ deadLetters \subseteq deadLetters'
      /\ Entry(c, s) \in deadLetters' \/ ("db" \in Faults /\ Entry(c, s) \in Invalid)
  BY <1>1 DEF RecordDeadLetter, TypeOK
<1>4. Settled \subseteq Settled' /\ Entry(c, s) \in Settled'
  BY <1>2, <1>3 DEF Settled
<1> QED
  BY <1>2, <1>3, <1>4, HandledKeeps DEF RecordDeadLetter

(* The handler in slot s ends; at most the acknowledgement of an entry     *)
(* that is settled takes something off the pending list.                   *)
LEMMA FinishKeeps ==
    ASSUME IInv, NEW c \in Consumers, NEW s \in Slots, task[c][s] # "none",
           Finish(c, s), UNCHANGED <<sent, cursor, delivered, outcome, dropped>>,
           owner' \in [Events -> Consumers \cup {Nobody}], idle' \subseteq Pending',
           \A m \in Pending : m \in Pending' \/ m \in Settled
    PROVE  IInv'
<1>1. TypeOK /\ NoEventLost /\ AckIsEarned /\ TurnHasEntry
  BY DEF IInv
<1>2. UNCHANGED <<sent, cursor, delivered, starts, deadLetters, dropped, mode, crashes>>
  BY DEF outcome, Finish
<1>3. /\ task' \in [Consumers -> [Slots -> {"none", "waiting", "calling", "acking"}]]
      /\ task'[c][s] = "none"
      /\ \A b \in Consumers, t \in Slots : b # c \/ t # s => task'[b][t] = task[b][t]
  BY <1>1, SlotSet DEF Finish
<1>4. InTurn \in Slots
  BY DEF Slots
<1>5. /\ batch' \in [Consumers -> SUBSET Events]
      /\ \A b \in Consumers : b # c => batch'[b] = batch[b]
      /\ s # InTurn /\ mode[c] # "batch" => batch'[c] = batch[c]
  BY <1>1 DEF TypeOK, Finish
<1>6. TypeOK'
  BY <1>1, <1>2, <1>3, <1>5 DEF TypeOK
<1>7. Settled' = Settled
  BY <1>2 DEF Settled, Started
<1>8. NoEventLost'
  BY <1>1, <1>2, <1>7 DEF NoEventLost
<1>9. \A b \in Consumers : task'[b][InTurn] # "none" =>
          task[b][InTurn] = task'[b][InTurn] /\ batch'[b] = batch[b] /\ mode'[b] = mode[b]
  BY <1>1, <1>2, <1>3, <1>4, <1>5 DEF TurnHasEntry
<1>10. AckIsEarned'
  BY <1>1, <1>3, <1>4, <1>7, <1>9 DEF AckIsEarned, Entry
<1>11. TurnHasEntry'
  BY <1>1, <1>9 DEF TurnHasEntry
<1> QED
  BY <1>6, <1>8, <1>10, <1>11 DEF IInv

LEMMA AckEntryKeeps ==
    ASSUME IInv, NEW c \in Consumers, NEW s \in Slots, AckEntry(c, s)
    PROVE  IInv'
<1>1. TypeOK /\ Entry(c, s) \in Events /\ task[c][s] # "none"
  BY EntryType DEF AckEntry, IInv
<1>2. Entry(c, s) \in Settled
  BY DEF AckEntry, IInv, AckIsEarned
<1>3. /\ owner' \in [Events -> Consumers \cup {Nobody}]
      /\ Pending' = Pending \ {Entry(c, s)} /\ idle' \subseteq Pending'
      /\ UNCHANGED <<sent, cursor, delivered>>
  BY <1>1, AckType DEF AckEntry
<1> QED
  BY <1>1, <1>2, <1>3, FinishKeeps DEF AckEntry

LEMMA HandlerRaisesKeeps ==
    ASSUME IInv, NEW c \in Consumers, NEW s \in Slots, HandlerRaises(c, s)
    PROVE  IInv'
<1>1. TypeOK /\ task[c][s] # "none" /\ Finish(c, s)
  BY DEF HandlerRaises, IInv
<1>2. UNCHANGED <<sent, cursor, owner, delivered, idle, outcome, dropped>>
  BY DEF HandlerRaises, redis
<1>3. /\ owner' \in [Events -> Consumers \cup {Nobody}]
      /\ Pending' = Pending /\ idle' \subseteq Pending'
  BY <1>1, <1>2 DEF TypeOK, Pending
<1> QED
  BY <1>1, <1>2, <1>3, FinishKeeps

LEMMA CrashKeeps ==
    ASSUME IInv, NEW c \in Consumers, Crash(c)
    PROVE  IInv'
<1> USE StreamAssumption
<1>1. TypeOK /\ NoEventLost /\ AckIsEarned /\ TurnHasEntry
  BY DEF IInv
<1>2. /\ UNCHANGED <<sent, cursor, owner, delivered, idle, starts, deadLetters, dropped>>
      /\ crashes' \in 0..MaxCrashes
  BY <1>1 DEF Crash, redis, outcome, TypeOK
<1>3. /\ mode' \in [Consumers -> {"down", "recover", "poll", "batch", "reclaim"}]
      /\ batch' \in [Consumers -> SUBSET Events]
      /\ \A b \in Consumers : b # c => mode'[b] = mode[b] /\ batch'[b] = batch[b]
  BY <1>1 DEF TypeOK, Enter, Crash
<1>4. /\ task' \in [Consumers -> [Slots -> {"none", "waiting", "calling", "acking"}]]
      /\ \A s \in Slots : task'[c][s] = "none"
      /\ \A b \in Consumers : b # c => task'[b] = task[b]
  BY <1>1 DEF TypeOK, Crash
<1>5. InTurn \in Slots
  BY DEF Slots
<1>6. TypeOK'
  BY <1>1, <1>2, <1>3, <1>4 DEF TypeOK, Pending
<1>7. Settled' = Settled
  BY <1>2 DEF Settled, Started
<1>8. NoEventLost'
  BY <1>1, <1>2, <1>7 DEF NoEventLost, Pending
<1>9. AckIsEarned'
  <2>1. \A b \in Consumers, s \in Slots : b # c => Entry(b, s)' = Entry(b, s)
    BY <1>3 DEF Entry
  <2> QED
    BY <1>1, <1>4, <1>7, <2>1 DEF AckIsEarned
<1>10. TurnHasEntry'
  BY <1>1, <1>3, <1>4, <1>5 DEF TurnHasEntry
<1> QED
  BY <1>6, <1>8, <1>9, <1>10 DEF IInv

LEMMA InitIInv == Init => IInv
<1> USE StreamAssumption
<1>1. SUFFICES ASSUME Init PROVE IInv
  OBVIOUS
<1>2. TypeOK
  BY <1>1 DEF Init, TypeOK, Pending
<1>3. NoEventLost
  BY <1>1 DEF Init, NoEventLost
<1>4. AckIsEarned /\ TurnHasEntry
  BY <1>1 DEF Init, AckIsEarned, TurnHasEntry, Slots
<1> QED
  BY <1>2, <1>3, <1>4 DEF IInv

LEMMA Inductive == IInv /\ [Next]_vars => IInv'
<1>1. SUFFICES ASSUME IInv, [Next]_vars PROVE IInv'
  OBVIOUS
<1>2. CASE UNCHANGED vars
  BY <1>1, <1>2 DEF vars, redis, loop, outcome, IInv, TypeOK, NoEventLost, AckIsEarned,
     TurnHasEntry, Pending, Settled, Started, Entry
<1>3. CASE Publish
  BY <1>1, <1>3, PublishKeeps
<1>4. CASE \E m \in Events : Elapse(m)
  BY <1>1, <1>4, ElapseKeeps
<1>5. ASSUME NEW c \in Consumers, Subscribe(c) \/ LoopStep(c) \/ Crash(c)
      PROVE  IInv'
  BY <1>1, <1>5, SubscribeKeeps, PollKeeps, AcquireKeeps, ReclaimKeeps, TakeNextKeeps,
     NoneLeftKeeps, CrashKeeps DEF LoopStep
<1>6. ASSUME NEW c \in Consumers, NEW s \in Slots, HandlerStep(c, s)
      PROVE  IInv'
  BY <1>1, <1>6, StartRunKeeps, RecordDeadLetterKeeps, AckEntryKeeps, HandlerRaisesKeeps
     DEF HandlerStep
<1> QED
  BY <1>1, <1>2, <1>3, <1>4, <1>5, <1>6 DEF Next

(* The variables of the stream, of its consumers and of what they caused   *)
(* keep their types: the cursor never passes the end of the stream, and an *)
(* entry that waits to be claimed is pending.                              *)
THEOREM StreamTypeCorrect == Spec => []TypeOK
<1>1. IInv => TypeOK
  BY DEF IInv
<1> QED
  BY <1>1, InitIInv, Inductive, PTL DEF Spec

(* An entry that the group has delivered is pending until a handler has    *)
(* dealt with it or it was dropped as poison, whichever step the process   *)
(* died at, however many consumers share the group and whatever fails.     *)
THEOREM NothingLost == Spec => []NoEventLost
<1>1. IInv => NoEventLost
  BY DEF IInv
<1> QED
  BY <1>1, InitIInv, Inductive, PTL DEF Spec
-----------------------------------------------------------------------------
(* How many handlers run at a time.                                        *)

Undelivered == \A m \in Undecodable : delivered[m] = 0

(* A permit is held by each busy task: what the semaphore counts. *)
PermitsKept(c) == Cardinality(Busy(c)) <= MaxConcurrent

(* A task belongs to an entry that was delivered. *)
TasksDelivered(c) == \A m \in Events : task[c][m] # "none" => delivered[m] > 0

(* As long as gather is never interrupted, the tasks of a process are those *)
(* of the batch that its loop waits for.                                   *)
LoopWaits(c) ==
    Undelivered => \A m \in Events : task[c][m] # "none" => mode[c] = "batch" /\ m \in batch[c]

TasksInv == \A c \in Consumers : PermitsKept(c) /\ TasksDelivered(c) /\ LoopWaits(c)

LEMMA BusyFinite ==
    ASSUME NEW S, S \subseteq Slots
    PROVE  IsFiniteSet(S) /\ Cardinality(S) \in Nat
<1>1. Slots \subseteq 0..MaxEvents
  BY StreamAssumption DEF Slots, Events, InTurn
<1>2. IsFiniteSet(0..MaxEvents)
  BY StreamAssumption, FS_Interval
<1>3. IsFiniteSet(S)
  BY <1>1, <1>2, FS_Subset
<1> QED
  BY <1>3, FS_CardinalityType

(* A step of c in which its busy tasks only get fewer. *)
LEMMA FewerBusy ==
    ASSUME NEW c \in Consumers, PermitsKept(c), Busy(c)' \subseteq Busy(c)
    PROVE  PermitsKept(c)'
<1>1. Busy(c) \subseteq Slots
  BY DEF Busy, Slots
<1>2. IsFiniteSet(Busy(c)) /\ Cardinality(Busy(c)) \in Nat
  BY <1>1, BusyFinite
<1>3. Cardinality(Busy(c)') <= Cardinality(Busy(c)) /\ Cardinality(Busy(c)') \in Nat
  BY <1>1, <1>2, FS_Subset, BusyFinite
<1> QED
  BY <1>2, <1>3, StreamAssumption DEF PermitsKept

(* The other consumers are not concerned by a step of c. *)
LEMMA OthersTasksKept ==
    ASSUME TypeOK, TasksInv, NEW c \in Consumers,
           \A m \in Events : delivered'[m] \in Nat /\ delivered'[m] >= delivered[m],
           \A b \in Consumers : b # c => /\ \A m \in Events : task'[b][m] = task[b][m]
                                         /\ mode'[b] = mode[b] /\ batch'[b] = batch[b],
           PermitsKept(c)', TasksDelivered(c)', LoopWaits(c)'
    PROVE  TasksInv'
<1>1. SUFFICES ASSUME NEW b \in Consumers, b # c
               PROVE  PermitsKept(b)' /\ TasksDelivered(b)' /\ LoopWaits(b)'
  BY DEF TasksInv
<1>2. PermitsKept(b) /\ TasksDelivered(b) /\ LoopWaits(b)
  BY DEF TasksInv
<1>3. Busy(b)' = Busy(b)
  BY <1>1 DEF Busy
<1>4. PermitsKept(b)'
  BY <1>2, <1>3 DEF PermitsKept
<1>5. TasksDelivered(b)'
  <2>1. \A m \in Events : delivered[m] \in Nat
    BY DEF TypeOK
  <2> QED
    BY <1>1, <1>2, <2>1 DEF TasksDelivered
<1>6. Undelivered' => Undelivered
  BY StreamAssumption DEF Undelivered, TypeOK
<1>7. LoopWaits(b)'
  BY <1>1, <1>2, <1>6 DEF LoopWaits
<1> QED
  BY <1>4, <1>5, <1>7

(* A delivery raises the counters of its entries and no other. *)
LEMMA DeliverCounts ==
    ASSUME TypeOK, NEW c \in Consumers, NEW S, S \subseteq Events, Deliver(c, S)
    PROVE  /\ \A m \in Events : delivered'[m] \in Nat /\ delivered'[m] >= delivered[m]
           /\ \A m \in S : delivered'[m] > 0
           /\ Undelivered' => Undelivered
<1>1. \A m \in Events : delivered[m] \in Nat
  BY DEF TypeOK
<1>2. \A m \in Events : delivered'[m] = IF m \in S THEN delivered[m] + 1 ELSE delivered[m]
  BY DEF Deliver
<1>3. \A m \in Events : delivered'[m] \in Nat /\ delivered'[m] >= delivered[m]
  BY <1>1, <1>2
<1>4. \A m \in S : delivered'[m] > 0
  BY <1>1, <1>2
<1>5. Undelivered' => Undelivered
  BY <1>1, <1>3, StreamAssumption DEF Undelivered
<1> QED
  BY <1>3, <1>4, <1>5

(* A step of c's loop that starts and ends outside a batch, or leaves a    *)
(* batch that is done, and touches no task of an entry.                    *)
LEMMA TurnStepKeepsTasks ==
    ASSUME TypeOK, TasksInv, NEW c \in Consumers,
           mode[c] # "batch" \/ batch[c] = {},
           \A m \in Events : task'[c][m] = task[c][m],
           \A m \in Events : delivered'[m] \in Nat /\ delivered'[m] >= delivered[m],
           \A b \in Consumers : b # c => /\ \A m \in Events : task'[b][m] = task[b][m]
                                         /\ mode'[b] = mode[b] /\ batch'[b] = batch[b]
    PROVE  TasksInv'
<1>1. PermitsKept(c) /\ TasksDelivered(c) /\ LoopWaits(c)
  BY DEF TasksInv
<1>2. Undelivered' => Undelivered
  BY StreamAssumption DEF Undelivered, TypeOK
<1>3. PermitsKept(c)'
  BY <1>1, FewerBusy DEF Busy
<1>4. TasksDelivered(c)'
  <2>1. \A m \in Events : delivered[m] \in Nat
    BY DEF TypeOK
  <2> QED
    BY <1>1, <2>1 DEF TasksDelivered
<1>5. LoopWaits(c)'
  BY <1>1, <1>2 DEF LoopWaits
<1> QED
  BY <1>3, <1>4, <1>5, OthersTasksKept

LEMMA PollKeepsTasks ==
    ASSUME IInv, TasksInv, NEW c \in Consumers, Poll(c)
    PROVE  TasksInv'
<1> USE StreamAssumption
<1> DEFINE new == {m \in Events : m > cursor /\ m <= sent /\ m <= cursor + ReadCount}
<1>1. /\ mode[c] = "poll" /\ Deliver(c, new) /\ Enter(c, "batch", new)
      /\ task' = [task EXCEPT ![c] = [s \in Slots |-> IF s \in new THEN "waiting" ELSE @[s]]]
  BY DEF Poll
<1>2. TypeOK /\ PermitsKept(c) /\ TasksDelivered(c) /\ LoopWaits(c)
  BY DEF IInv, TasksInv
<1>3. new \subseteq Events
  OBVIOUS
<1> HIDE DEF new
<1>4. /\ \A m \in Events : task'[c][m] = IF m \in new THEN "waiting" ELSE task[c][m]
      /\ \A b \in Consumers : b # c => task'[b] = task[b]
  BY <1>1, <1>2 DEF TypeOK, Slots
<1>5. mode'[c] = "batch" /\ batch'[c] = new
  BY <1>1, <1>2 DEF Enter, TypeOK
<1>6. \A b \in Consumers : b # c => mode'[b] = mode[b] /\ batch'[b] = batch[b]
  BY <1>1, <1>2 DEF Enter, TypeOK
<1>7. /\ \A m \in Events : delivered'[m] \in Nat /\ delivered'[m] >= delivered[m]
      /\ \A m \in new : delivered'[m] > 0
      /\ Undelivered' => Undelivered
  BY <1>1, <1>2, <1>3, DeliverCounts
<1>8. PermitsKept(c)'
  BY <1>2, <1>4, FewerBusy DEF Busy
<1>9. TasksDelivered(c)'
  BY <1>2, <1>4, <1>7 DEF TasksDelivered, TypeOK
<1>10. LoopWaits(c)'
  BY <1>1, <1>2, <1>4, <1>5, <1>7 DEF LoopWaits
<1> QED
  BY <1>2, <1>4, <1>6, <1>7, <1>8, <1>9, <1>10, OthersTasksKept

LEMMA AcquireKeepsTasks ==
    ASSUME IInv, TasksInv, NEW c \in Consumers, Acquire(c)
    PROVE  TasksInv'
<1> USE StreamAssumption
<1>1. TypeOK /\ PermitsKept(c) /\ TasksDelivered(c) /\ LoopWaits(c)
  BY DEF IInv, TasksInv
<1>2. delivered' = delivered /\ Cardinality(Busy(c)) < MaxConcurrent
  BY DEF Acquire, redis
<1>3. Least(Waiting(c)) \in Waiting(c)
  BY LeastIsMember DEF Acquire, Waiting
<1>4. PICK m \in Events :
          /\ task[c][m] = "waiting"
          /\ \/ /\ m \in Undecodable
                /\ task' = [task EXCEPT ![c][m] = "none"]
                /\ Enter(c, "poll", {}) \/ UNCHANGED <<mode, batch>>
             \/ task' = [task EXCEPT ![c][m] = "calling"] /\ UNCHANGED <<mode, batch>>
  BY <1>3 DEF Acquire, Waiting
<1>5. m \in Slots
  BY DEF Slots
<1>6. /\ task'[c][m] \in {"none", "calling"}
      /\ \A b \in Consumers, s \in Slots : b # c \/ s # m => task'[b][s] = task[b][s]
  <2>1. PICK v \in {"none", "calling"} : task' = [task EXCEPT ![c][m] = v]
    BY <1>4
  <2> QED
    BY <1>1, <1>5, <2>1, SlotSet
<1>7. \A b \in Consumers : b # c => mode'[b] = mode[b] /\ batch'[b] = batch[b]
  BY <1>1, <1>4 DEF TypeOK, Enter
<1>8. delivered[m] > 0 /\ \A n \in Events : delivered[n] \in Nat
  BY <1>1, <1>4 DEF TasksDelivered, TypeOK
<1>9. PermitsKept(c)'
  <2>1. Busy(c) \subseteq Slots /\ Busy(c)' \subseteq Busy(c) \cup {m} /\ Busy(c) \cup {m} \subseteq Slots
    BY <1>5, <1>6 DEF Busy, Slots
  <2>2. IsFiniteSet(Busy(c)) /\ Cardinality(Busy(c)) \in Nat
    BY <2>1, BusyFinite
  <2>3. /\ IsFiniteSet(Busy(c) \cup {m})
        /\ Cardinality(Busy(c) \cup {m}) \in {Cardinality(Busy(c)), Cardinality(Busy(c)) + 1}
    BY <2>2, FS_AddElement
  <2>4. Cardinality(Busy(c)') \in Nat /\ Cardinality(Busy(c)') <= Cardinality(Busy(c) \cup {m})
    BY <2>1, <2>3, FS_Subset, BusyFinite
  <2> QED
    BY <1>2, <2>2, <2>3, <2>4 DEF PermitsKept
<1>10. \A n \in Events : task'[c][n] # "none" => task[c][n] # "none"
  BY <1>4, <1>6 DEF Slots
<1>11. TasksDelivered(c)'
  BY <1>1, <1>2, <1>10 DEF TasksDelivered
<1>12. LoopWaits(c)'
  <2>1. CASE m \in Undecodable
    BY <1>2, <1>8, <2>1 DEF LoopWaits, Undelivered
  <2>2. CASE m \notin Undecodable
    BY <1>1, <1>2, <1>4, <1>10, <2>2 DEF LoopWaits, Undelivered
  <2> QED
    BY <2>1, <2>2
<1> QED
  BY <1>1, <1>2, <1>6, <1>7, <1>8, <1>9, <1>11, <1>12, OthersTasksKept DEF Slots

LEMMA LoopStepKeepsTasks ==
    ASSUME IInv, TasksInv, NEW c \in Consumers, Subscribe(c) \/ LoopStep(c)
    PROVE  TasksInv'
<1>1. TypeOK /\ \A m \in Events : m \in Slots /\ m # InTurn
  BY DEF IInv, Slots, Events, InTurn
<1>2. CASE Poll(c)
  BY <1>2, PollKeepsTasks
<1>3. CASE Acquire(c)
  BY <1>3, AcquireKeepsTasks
<1>4. CASE Subscribe(c) \/ Reclaim(c)
  <2>1. idle \subseteq Events
    BY <1>1 DEF TypeOK, Pending
  <2>2. PICK S \in SUBSET Events, n \in {"recover", "reclaim"} :
            Deliver(c, S) /\ Enter(c, n, S) /\ task' = task /\ (mode[c] # "batch" \/ batch[c] = {})
    BY <1>4, <2>1 DEF Subscribe, Reclaim, Reached
  <2>3. \A b \in Consumers : b # c => mode'[b] = mode[b] /\ batch'[b] = batch[b]
    BY <1>1, <2>2 DEF Enter, TypeOK
  <2>4. \A m \in Events : delivered'[m] \in Nat /\ delivered'[m] >= delivered[m]
    BY <1>1, <2>2, DeliverCounts
  <2> QED
    BY <1>1, <2>2, <2>3, <2>4, TurnStepKeepsTasks
<1>5. CASE TakeNext(c) \/ NoneLeft(c)
  <2>1. mode[c] # "batch" /\ delivered' = delivered
    BY <1>5 DEF TakeNext, NoneLeft, HandleInTurn, DropPoison, Ack, redis
  <2>2. task' = task \/ task' = [task EXCEPT ![c][InTurn] = "calling"]
    BY <1>5 DEF TakeNext, NoneLeft, HandleInTurn, DropPoison
  <2>3. \A b \in Consumers, m \in Events : task'[b][m] = task[b][m]
    <3>1. InTurn \in Slots
      BY DEF Slots
    <3>2. CASE task' = [task EXCEPT ![c][InTurn] = "calling"]
      BY <1>1, <3>1, <3>2, SlotSet
    <3> QED
      BY <2>2, <3>2
  <2>4. \A b \in Consumers : b # c => mode'[b] = mode[b] /\ batch'[b] = batch[b]
    BY <1>1, <1>5 DEF TakeNext, NoneLeft, HandleInTurn, DropPoison, Enter, TypeOK
  <2>5. \A m \in Events : delivered'[m] \in Nat /\ delivered'[m] >= delivered[m]
    BY <1>1, <2>1 DEF TypeOK
  <2> QED
    BY <1>1, <2>1, <2>3, <2>4, <2>5, TurnStepKeepsTasks
<1> QED
  BY <1>2, <1>3, <1>4, <1>5 DEF LoopStep

LEMMA HandlerStepKeepsTasks ==
    ASSUME IInv, TasksInv, NEW c \in Consumers, NEW s \in Slots, HandlerStep(c, s)
    PROVE  TasksInv'
<1>1. TypeOK /\ TurnHasEntry /\ PermitsKept(c) /\ TasksDelivered(c) /\ LoopWaits(c)
  BY DEF IInv, TasksInv
<1>2. task[c][s] \in {"calling", "acking"}
  BY DEF HandlerStep, StartRun, RecordDeadLetter, AckEntry, HandlerRaises
<1>3. mode' = mode /\ delivered' = delivered
  BY DEF HandlerStep, StartRun, RecordDeadLetter, AckEntry, HandlerRaises, Finish, Ack, redis
<1>4. PICK v \in {"none", "acking"} :
          /\ task' = [task EXCEPT ![c][s] = v]
          /\ batch' = batch \/ (v = "none" /\ batch' = [batch EXCEPT ![c] = @ \ {Entry(c, s)}])
  BY DEF HandlerStep, StartRun, RecordDeadLetter, AckEntry, HandlerRaises, Finish
<1>5. /\ task'[c][s] = v
      /\ \A b \in Consumers, t \in Slots : b # c \/ t # s => task'[b][t] = task[b][t]
  <2>1. task' = [task EXCEPT ![c][s] = v]
    BY <1>4
  <2>2. DOMAIN task = Consumers /\ \A b \in Consumers : DOMAIN task[b] = Slots
    BY <1>1 DEF TypeOK
  <2>3. /\ task'[c] = [task[c] EXCEPT ![s] = v]
        /\ \A b \in Consumers \ {c} : task'[b] = task[b]
    BY <2>1, <2>2
  <2> QED
    BY <2>2, <2>3
<1>6. \A m \in Events : m \in Slots /\ m # InTurn
  BY DEF Slots, Events, InTurn
<1>7. \A m \in Events : task'[c][m] # "none" => task[c][m] # "none"
  BY <1>2, <1>5, <1>6
<1>8. PermitsKept(c)'
  <2>1. Busy(c)' \subseteq Busy(c)
    BY <1>2, <1>5, <1>6 DEF Busy
  <2> QED
    BY <1>1, <2>1, FewerBusy
<1>9. TasksDelivered(c)'
  BY <1>1, <1>3, <1>7 DEF TasksDelivered
<1>10. LoopWaits(c)'
  <2>1. CASE s = InTurn
    <3>1. mode[c] # "batch"
      BY <1>1, <1>2, <2>1 DEF TurnHasEntry
    <3> QED
      BY <1>1, <1>3, <1>7, <3>1 DEF LoopWaits, Undelivered
  <2>2. CASE s # InTurn
    <3>1. Entry(c, s) = s /\ (s \in Events => (task'[c][s] # "none" => batch' = batch))
      BY <1>4, <1>5, <2>2 DEF Entry
    <3>2. \A m \in Events : task'[c][m] # "none" /\ m \in batch[c] => m \in batch'[c]
      BY <1>1, <1>4, <1>5, <3>1 DEF TypeOK
    <3> QED
      BY <1>1, <1>3, <1>7, <3>2 DEF LoopWaits, Undelivered
  <2> QED
    BY <2>1, <2>2
<1>11. \A b \in Consumers : b # c => mode'[b] = mode[b] /\ batch'[b] = batch[b]
  BY <1>1, <1>3, <1>4 DEF TypeOK
<1>12. \A m \in Events : delivered'[m] \in Nat /\ delivered'[m] >= delivered[m]
  BY <1>1, <1>3 DEF TypeOK
<1> QED
  BY <1>1, <1>5, <1>6, <1>8, <1>9, <1>10, <1>11, <1>12, OthersTasksKept

LEMMA CrashKeepsTasks ==
    ASSUME IInv, TasksInv, NEW c \in Consumers, Crash(c)
    PROVE  TasksInv'
<1>1. TypeOK /\ PermitsKept(c) /\ delivered' = delivered
  BY DEF IInv, TasksInv, Crash, redis
<1>2. /\ \A m \in Events : task'[c][m] = "none"
      /\ \A b \in Consumers : b # c => task'[b] = task[b]
  BY <1>1 DEF Crash, TypeOK, Slots
<1>3. \A b \in Consumers : b # c => mode'[b] = mode[b] /\ batch'[b] = batch[b]
  BY <1>1 DEF Crash, Enter, TypeOK
<1>4. PermitsKept(c)'
  <2>1. Busy(c)' = {}
    BY <1>2 DEF Busy
  <2> QED
    BY <1>1, <2>1, FewerBusy
<1>5. TasksDelivered(c)' /\ LoopWaits(c)'
  BY <1>2 DEF TasksDelivered, LoopWaits
<1>6. \A m \in Events : delivered'[m] \in Nat /\ delivered'[m] >= delivered[m]
  BY <1>1 DEF TypeOK
<1> QED
  BY <1>1, <1>2, <1>3, <1>4, <1>5, <1>6, OthersTasksKept

LEMMA InitTasksInv == Init => TasksInv
<1>1. SUFFICES ASSUME Init, NEW c \in Consumers
               PROVE  PermitsKept(c) /\ TasksDelivered(c) /\ LoopWaits(c)
  BY DEF TasksInv
<1>2. \A m \in Events : task[c][m] = "none"
  BY <1>1 DEF Init, Slots
<1>3. Busy(c) = {}
  BY <1>2 DEF Busy
<1>4. PermitsKept(c)
  BY <1>3, FS_EmptySet, StreamAssumption DEF PermitsKept
<1> QED
  BY <1>2, <1>4 DEF TasksDelivered, LoopWaits

LEMMA TasksInductive == IInv /\ TasksInv /\ [Next]_vars => TasksInv'
<1>1. SUFFICES ASSUME IInv, TasksInv, [Next]_vars PROVE TasksInv'
  OBVIOUS
<1>2. CASE UNCHANGED <<mode, batch, task, delivered>>
  BY <1>1, <1>2 DEF TasksInv, PermitsKept, TasksDelivered, LoopWaits, Busy, Undelivered
<1>3. CASE UNCHANGED vars \/ Publish \/ \E m \in Events : Elapse(m)
  BY <1>2, <1>3 DEF vars, redis, loop, Publish, Elapse
<1>4. ASSUME NEW c \in Consumers, Subscribe(c) \/ LoopStep(c) \/ Crash(c)
      PROVE  TasksInv'
  BY <1>1, <1>4, LoopStepKeepsTasks, CrashKeepsTasks
<1>5. ASSUME NEW c \in Consumers, NEW s \in Slots, HandlerStep(c, s)
      PROVE  TasksInv'
  BY <1>1, <1>5, HandlerStepKeepsTasks
<1> QED
  BY <1>1, <1>3, <1>4, <1>5 DEF Next

(* The handler that takes no permit is the only one, unless a payload that *)
(* does not parse has made the loop forget its batch.                      *)
LEMMA TasksAreBounded == IInv /\ TasksInv => HandlersBounded
<1> USE StreamAssumption
<1>1. SUFFICES ASSUME IInv, TasksInv, NEW c \in Consumers
               PROVE  Cardinality({s \in Slots : task[c][s] \in {"calling", "acking"}})
                          <= IF Undelivered THEN MaxConcurrent ELSE MaxConcurrent + 1
  BY DEF HandlersBounded, Undelivered
<1> DEFINE H == {s \in Slots : task[c][s] \in {"calling", "acking"}}
<1>2. TurnHasEntry /\ PermitsKept(c) /\ LoopWaits(c)
  BY <1>1 DEF IInv, TasksInv
<1>3. H \subseteq Busy(c) \cup {InTurn} /\ Busy(c) \subseteq Slots /\ H \subseteq Slots
  BY DEF Busy, Slots
<1>4. IsFiniteSet(Busy(c)) /\ Cardinality(Busy(c)) \in Nat /\ Cardinality(H) \in Nat
  BY <1>3, BusyFinite
<1>5. CASE InTurn \notin H
  <2>1. H \subseteq Busy(c)
    BY <1>3, <1>5
  <2>2. Cardinality(H) <= Cardinality(Busy(c))
    BY <1>4, <2>1, FS_Subset
  <2> QED
    BY <1>2, <1>4, <2>2 DEF PermitsKept
<1>6. CASE InTurn \in H
  <2>1. mode[c] # "batch"
    BY <1>2, <1>6 DEF TurnHasEntry
  <2>2. CASE Undelivered
    <3>1. Busy(c) = {}
      BY <1>2, <2>1, <2>2 DEF LoopWaits, Busy
    <3>2. H = {InTurn}
      BY <1>3, <1>6, <3>1
    <3>3. Cardinality(H) = 1
      BY <3>2, FS_Singleton
    <3> QED
      BY <2>2, <3>3
  <2>3. CASE ~Undelivered
    <3>1. /\ IsFiniteSet(Busy(c) \cup {InTurn})
          /\ Cardinality(Busy(c) \cup {InTurn}) \in {Cardinality(Busy(c)), Cardinality(Busy(c)) + 1}
      BY <1>4, FS_AddElement
    <3>2. Cardinality(H) <= Cardinality(Busy(c) \cup {InTurn})
      BY <1>3, <3>1, FS_Subset
    <3> HIDE DEF H
    <3>3. Cardinality(H) <= MaxConcurrent + 1
      BY <1>2, <1>4, <3>1, <3>2 DEF PermitsKept
    <3> QED
      BY <2>3, <3>3 DEF H
  <2> QED
    BY <2>2, <2>3
<1> QED
  BY <1>5, <1>6

(* A process runs at most MaxConcurrent handlers, and one more once a      *)
(* payload that does not parse was delivered: handlers of claimed entries  *)
(* take no permit, and they run when no task of a batch does.              *)
THEOREM ConcurrencyIsBounded == Spec => []HandlersBounded
<1>1. Init => IInv /\ TasksInv
  BY InitIInv, InitTasksInv
<1>2. IInv /\ TasksInv /\ [Next]_vars => (IInv /\ TasksInv)'
  BY Inductive, TasksInductive
<1> QED
  BY <1>1, <1>2, TasksAreBounded, PTL DEF Spec
=============================================================================
