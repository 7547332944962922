--------------------------- MODULE UploadStream ---------------------------
(***************************************************************************)
(* How upload events reach Temporal: the Redis stream, its consumer group  *)
(* and RedisMQService's poll loop (redis_mq.py), with trigger_workflow_async *)
(* as the handler.                                                         *)
(*                                                                         *)
(* The events are successive uploads of one document, numbered in stream   *)
(* order.  A handler asks Temporal to start a run, which supersedes the    *)
(* open run; then the entry is acknowledged.  An entry that is delivered   *)
(* and not acknowledged stays in the group's pending list under the name   *)
(* of its consumer; a consumer reads its own pending entries when it       *)
(* starts, and claims those of anybody that have sat idle for half a       *)
(* minute after each batch.                                                *)
(***************************************************************************)
EXTENDS Integers, Sequences, FiniteSets

CONSTANTS
    MaxEvents,      \* how many events are published (bound)
    Consumers,      \* consumer names: group, host and process id
    Nobody,         \* the owner of an entry that is not pending
    ReadCount,      \* entries per XREADGROUP, 10 in the code
    MaxConcurrent,  \* permits of the handler semaphore
    MaxDeliveries,  \* deliveries after which an entry is dropped, 5 in the code
    MaxCrashes,     \* how often a consumer process dies (bound)
    Undecodable,    \* events whose payload is not JSON
    Invalid,        \* events that are JSON and no DocumentUploadMessage
    Faults          \* the failures that may happen, see below

FaultKinds ==
    {"handler",  \* the handler or the acknowledgement raises
     "slow",     \* a handler is still busy after the idle threshold
     "redis",    \* a Redis command of the loop fails
     "db"}       \* the dead-letter table cannot be written

Events == 1..MaxEvents
InTurn == 0      \* the slot of the handler that is called without a permit
Slots == Events \cup {InTurn}

ASSUME StreamAssumption ==
    /\ MaxEvents \in Nat /\ MaxCrashes \in Nat
    /\ ReadCount \in Nat \ {0} /\ MaxConcurrent \in Nat \ {0}
    /\ MaxDeliveries \in Nat
    /\ Nobody \notin Consumers
    /\ Undecodable \subseteq Events /\ Invalid \subseteq Events
    /\ Faults \subseteq FaultKinds

VARIABLES
    \* Redis
    sent,       \* the last entry added to the stream
    cursor,     \* the group's last-delivered entry
    owner,      \* the pending list: the consumer an entry is delivered to
    delivered,  \* delivery counter of each entry
    idle,       \* pending entries idle past reclaim_min_idle_ms
    \* the consumer processes
    mode,       \* what the poll loop does
    batch,      \* the entries the loop still has to see done
    task,       \* the handlers: one slot per entry, and one InTurn
    crashes,
    \* Temporal and the dead-letter table
    starts,     \* the events for which a run was started, in order
    deadLetters,\* the invalid events on record
    \* history
    dropped     \* entries acknowledged as poison

redis == <<sent, cursor, owner, delivered, idle>>
loop == <<mode, batch, task>>
outcome == <<starts, deadLetters>>
vars == <<redis, loop, crashes, outcome, dropped>>

Least(S) == CHOOSE x \in S : \A y \in S : x <= y

Pending == {m \in Events : owner[m] # Nobody}

(* The entry that a handler slot works on. *)
Entry(c, s) == IF s = InTurn THEN Least(batch[c]) ELSE s

Busy(c) == {m \in Events : task[c][m] \in {"calling", "acking"}}
Waiting(c) == {m \in Events : task[c][m] = "waiting"}

(* Some live process holds entry m. *)
Held(m) ==
    \E c \in Consumers :
        task[c][m] # "none" \/ (mode[c] \in {"recover", "reclaim"} /\ m \in batch[c])

-----------------------------------------------------------------------------
(* Redis. *)

Publish ==
    /\ sent < MaxEvents
    /\ sent' = sent + 1
    /\ UNCHANGED <<cursor, owner, delivered, idle, loop, crashes, outcome, dropped>>

(* The idle time of a pending entry passes the threshold. *)
Elapse(m) ==
    /\ m \in Pending \ idle
    /\ "slow" \in Faults \/ ~Held(m)
    /\ idle' = idle \cup {m}
    /\ UNCHANGED <<sent, cursor, owner, delivered, loop, crashes, outcome, dropped>>

(* XREADGROUP and XAUTOCLAIM deliver the entries of S to c. *)
Deliver(c, S) ==
    /\ owner' = [m \in Events |-> IF m \in S THEN c ELSE owner[m]]
    /\ delivered' = [m \in Events |-> IF m \in S THEN delivered[m] + 1 ELSE delivered[m]]
    /\ idle' = idle \ S
    /\ UNCHANGED sent

(* XACK, whoever owns the entry. *)
Ack(m) ==
    /\ owner' = [owner EXCEPT ![m] = Nobody]
    /\ idle' = idle \ {m}
    /\ UNCHANGED <<sent, cursor, delivered>>

-----------------------------------------------------------------------------
(* The poll loop. *)

Enter(c, m, S) ==
    /\ mode' = [mode EXCEPT ![c] = m]
    /\ batch' = [batch EXCEPT ![c] = S]

(* The entries of S, or none when the command fails. *)
Reached(S) == IF "redis" \in Faults THEN {S, {}} ELSE {S}

(* A consumer starts and reads its own pending entries: _process_pending. *)
Subscribe(c) ==
    /\ mode[c] = "down"
    /\ \E own \in Reached({m \in Events : owner[m] = c}) :
          Deliver(c, own) /\ Enter(c, "recover", own)
    /\ UNCHANGED <<cursor, task, crashes, outcome, dropped>>

(* New entries arrive; each gets a task that waits for a permit. *)
Poll(c) ==
    /\ mode[c] = "poll" /\ cursor < sent
    /\ LET new == {m \in Events : m > cursor /\ m <= sent /\ m <= cursor + ReadCount}
       IN  /\ Deliver(c, new)
           /\ cursor' = IF cursor + ReadCount < sent THEN cursor + ReadCount ELSE sent
           /\ Enter(c, "batch", new)
           /\ task' = [task EXCEPT ![c] =
                          [s \in Slots |-> IF s \in new THEN "waiting" ELSE @[s]]]
    /\ UNCHANGED <<crashes, outcome, dropped>>

(* Broken variant: a payload that does not parse is acknowledged. *)
AcquireAcksUndecodable(c) ==
    /\ mode[c] # "down" /\ Waiting(c) # {}
    /\ Cardinality(Busy(c)) < MaxConcurrent
    /\ LET m == Least(Waiting(c))
       IN  IF m \in Undecodable
           THEN /\ task' = [task EXCEPT ![c][m] = "none"]
                /\ batch' = [batch EXCEPT ![c] = @ \ {m}]
                /\ Ack(m) /\ UNCHANGED mode
           ELSE task' = [task EXCEPT ![c][m] = "calling"] /\ UNCHANGED <<redis, mode, batch>>
    /\ UNCHANGED <<crashes, outcome, dropped>>

(* The semaphore serves the tasks in order.  A payload that does not parse *)
(* raises out of gather: the loop goes back to polling and leaves the      *)
(* other tasks of the batch running.                                       *)
Acquire(c) ==
    /\ mode[c] # "down" /\ Waiting(c) # {}
    /\ Cardinality(Busy(c)) < MaxConcurrent
    /\ LET m == Least(Waiting(c))
       IN  IF m \in Undecodable
           THEN /\ task' = [task EXCEPT ![c][m] = "none"]
                /\ IF mode[c] = "batch" /\ m \in batch[c]
                   THEN Enter(c, "poll", {})
                   ELSE UNCHANGED <<mode, batch>>
           ELSE task' = [task EXCEPT ![c][m] = "calling"] /\ UNCHANGED <<mode, batch>>
    /\ UNCHANGED <<redis, crashes, outcome, dropped>>

(* Broken variant: the loop claims without waiting for its batch. *)
ReclaimEarly(c) ==
    /\ mode[c] = "batch"
    /\ Deliver(c, idle)
    /\ Enter(c, "reclaim", idle)
    /\ UNCHANGED <<cursor, task, crashes, outcome, dropped>>

(* The batch is done: claim what has sat idle, of any consumer.  An empty  *)
(* poll never comes here.                                                  *)
Reclaim(c) ==
    /\ mode[c] = "batch" /\ batch[c] = {}
    /\ \E claimed \in Reached(idle) :
          Deliver(c, claimed) /\ Enter(c, "reclaim", claimed)
    /\ UNCHANGED <<cursor, task, crashes, outcome, dropped>>

(* What _delivery_count may answer: an entry acknowledged meanwhile counts *)
(* as new, and so does any entry when Redis cannot say.                    *)
DeliveryCount(m) ==
    {IF owner[m] = Nobody THEN 1 ELSE delivered[m]}
        \cup (IF "redis" \in Faults THEN {1} ELSE {})

(* The entry at hand goes to the handler.  A payload that does not parse   *)
(* raises out of the loop over the entries.                                *)
HandleInTurn(c) ==
    /\ IF Least(batch[c]) \in Undecodable
       THEN Enter(c, "poll", {}) /\ UNCHANGED task
       ELSE task' = [task EXCEPT ![c][InTurn] = "calling"] /\ UNCHANGED <<mode, batch>>
    /\ UNCHANGED <<redis, dropped>>

(* The entry at hand was delivered too often.  If its acknowledgement      *)
(* fails, that raises too.                                                 *)
DropPoison(c) ==
    LET m == Least(batch[c]) IN
        \/ /\ Ack(m)
           /\ dropped' = dropped \cup {m}
           /\ batch' = [batch EXCEPT ![c] = @ \ {m}]
           /\ UNCHANGED <<mode, task>>
        \/ /\ "redis" \in Faults
           /\ Enter(c, "poll", {})
           /\ UNCHANGED <<redis, task, dropped>>

(* The entries recovered or claimed are handled one by one, in order. *)
TakeNext(c) ==
    /\ mode[c] \in {"recover", "reclaim"}
    /\ batch[c] # {} /\ task[c][InTurn] = "none"
    /\ \/ mode[c] = "recover" /\ HandleInTurn(c)
       \/ /\ mode[c] = "reclaim"
          /\ \E n \in DeliveryCount(Least(batch[c])) :
                \/ n > MaxDeliveries /\ DropPoison(c)
                \/ n <= MaxDeliveries /\ HandleInTurn(c)
    /\ UNCHANGED <<crashes, outcome>>

NoneLeft(c) ==
    /\ mode[c] \in {"recover", "reclaim"} /\ batch[c] = {}
    /\ Enter(c, "poll", {})
    /\ UNCHANGED <<redis, task, crashes, outcome, dropped>>

-----------------------------------------------------------------------------
(* The handler, _handle_message and trigger_workflow_async. *)

(* start_workflow is accepted. *)
StartRun(c, s) ==
    /\ task[c][s] = "calling" /\ Entry(c, s) \notin Invalid
    /\ starts' = Append(starts, Entry(c, s))
    /\ task' = [task EXCEPT ![c][s] = "acking"]
    /\ UNCHANGED <<redis, mode, batch, crashes, deadLetters, dropped>>

(* An invalid message goes to the dead-letter table and the handler        *)
(* returns normally, also when that write fails.                           *)
RecordDeadLetter(c, s) ==
    /\ task[c][s] = "calling" /\ Entry(c, s) \in Invalid
    /\ \/ deadLetters' = deadLetters \cup {Entry(c, s)}
       \/ "db" \in Faults /\ UNCHANGED deadLetters
    /\ task' = [task EXCEPT ![c][s] = "acking"]
    /\ UNCHANGED <<redis, mode, batch, crashes, starts, dropped>>

(* The slot is free.  The loop has one entry less to wait for, unless the  *)
(* task was left over from a batch that it no longer waits for.            *)
Finish(c, s) ==
    /\ task' = [task EXCEPT ![c][s] = "none"]
    /\ IF s = InTurn \/ mode[c] = "batch"
       THEN batch' = [batch EXCEPT ![c] = @ \ {Entry(c, s)}]
       ELSE UNCHANGED batch
    /\ UNCHANGED <<mode, crashes>>

AckEntry(c, s) ==
    /\ task[c][s] = "acking"
    /\ Ack(Entry(c, s))
    /\ Finish(c, s)
    /\ UNCHANGED <<outcome, dropped>>

(* Broken variant: the loop is not told that the handler is done. *)
HandlerRaisesUnnoticed(c, s) ==
    /\ "handler" \in Faults
    /\ task[c][s] \in {"calling", "acking"}
    /\ task' = [task EXCEPT ![c][s] = "none"]
    /\ UNCHANGED <<redis, mode, batch, crashes, outcome, dropped>>

(* Temporal or Redis is unreachable: logged, and the entry stays pending. *)
HandlerRaises(c, s) ==
    /\ "handler" \in Faults
    /\ task[c][s] \in {"calling", "acking"}
    /\ Finish(c, s)
    /\ UNCHANGED <<redis, outcome, dropped>>

(* The process dies; what it was doing is lost, the pending list is not. *)
Crash(c) ==
    /\ mode[c] # "down" /\ crashes < MaxCrashes
    /\ crashes' = crashes + 1
    /\ Enter(c, "down", {})
    /\ task' = [task EXCEPT ![c] = [s \in Slots |-> "none"]]
    /\ UNCHANGED <<redis, outcome, dropped>>

-----------------------------------------------------------------------------
Init ==
    /\ sent = 0 /\ cursor = 0
    /\ owner = [m \in Events |-> Nobody]
    /\ delivered = [m \in Events |-> 0]
    /\ idle = {}
    /\ mode = [c \in Consumers |-> "down"]
    /\ batch = [c \in Consumers |-> {}]
    /\ task = [c \in Consumers |-> [s \in Slots |-> "none"]]
    /\ crashes = 0
    /\ starts = <<>> /\ deadLetters = {}
    /\ dropped = {}

LoopStep(c) == Poll(c) \/ Acquire(c) \/ Reclaim(c) \/ TakeNext(c) \/ NoneLeft(c)

HandlerStep(c, s) ==
    StartRun(c, s) \/ RecordDeadLetter(c, s) \/ AckEntry(c, s) \/ HandlerRaises(c, s)

Next ==
    \/ Publish
    \/ \E m \in Events : Elapse(m)
    \/ \E c \in Consumers :
          \/ Subscribe(c) \/ LoopStep(c) \/ Crash(c)
          \/ \E s \in Slots : HandlerStep(c, s)

Spec == Init /\ [][Next]_vars

(* A live process goes on, a handler call ends, time passes, and a process *)
(* that died is started again.                                             *)
Fairness ==
    /\ \A m \in Events : WF_vars(Elapse(m))
    /\ \A c \in Consumers : WF_vars(Subscribe(c)) /\ WF_vars(LoopStep(c))
    /\ \A c \in Consumers, s \in Slots : WF_vars(HandlerStep(c, s))

FairSpec == Spec /\ Fairness

-----------------------------------------------------------------------------
Started == {starts[i] : i \in 1..Len(starts)}

(* Every variable has its type. *)
TypeOK ==
    /\ sent \in 0..MaxEvents /\ cursor \in 0..sent
    /\ owner \in [Events -> Consumers \cup {Nobody}]
    /\ delivered \in [Events -> Nat]
    /\ idle \subseteq Pending
    /\ mode \in [Consumers -> {"down", "recover", "poll", "batch", "reclaim"}]
    /\ batch \in [Consumers -> SUBSET Events]
    /\ task \in [Consumers -> [Slots -> {"none", "waiting", "calling", "acking"}]]
    /\ crashes \in 0..MaxCrashes
    /\ starts \in Seq(Events) /\ deadLetters \subseteq Events
    /\ dropped \subseteq Events

(* The events that trigger_workflow_async has dealt with.  An invalid one  *)
(* counts when its dead letter cannot be written: _record_dead_letter      *)
(* never raises.                                                           *)
Settled ==
    Started \cup deadLetters \cup (IF "db" \in Faults THEN Invalid ELSE {})

(* No event is lost silently: an entry that the group has delivered is     *)
(* still pending, or the handler has started a run for it or put it on     *)
(* record, or it was dropped as poison after its deliveries                *)
(* (_handle_message acknowledges after the handler, at every crash point). *)
NoEventLost ==
    \A m \in 1..cursor : m \in Pending \/ m \in Settled \/ m \in dropped

(* At most MaxConcurrent handlers run in one process (#18), though those   *)
(* of claimed entries take no permit: the loop claims when its batch is    *)
(* done.  A payload that does not parse breaks the wait: once one has been *)
(* delivered, one more handler may run.                                    *)
HandlersBounded ==
    \A c \in Consumers :
        Cardinality({s \in Slots : task[c][s] \in {"calling", "acking"}})
            <= IF \A m \in Undecodable : delivered[m] = 0
               THEN MaxConcurrent ELSE MaxConcurrent + 1

(* The loop does not get stuck behind a handler that failed, a payload     *)
(* that does not parse or an entry that somebody else acknowledged.        *)
LoopReturns ==
    \A c \in Consumers : mode[c] # "poll" ~> mode[c] = "poll"
=============================================================================
