---------------------------- MODULE IntakeProofs ----------------------------
(***************************************************************************)
(* Proofs about Intake, for any number of requests, names and contents and *)
(* any choice of failures.                                                 *)
(***************************************************************************)
EXTENDS Intake, FiniteSetTheorems, TLAPS

Looking == {"findHash", "findName", "check", "put"}

(* A request that has not arrived has done nothing, and an event belongs   *)
(* to a request that is past publishing it.                                *)
Arrivals ==
    /\ \A r \in Requests : r > arrived => pc[r] = "idle"
    /\ \A r \in queued : pc[r] \in {"mark", "done"} /\ job[r].doc \in Documents

(* What an open request carries: an upload its own object and a hash, a    *)
(* refresh the document it has read.                                       *)
JobsAreReal ==
    \A r \in Requests : Open(r) =>
        /\ job[r].doc \in Documents /\ job[r].name \in Names /\ job[r].object \in Objects
        /\ pc[r] \in Looking => job[r].object = r /\ job[r].hash \in Contents
        /\ pc[r] \in {"check", "publish", "mark"} => Has(job[r].doc)
        /\ pc[r] \in {"persist", "publish", "mark"} => job[r].object \in stored
        /\ pc[r] = "persist" /\ job[r].hash = None => Has(job[r].doc)

(* Two open uploads of the same content are on record. *)
OverlapsAreKnown ==
    \A q, r \in Requests :
        q # r /\ Open(q) /\ Open(r) /\ job[q].hash = job[r].hash /\ job[r].hash # None
            => job[r].hash \in raced

(* An upload that has looked for its content knows the only document that  *)
(* may have it, short of a race.                                           *)
TargetIsUnique ==
    \A r \in Requests, d \in Documents :
        /\ pc[r] \in {"findName", "check", "put", "persist"} /\ job[r].hash # None
        /\ Has(d) /\ hash[d] = job[r].hash
        => (pc[r] # "findName" /\ d = job[r].doc) \/ hash[d] \in raced

(* The inductive invariant. *)
IInv ==
    /\ TypeOK /\ Arrivals /\ JobsAreReal
    /\ EventsAreReadable /\ PendingIsOwed
    /\ OverlapsAreKnown /\ TargetIsUnique /\ DuplicatesOnlyFromRaces

(* The type invariant by tables. *)
RequestTypes ==
    /\ arrived \in 0..MaxRequests
    /\ pc \in [Requests -> Steps]
    /\ job \in [Requests -> Jobs]
    /\ answer \in [Requests -> Answers]

RowTypes ==
    /\ status \in [Documents -> {"absent", "pending", "processed", "failed"}]
    /\ name \in [Documents -> Names \cup {None}]
    /\ object \in [Documents -> Objects \cup {None}]
    /\ hash \in [Documents -> Contents \cup {None}]
    /\ born \in [Documents -> Nat]
    /\ \A d \in Documents : Has(d) => name[d] # None /\ hash[d] # None

OtherTypes ==
    /\ stored \subseteq Objects /\ queued \subseteq Requests
    /\ indexed \in [Documents -> Contents \cup {None}]
    /\ orphans \subseteq Documents /\ raced \subseteq Contents

LEMMA TypeParts == TypeOK <=> RequestTypes /\ RowTypes /\ OtherTypes
  BY DEF TypeOK, RequestTypes, RowTypes, OtherTypes

(* What an invariant says, ready for use. *)
LEMMA Parts ==
    ASSUME IInv
    PROVE  /\ RequestTypes /\ RowTypes /\ OtherTypes
           /\ Arrivals /\ JobsAreReal /\ EventsAreReadable /\ PendingIsOwed
           /\ OverlapsAreKnown /\ TargetIsUnique /\ DuplicatesOnlyFromRaces
  BY TypeParts DEF IInv

(* Requests other than r stand still. *)
OthersWait(r) ==
    \A q \in Requests \ {r} : pc'[q] = pc[q] /\ job'[q] = job[q]

LEMMA UploadKeeps ==
    ASSUME IInv, NEW r \in Requests, NEW n \in Names, NEW c \in Contents, Upload(r, n, c)
    PROVE  IInv'
<1> USE Parts, IntakeAssumption DEF Requests, Documents, Objects
<1>1. r > arrived /\ arrived' = r /\ pc[r] = "idle" /\ r \notin queued
  BY DEF Upload, RequestTypes, Arrivals
<1>2. /\ pc'[r] = "findHash" /\ OthersWait(r)
      /\ job'[r] = [doc |-> r, name |-> n, object |-> r, hash |-> c]
  BY DEF Upload, Goto, OthersWait, RequestTypes
<1>3. UNCHANGED <<status, name, object, hash, born, stored, queued, indexed, orphans>>
  BY DEF Upload, row
<1>4. raced \subseteq raced' /\ raced' \subseteq raced \cup {c}
  BY DEF Upload
<1>5. (\E q \in Requests : Open(q) /\ job[q].hash = c) => c \in raced'
  BY DEF Upload
<1>6. RequestTypes' /\ RowTypes' /\ OtherTypes'
  <2>1. job' \in [Requests -> Jobs]
    BY DEF Upload, RequestTypes, Jobs
  <2>2. pc' \in [Requests -> Steps]
    BY DEF Upload, Goto, RequestTypes, Steps
  <2> QED
    BY <1>1, <1>3, <1>4, <2>1, <2>2 DEF RequestTypes, RowTypes, OtherTypes, Upload, Goto, Has
<1>7. Arrivals'
  <2>1. \A q \in queued' : q \in Requests \ {r}
    BY <1>1, <1>3 DEF OtherTypes
  <2>2. \A q \in queued' : pc'[q] \in {"mark", "done"} /\ job'[q].doc \in Documents
    BY <1>2, <1>3, <2>1 DEF Arrivals, OthersWait
  <2>3. \A q \in Requests : q > arrived' => pc'[q] = "idle"
    BY <1>1, <1>2 DEF Arrivals, OthersWait, RequestTypes
  <2> QED
    BY <2>2, <2>3 DEF Arrivals
<1>8. JobsAreReal'
  BY <1>2, <1>3 DEF JobsAreReal, OthersWait, Open, Has, Looking
<1>9. EventsAreReadable'
  BY <1>1, <1>2, <1>3 DEF EventsAreReadable, OthersWait, Has, OtherTypes
<1>10. PendingIsOwed'
  BY <1>1, <1>2, <1>3 DEF PendingIsOwed, OthersWait, OtherTypes
<1>11. OverlapsAreKnown'
  BY <1>2, <1>4, <1>5 DEF OverlapsAreKnown, OthersWait, Open
<1>12. TargetIsUnique'
  BY <1>2, <1>3, <1>4 DEF TargetIsUnique, OthersWait, Has
<1>13. DuplicatesOnlyFromRaces'
  BY <1>3, <1>4 DEF DuplicatesOnlyFromRaces, Has
<1> QED
  BY <1>6, <1>7, <1>8, <1>9, <1>10, <1>11, <1>12, <1>13, TypeParts
  DEF IInv, TypeOK, RequestTypes, RowTypes, OtherTypes

LEMMA RefreshKeeps ==
    ASSUME IInv, NEW r \in Requests, NEW d \in Documents, Refresh(r, d)
    PROVE  IInv'
<1> USE Parts, IntakeAssumption DEF Requests, Documents, Objects
<1>1. r > arrived /\ arrived' = r /\ pc[r] = "idle" /\ r \notin queued
  BY DEF Refresh, RequestTypes, Arrivals
<1>2. OthersWait(r)
  BY DEF Refresh, Goto, Reply, OthersWait, RequestTypes
<1>3. UNCHANGED <<status, name, object, hash, born, stored, queued, indexed, orphans, raced>>
  BY DEF Refresh, row
<1>4. \/ /\ pc'[r] = "persist" /\ Has(d)
         /\ job'[r] = [doc |-> d, name |-> name[d], object |-> object[d], hash |-> None]
      \/ pc'[r] = "done"
  BY DEF Refresh, Goto, Reply, RequestTypes
<1>5. Has(d) => name[d] \in Names /\ object[d] \in Objects /\ object[d] \in stored
  BY DEF RowTypes, OtherTypes, EventsAreReadable
<1>6. RequestTypes' /\ RowTypes' /\ OtherTypes'
  <2>1. job' \in [Requests -> Jobs]
    <3>1. CASE ~Has(d)
      BY <3>1 DEF Refresh, RequestTypes
    <3>2. CASE Has(d)
      <4>1. [doc |-> d, name |-> name[d], object |-> object[d], hash |-> None] \in Jobs
        BY <1>5, <3>2 DEF Jobs
      <4> QED
        BY <3>2, <4>1 DEF Refresh, RequestTypes
    <3> QED
      BY <3>1, <3>2
  <2>2. pc' \in [Requests -> Steps] /\ answer' \in [Requests -> Answers]
    BY DEF Refresh, Goto, Reply, RequestTypes, Steps, Answers
  <2> QED
    BY <1>1, <1>3, <2>1, <2>2 DEF RequestTypes, RowTypes, OtherTypes, Has
<1>7. Arrivals'
  BY <1>1, <1>2, <1>3 DEF Arrivals, OthersWait, OtherTypes, RequestTypes
<1>8. JobsAreReal'
  BY <1>2, <1>3, <1>4, <1>5 DEF JobsAreReal, OthersWait, Open, Has, Looking
<1>9. EventsAreReadable'
  BY <1>1, <1>2, <1>3 DEF EventsAreReadable, OthersWait, Has, OtherTypes
<1>10. PendingIsOwed'
  BY <1>1, <1>2, <1>3 DEF PendingIsOwed, OthersWait, OtherTypes
<1>11. OverlapsAreKnown'
  BY <1>2, <1>3, <1>4 DEF OverlapsAreKnown, OthersWait, Open
<1>12. TargetIsUnique'
  BY <1>2, <1>3, <1>4 DEF TargetIsUnique, OthersWait, Has
<1>13. DuplicatesOnlyFromRaces'
  BY <1>3 DEF DuplicatesOnlyFromRaces, Has
<1> QED
  BY <1>6, <1>7, <1>8, <1>9, <1>10, <1>11, <1>12, <1>13, TypeParts
  DEF IInv, TypeOK, RequestTypes, RowTypes, OtherTypes

(* A look-up moves on and may name another document. *)
LEMMA LookUpKeeps ==
    ASSUME IInv, NEW r \in Requests, FindByHash(r) \/ FindByName(r)
    PROVE  IInv'
<1> USE Parts, IntakeAssumption DEF Requests, Documents, Objects
<1>1. pc[r] \in {"findHash", "findName"} /\ Open(r) /\ job[r] \in Jobs
  BY DEF FindByHash, FindByName, Open, RequestTypes
<1>2. UNCHANGED <<arrived, answer, status, name, object, hash, born, stored, queued, indexed,
                  orphans, raced>>
  BY DEF FindByHash, FindByName, Goto, row
<1>3. job' = job \/ \E d \in Documents : Has(d) /\ job' = [job EXCEPT ![r].doc = d]
  BY DEF FindByHash, FindByName
<1>4. /\ job' \in [Requests -> Jobs]
      /\ job'[r].name = job[r].name /\ job'[r].object = job[r].object
      /\ job'[r].hash = job[r].hash /\ job'[r].doc \in Documents
  <2>1. CASE job' = job
    BY <1>1, <2>1 DEF JobsAreReal, RequestTypes
  <2>2. CASE \E d \in Documents : job' = [job EXCEPT ![r].doc = d]
    <3>1. PICK d \in Documents : job' = [job EXCEPT ![r].doc = d]
      BY <2>2
    <3>2. job'[r] = [job[r] EXCEPT !.doc = d]
      BY <3>1 DEF RequestTypes
    <3>3. job[r] = [doc |-> job[r].doc, name |-> job[r].name,
                    object |-> job[r].object, hash |-> job[r].hash]
      BY <1>1 DEF Jobs
    <3>4. job'[r] = [doc |-> d, name |-> job[r].name,
                     object |-> job[r].object, hash |-> job[r].hash]
      BY <3>2, <3>3
    <3>5. job'[r] \in Jobs
      BY <1>1, <3>4 DEF Jobs
    <3> QED
      BY <3>1, <3>4, <3>5 DEF RequestTypes
  <2> QED
    BY <1>3, <2>1, <2>2
<1>5. OthersWait(r) /\ pc' \in [Requests -> Steps]
  <2>1. \A q \in Requests \ {r} : job'[q] = job[q]
    <3>1. CASE job' = job
      BY <3>1
    <3>2. ASSUME NEW d \in Documents, job' = [job EXCEPT ![r].doc = d]
          PROVE  \A q \in Requests \ {r} : job'[q] = job[q]
      BY <3>2 DEF RequestTypes
    <3> QED
      BY <1>3, <3>1, <3>2
  <2>2. PICK step \in Steps : Goto(r, step)
    BY DEF FindByHash, FindByName, Steps
  <2> QED
    BY <2>1, <2>2 DEF Goto, OthersWait, RequestTypes
<1>6. \/ pc[r] = "findHash" /\ pc'[r] = "findName"
         /\ \A d \in Documents : Has(d) => hash[d] # job[r].hash
      \/ pc[r] = "findHash" /\ pc'[r] = "check"
         /\ Has(job'[r].doc) /\ hash[job'[r].doc] = job[r].hash
      \/ pc[r] = "findName" /\ pc'[r] = "put"
  <2>1. CASE FindByName(r)
    BY <2>1 DEF FindByName, Goto, RequestTypes
  <2>2. CASE FindByHash(r)
    <3> DEFINE same == {d \in Documents : Has(d) /\ hash[d] = job[r].hash}
    <3>1. CASE same = {} /\ Goto(r, "findName")
      BY <2>2, <3>1 DEF FindByHash, Goto, RequestTypes
    <3>2. CASE \E d \in same : Goto(r, "check") /\ job' = [job EXCEPT ![r].doc = d]
      <4>1. PICK d \in same : Goto(r, "check") /\ job' = [job EXCEPT ![r].doc = d]
        BY <3>2
      <4>2. job'[r] = [job[r] EXCEPT !.doc = d] /\ pc'[r] = "check"
        BY <4>1 DEF RequestTypes, Goto
      <4>3. job'[r].doc = d
        BY <1>1, <4>2 DEF Jobs
      <4> QED
        BY <2>2, <4>1, <4>2, <4>3 DEF FindByHash
    <3> QED
      BY <2>2, <3>1, <3>2 DEF FindByHash
  <2> QED
    BY <2>1, <2>2
<1>7. RequestTypes' /\ RowTypes' /\ OtherTypes'
  BY <1>2, <1>4, <1>5 DEF RequestTypes, RowTypes, OtherTypes, Has
<1>8. Arrivals'
  BY <1>1, <1>2, <1>5 DEF Arrivals, OthersWait, OtherTypes
<1>9. JobsAreReal'
  BY <1>1, <1>2, <1>4, <1>5, <1>6 DEF JobsAreReal, OthersWait, Open, Has, Looking
<1>10. r \notin queued
  BY <1>1 DEF Arrivals
<1>11. EventsAreReadable'
  BY <1>2, <1>5, <1>10 DEF EventsAreReadable, OthersWait, Has, OtherTypes
<1>12. PendingIsOwed'
  BY <1>1, <1>2, <1>5, <1>10 DEF PendingIsOwed, OthersWait, OtherTypes
<1>13. OverlapsAreKnown'
  BY <1>1, <1>2, <1>4, <1>5 DEF OverlapsAreKnown, OthersWait, Open
<1>14. TargetIsUnique'
  BY <1>2, <1>4, <1>5, <1>6 DEF TargetIsUnique, DuplicatesOnlyFromRaces, OthersWait, Has
<1>15. DuplicatesOnlyFromRaces'
  BY <1>2 DEF DuplicatesOnlyFromRaces, Has
<1> QED
  BY <1>7, <1>8, <1>9, <1>11, <1>12, <1>13, <1>14, <1>15
  DEF IInv, TypeOK, RequestTypes, RowTypes, OtherTypes

(* The checks that leave the row alone: the answer "identical", the stored *)
(* object, and a request that dies.                                        *)
LEMMA MoveOnKeeps ==
    ASSUME IInv, NEW r \in Requests, CheckIdentical(r) \/ PutObject(r) \/ Crash(r)
    PROVE  IInv'
<1> USE Parts, IntakeAssumption DEF Requests, Documents, Objects
<1>1. Open(r)
  BY DEF CheckIdentical, PutObject, Crash, Open
<1>2. UNCHANGED <<arrived, job, status, name, object, hash, born, queued, indexed, raced>>
  BY DEF CheckIdentical, PutObject, Crash, row
<1>3. \/ pc[r] = "check" /\ pc'[r] \in {"done", "put"} /\ stored' = stored /\ orphans' = orphans
      \/ pc[r] = "put" /\ pc'[r] = "done" /\ stored' = stored /\ orphans' = orphans
      \/ pc[r] = "put" /\ pc'[r] = "persist" /\ stored' = stored \cup {r} /\ orphans' = orphans
      \/ /\ pc'[r] = "done" /\ stored' = stored /\ orphans \subseteq orphans'
         /\ pc[r] \in {"publish", "mark"} => orphans' = orphans \cup {job[r].doc}
         /\ pc[r] \notin {"publish", "mark"} => orphans' = orphans
  BY DEF CheckIdentical, PutObject, Crash, Goto, Reply, RequestTypes
<1>4. OthersWait(r)
  BY <1>2 DEF CheckIdentical, PutObject, Crash, Goto, Reply, OthersWait, RequestTypes
<1>5. RequestTypes' /\ RowTypes' /\ OtherTypes'
  <2>1. pc' \in [Requests -> Steps] /\ answer' \in [Requests -> Answers]
    BY DEF CheckIdentical, PutObject, Crash, Goto, Reply, RequestTypes, Steps, Answers
  <2>2. stored' \subseteq Objects /\ orphans' \subseteq Documents
    BY <1>1, <1>3 DEF OtherTypes, JobsAreReal
  <2> QED
    BY <1>2, <2>1, <2>2 DEF RequestTypes, RowTypes, OtherTypes, Has
<1>6. Arrivals'
  BY <1>1, <1>2, <1>3, <1>4 DEF Arrivals, OthersWait, OtherTypes, RequestTypes, Open
<1>7. JobsAreReal'
  BY <1>1, <1>2, <1>3, <1>4 DEF JobsAreReal, OthersWait, Open, Has, Looking
<1>8. EventsAreReadable'
  BY <1>2, <1>3 DEF EventsAreReadable, Has
<1>9. PendingIsOwed'
  BY <1>2, <1>3, <1>4 DEF PendingIsOwed, OthersWait
<1>10. OverlapsAreKnown'
  BY <1>1, <1>2, <1>4 DEF OverlapsAreKnown, OthersWait, Open
<1>11. TargetIsUnique'
  BY <1>2, <1>3, <1>4 DEF TargetIsUnique, OthersWait, Has
<1>12. DuplicatesOnlyFromRaces'
  BY <1>2 DEF DuplicatesOnlyFromRaces, Has
<1> QED
  BY <1>5, <1>6, <1>7, <1>8, <1>9, <1>10, <1>11, <1>12
  DEF IInv, TypeOK, RequestTypes, RowTypes, OtherTypes

(* The upsert of the row. *)
LEMMA WriteRowKeeps ==
    ASSUME IInv, NEW r \in Requests, pc[r] = "persist", WriteRow(job[r].doc, job[r])
    PROVE  /\ RowTypes'
           /\ \A e \in Documents \ {job[r].doc} :
                 status'[e] = status[e] /\ object'[e] = object[e] /\ hash'[e] = hash[e]
           /\ status'[job[r].doc] = "pending" /\ object'[job[r].doc] = job[r].object
           /\ hash'[job[r].doc] = IF job[r].hash = None THEN hash[job[r].doc] ELSE job[r].hash
<1> DEFINE d == job[r].doc
<1> USE Parts, IntakeAssumption DEF Requests, Documents, Objects
<1>1. /\ d \in Documents /\ job[r].name \in Names /\ job[r].object \in Objects
      /\ job[r].hash \in Contents \cup {None}
      /\ job[r].hash = None => Has(d)
  BY DEF JobsAreReal, Open, RequestTypes, Jobs
<1>2. 1 + Cardinality({e \in Documents : Has(e)}) \in Nat
  <2>1. IsFiniteSet(1..MaxRequests)
    BY FS_Interval
  <2>2. IsFiniteSet({e \in Documents : Has(e)})
    BY <2>1, FS_Subset
  <2> QED
    BY <2>2, FS_CardinalityType
<1>3. /\ status' \in [Documents -> {"absent", "pending", "processed", "failed"}]
      /\ name' \in [Documents -> Names \cup {None}]
      /\ object' \in [Documents -> Objects \cup {None}]
      /\ hash' \in [Documents -> Contents \cup {None}]
  BY <1>1 DEF WriteRow, RowTypes
<1>4. born' \in [Documents -> Nat]
  BY <1>1, <1>2 DEF WriteRow, RowTypes
<1>5. /\ \A e \in Documents \ {d} : /\ status'[e] = status[e] /\ object'[e] = object[e]
                                    /\ hash'[e] = hash[e] /\ name'[e] = name[e]
      /\ status'[d] = "pending" /\ object'[d] = job[r].object /\ name'[d] = job[r].name
      /\ hash'[d] = IF job[r].hash = None THEN hash[d] ELSE job[r].hash
  BY <1>1 DEF WriteRow, RowTypes
<1>6. \A e \in Documents : Has(e)' => name'[e] # None /\ hash'[e] # None
  BY <1>1, <1>5 DEF RowTypes, Has
<1> QED
  BY <1>3, <1>4, <1>5, <1>6 DEF RowTypes, Has

LEMMA PersistKeeps ==
    ASSUME IInv, NEW r \in Requests, Persist(r)
    PROVE  IInv'
<1> DEFINE d == job[r].doc
<1> USE Parts, IntakeAssumption DEF Requests, Documents, Objects
<1>1. pc[r] = "persist" /\ Open(r) /\ d \in Documents /\ r \notin queued
  BY DEF Persist, Open, JobsAreReal, Arrivals
<1>2. UNCHANGED <<arrived, job, stored, queued, indexed, raced>>
  BY DEF Persist
<1>3. OthersWait(r) /\ pc' \in [Requests -> Steps] /\ answer' \in [Requests -> Answers]
  BY <1>2 DEF Persist, Goto, Reply, OthersWait, RequestTypes, Steps, Answers
<1>4. CASE UNCHANGED row /\ pc'[r] = "done" /\ orphans' = orphans
  <2>1. UNCHANGED <<status, name, object, hash, born>>
    BY <1>4 DEF row
  <2>2. RequestTypes' /\ RowTypes' /\ OtherTypes'
    BY <1>2, <1>3, <1>4, <2>1 DEF RequestTypes, RowTypes, OtherTypes, Has
  <2>3. Arrivals'
    BY <1>1, <1>2, <1>3, <1>4 DEF Arrivals, OthersWait, OtherTypes, RequestTypes
  <2>4. JobsAreReal'
    BY <1>2, <1>3, <1>4, <2>1 DEF JobsAreReal, OthersWait, Open, Has
  <2>5. EventsAreReadable' /\ DuplicatesOnlyFromRaces'
    BY <1>2, <2>1 DEF EventsAreReadable, DuplicatesOnlyFromRaces, Has
  <2>6. PendingIsOwed'
    BY <1>1, <1>2, <1>3, <1>4, <2>1 DEF PendingIsOwed, OthersWait
  <2>7. OverlapsAreKnown'
    BY <1>2, <1>3, <1>4 DEF OverlapsAreKnown, OthersWait, Open
  <2>8. TargetIsUnique'
    BY <1>2, <1>3, <1>4, <2>1 DEF TargetIsUnique, OthersWait, Has
  <2> QED
    BY <2>2, <2>3, <2>4, <2>5, <2>6, <2>7, <2>8
    DEF IInv, TypeOK, RequestTypes, RowTypes, OtherTypes
<1>5. CASE /\ WriteRow(d, job[r])
           /\ \/ pc'[r] = "publish" /\ orphans' = orphans \ {d}
              \/ pc'[r] = "done" /\ orphans' = orphans \cup {d}
  <2>1. /\ RowTypes'
        /\ \A e \in Documents \ {d} :
              status'[e] = status[e] /\ object'[e] = object[e] /\ hash'[e] = hash[e]
        /\ status'[d] = "pending" /\ object'[d] = job[r].object
        /\ hash'[d] = IF job[r].hash = None THEN hash[d] ELSE job[r].hash
    BY <1>1, <1>5, WriteRowKeeps
  <2>2. job[r].object \in stored /\ (job[r].hash = None => Has(d))
    BY <1>1 DEF JobsAreReal
  <2>3. \A e \in Documents : Has(e)' <=> (Has(e) \/ e = d)
    BY <1>1, <2>1 DEF Has
  <2>4. RequestTypes' /\ OtherTypes'
    BY <1>1, <1>2, <1>3, <1>5 DEF RequestTypes, OtherTypes
  <2>5. Arrivals'
    BY <1>1, <1>2, <1>3, <1>5 DEF Arrivals, OthersWait, OtherTypes, RequestTypes
  <2>6. JobsAreReal'
    BY <1>1, <1>2, <1>3, <1>5, <2>2, <2>3 DEF JobsAreReal, OthersWait, Open, Looking
  <2>7. EventsAreReadable'
    BY <1>1, <1>2, <2>1, <2>2, <2>3, <2>4 DEF EventsAreReadable, Arrivals
  <2>8. PendingIsOwed'
    BY <1>1, <1>2, <1>3, <1>5, <2>1 DEF PendingIsOwed, OthersWait
  <2>9. OverlapsAreKnown'
    BY <1>1, <1>2, <1>3 DEF OverlapsAreKnown, OthersWait, Open
  <2>10. \A e \in Documents : Has(e)' /\ hash'[e] = job[r].hash /\ job[r].hash # None
                                => e = d \/ job[r].hash \in raced
    BY <1>1, <2>1, <2>3 DEF TargetIsUnique
  <2>11. DuplicatesOnlyFromRaces'
    BY <1>1, <1>2, <2>1, <2>2, <2>3, <2>10 DEF DuplicatesOnlyFromRaces
  <2>12. TargetIsUnique'
    <3> SUFFICES ASSUME NEW q \in Requests, NEW e \in Documents,
                        pc'[q] \in {"findName", "check", "put", "persist"},
                        job'[q].hash # None, Has(e)', hash'[e] = job'[q].hash
                 PROVE  (pc'[q] # "findName" /\ e = job'[q].doc) \/ hash'[e] \in raced'
      BY DEF TargetIsUnique
    <3>1. q # r /\ pc[q] = pc'[q] /\ job'[q] = job[q] /\ Open(q)
      BY <1>2, <1>3, <1>5 DEF OthersWait, Open
    <3>2. CASE Has(e) /\ hash'[e] = hash[e]
      BY <1>2, <3>1, <3>2 DEF TargetIsUnique
    <3>3. CASE e = d /\ hash'[e] = job[r].hash
      BY <1>1, <1>2, <3>1, <3>3 DEF OverlapsAreKnown
    <3> QED
      BY <2>1, <2>2, <2>3, <3>2, <3>3
  <2> QED
    BY <2>1, <2>4, <2>5, <2>6, <2>7, <2>8, <2>9, <2>11, <2>12
    DEF IInv, TypeOK, RequestTypes, RowTypes, OtherTypes
<1> QED
  BY <1>1, <1>4, <1>5 DEF Persist, Goto, Reply, RequestTypes

LEMMA PublishKeeps ==
    ASSUME IInv, NEW r \in Requests, Publish(r)
    PROVE  IInv'
<1> USE Parts, IntakeAssumption DEF Requests, Documents, Objects
<1>1. /\ pc[r] = "publish" /\ Open(r) /\ r <= arrived
      /\ job[r].doc \in Documents /\ Has(job[r].doc) /\ job[r].object \in stored
  BY DEF Publish, Open, JobsAreReal, Arrivals, RequestTypes
<1>2. UNCHANGED <<arrived, job, status, name, object, hash, born, stored, indexed, orphans, raced>>
  BY DEF Publish, row
<1>3. \/ pc'[r] = "done" /\ queued' = queued \cup {r}
      \/ pc'[r] = "mark" /\ queued' \in {queued, queued \cup {r}}
  BY DEF Publish, Goto, Reply, RequestTypes
<1>4. OthersWait(r) /\ pc' \in [Requests -> Steps] /\ answer' \in [Requests -> Answers]
  BY <1>2 DEF Publish, Goto, Reply, OthersWait, RequestTypes, Steps, Answers
<1>5. RequestTypes' /\ RowTypes' /\ OtherTypes'
  BY <1>2, <1>3, <1>4 DEF RequestTypes, RowTypes, OtherTypes, Has
<1>6. Arrivals'
  BY <1>1, <1>2, <1>3, <1>4 DEF Arrivals, OthersWait, OtherTypes, RequestTypes
<1>7. JobsAreReal'
  BY <1>1, <1>2, <1>3, <1>4 DEF JobsAreReal, OthersWait, Open, Has, Looking
<1>8. EventsAreReadable'
  BY <1>1, <1>2, <1>3 DEF EventsAreReadable, Has
<1>9. PendingIsOwed'
  BY <1>1, <1>2, <1>3, <1>4 DEF PendingIsOwed, OthersWait
<1>10. OverlapsAreKnown'
  BY <1>1, <1>2, <1>4 DEF OverlapsAreKnown, OthersWait, Open
<1>11. TargetIsUnique'
  BY <1>2, <1>3, <1>4 DEF TargetIsUnique, OthersWait, Has
<1>12. DuplicatesOnlyFromRaces'
  BY <1>2 DEF DuplicatesOnlyFromRaces, Has
<1> QED
  BY <1>5, <1>6, <1>7, <1>8, <1>9, <1>10, <1>11, <1>12
  DEF IInv, TypeOK, RequestTypes, RowTypes, OtherTypes

(* Marking a row and ingesting an event change the status of a row that    *)
(* exists, and leave the other columns alone.                              *)
LEMMA MarkFailedKeeps ==
    ASSUME IInv, NEW r \in Requests, MarkFailed(r)
    PROVE  IInv'
<1> DEFINE d == job[r].doc
<1> USE Parts, IntakeAssumption DEF Requests, Documents, Objects
<1>1. pc[r] = "mark" /\ pc'[r] = "done" /\ Open(r) /\ d \in Documents /\ Has(d)
  BY DEF MarkFailed, Reply, Open, JobsAreReal, RequestTypes
<1>2. UNCHANGED <<arrived, job, name, object, hash, born, stored, queued, indexed, raced>>
  BY DEF MarkFailed
<1>3. OthersWait(r) /\ pc' \in [Requests -> Steps] /\ answer' \in [Requests -> Answers]
  BY <1>2 DEF MarkFailed, Reply, OthersWait, RequestTypes, Steps, Answers
<1>4. /\ \/ status'[d] = "failed" /\ orphans' = orphans
         \/ status'[d] = status[d] /\ orphans' = orphans \cup {d}
      /\ \A e \in Documents \ {d} : status'[e] = status[e]
      /\ status' \in [Documents -> {"absent", "pending", "processed", "failed"}]
  BY <1>1 DEF MarkFailed, RowTypes
<1>5. \A e \in Documents : Has(e)' <=> Has(e)
  BY <1>1, <1>4 DEF Has
<1>6. RequestTypes' /\ RowTypes' /\ OtherTypes'
  BY <1>1, <1>2, <1>3, <1>4, <1>5 DEF RequestTypes, RowTypes, OtherTypes
<1>7. Arrivals'
  BY <1>1, <1>2, <1>3 DEF Arrivals, OthersWait, OtherTypes, RequestTypes
<1>8. JobsAreReal'
  BY <1>1, <1>2, <1>3, <1>5 DEF JobsAreReal, OthersWait, Open, Looking
<1>9. EventsAreReadable'
  BY <1>2, <1>5 DEF EventsAreReadable, Arrivals
<1>10. PendingIsOwed'
  BY <1>1, <1>2, <1>3, <1>4 DEF PendingIsOwed, OthersWait
<1>11. OverlapsAreKnown'
  BY <1>1, <1>2, <1>3 DEF OverlapsAreKnown, OthersWait, Open
<1>12. TargetIsUnique'
  BY <1>1, <1>2, <1>3, <1>5 DEF TargetIsUnique, OthersWait
<1>13. DuplicatesOnlyFromRaces'
  BY <1>2, <1>5 DEF DuplicatesOnlyFromRaces
<1> QED
  BY <1>6, <1>7, <1>8, <1>9, <1>10, <1>11, <1>12, <1>13
  DEF IInv, TypeOK, RequestTypes, RowTypes, OtherTypes

LEMMA IngestKeeps ==
    ASSUME IInv, NEW r \in Requests, Ingest(r)
    PROVE  IInv'
<1> DEFINE d == job[r].doc
<1> USE Parts, IntakeAssumption DEF Requests, Documents, Objects
<1>1. r \in queued /\ d \in Documents /\ Has(d) /\ job[r].object \in Requests
  BY DEF Ingest, Arrivals, EventsAreReadable, OtherTypes
<1>2. /\ UNCHANGED <<arrived, job, answer, pc, name, object, hash, born, stored, orphans, raced>>
      /\ queued' = queued \ {r}
  BY DEF Ingest, client
<1>3. /\ \/ status'[d] \in {"processed", "failed"}
         \/ status' = status /\ \E q \in queued \ {r} : job[q].doc = d
      /\ \A e \in Documents \ {d} : status'[e] = status[e]
      /\ status' \in [Documents -> {"absent", "pending", "processed", "failed"}]
  BY <1>1 DEF Ingest, RowTypes
<1>4. indexed' \in [Documents -> Contents \cup {None}]
  <2>1. job[job[r].object].hash \in Contents \cup {None}
    BY <1>1 DEF RequestTypes, Jobs
  <2> QED
    BY <1>1, <2>1 DEF Ingest, OtherTypes
<1>5. \A e \in Documents : Has(e)' <=> Has(e)
  BY <1>1, <1>3 DEF Has
<1>6. RequestTypes' /\ RowTypes' /\ OtherTypes'
  BY <1>2, <1>3, <1>4, <1>5 DEF RequestTypes, RowTypes, OtherTypes
<1>7. Arrivals' /\ OverlapsAreKnown'
  BY <1>2 DEF Arrivals, OverlapsAreKnown, Open
<1>8. JobsAreReal'
  BY <1>2, <1>5 DEF JobsAreReal, Open
<1>9. EventsAreReadable'
  BY <1>2, <1>5 DEF EventsAreReadable, Arrivals
<1>10. PendingIsOwed'
  BY <1>1, <1>2, <1>3 DEF PendingIsOwed
<1>11. TargetIsUnique'
  BY <1>2, <1>5 DEF TargetIsUnique
<1>12. DuplicatesOnlyFromRaces'
  BY <1>2, <1>5 DEF DuplicatesOnlyFromRaces
<1> QED
  BY <1>6, <1>7, <1>8, <1>9, <1>10, <1>11, <1>12
  DEF IInv, TypeOK, RequestTypes, RowTypes, OtherTypes

(* The invariant is inductive, so it holds throughout. *)
LEMMA Inductive == Spec => []IInv
<1>1. Init => IInv
  BY IntakeAssumption
  DEF Init, IInv, TypeOK, Arrivals, JobsAreReal, EventsAreReadable, PendingIsOwed,
      OverlapsAreKnown, TargetIsUnique, DuplicatesOnlyFromRaces, Open, Has, NoJob, Jobs,
      Requests, Documents, Objects, Steps, Answers
<1>2. IInv /\ [Next]_vars => IInv'
  <2> SUFFICES ASSUME IInv, [Next]_vars PROVE IInv'
    OBVIOUS
  <2>1. CASE UNCHANGED vars
    BY <2>1
    DEF vars, row, client, IInv, TypeOK, Arrivals, JobsAreReal, EventsAreReadable,
        PendingIsOwed, OverlapsAreKnown, TargetIsUnique, DuplicatesOnlyFromRaces, Open, Has
  <2>2. ASSUME NEW r \in Requests, RequestStep(r) PROVE IInv'
    BY <2>2, UploadKeeps, RefreshKeeps, LookUpKeeps, MoveOnKeeps, PersistKeeps, PublishKeeps,
       MarkFailedKeeps DEF RequestStep
  <2>3. ASSUME NEW r \in Requests, Ingest(r) PROVE IInv'
    BY <2>3, IngestKeeps
  <2> QED
    BY <2>1, <2>2, <2>3 DEF Next
<1> QED
  BY <1>1, <1>2, PTL DEF Spec

(* Type correctness. *)
THEOREM IntakeTypeCorrect == Spec => []TypeOK
  BY Inductive, PTL DEF IInv

(* Whatever the order of requests, events and failures, an event and a row *)
(* name an object that is stored: intake_document stores, then writes the  *)
(* row, then publishes, and a refresh re-uses what a row names.            *)
THEOREM ReadableEvents == Spec => []EventsAreReadable
  BY Inductive, PTL DEF IInv

(* A document is not left 'pending' unless a request died or all attempts  *)
(* of mark_document_failed_with_retry failed.                              *)
THEOREM NothingForgotten == Spec => []PendingIsOwed
  BY Inductive, PTL DEF IInv

(* The deduplication of intake_document is exact up to uploads of the same *)
(* content that are open at the same time.                                 *)
THEOREM DeduplicationHolds == Spec => []DuplicatesOnlyFromRaces
  BY Inductive, PTL DEF IInv
=============================================================================
