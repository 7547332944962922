--------------------------- MODULE WorkspaceProofs ---------------------------
(***************************************************************************)
(* Proofs about what writes a workspace's data outside ingestion:          *)
(* ChunkWrites, for any number of requests, chunk indexes, attempts and    *)
(* failures; WorkspacePurge, for any number of documents, conversations    *)
(* and audit events; DeadLetters, for any number of operators, contents    *)
(* and rows; and the tools an operator runs: Migrations, for any number of *)
(* runners, files and starts; IndexRepair, for any listing, any number of  *)
(* chunks and any page sizes; and LabelBackfill, for any set of rows, any  *)
(* batch size and any number of runs and uploads.                          *)
(***************************************************************************)
EXTENDS ChunkWrites, WorkspacePurge, DeadLetters, Migrations, IndexRepair, LabelBackfill,
        SequenceTheorems, FiniteSetTheorems, WellFoundedInduction, TLAPS

-----------------------------------------------------------------------------
(* Chunk edits. *)

(* Where a request can stand, by what it was asked for.  An answer ends    *)
(* it, and an update remembers the text that it found.                     *)
Shape(r) ==
    /\ req[r].reply # "none" => req[r].at = "done"
    /\ req[r].at = "found" => req[r].op \in {"create", "update", "delete", "edit"}
    /\ req[r].at = "written" => req[r].op \in {"create", "update", "edit"}
    /\ req[r].at = "restore" => req[r].op = "update"
    /\ req[r].at \in {"unrow", "selected"} => req[r].op \in {"create", "delete"}
    /\ req[r].at = "record" => req[r].op = "edit"
    /\ Open(r) /\ req[r].op = "update" => req[r].prior # None

Shapes == \A r \in Requests : Shape(r)

(* A content hash that is there is that of the row's text. *)
HashesTrue == \A i \in Idx : rowHash[i] \in {None, rowText[i]}

CountExact == chunkCount = Cardinality(Rows)

(* The inductive invariant of the rows and of the requests. *)
RowsInv == ChunkTypeOK /\ Shapes /\ HashesTrue /\ CountExact

(* Nothing that excuses a divergence has happened to chunk i. *)
Clean(i) ==
    /\ i \notin contended \cup lost
    /\ \A k \in SignalKinds : <<k, i>> \notin signals

(* What the only open request of a clean chunk has done to it so far. *)
Progress(r, i) ==
    /\ req[r].at = "found" =>
          rowText[i] = vec[i] /\ (req[r].op = "update" => req[r].prior = rowText[i])
    /\ req[r].at = "written" =>
          /\ rowText[i] = r
          /\ req[r].op = "update" => rowHash[i] = r /\ vec[i] = req[r].prior
          /\ req[r].op = "create" => vec[i] = None
    /\ req[r].at = "restore" => rowText[i] = r /\ rowHash[i] = r /\ vec[i] = req[r].prior
    /\ req[r].at \in {"unrow", "selected"} => vec[i] = None

(* A clean chunk has at most one open request, and its stores differ by    *)
(* what that request has done.                                             *)
Accounted(i) ==
    /\ \A r, s \in OpenOn(i) : r = s
    /\ OpenOn(i) = {} => rowText[i] = vec[i]
    /\ \A r \in OpenOn(i) : Progress(r, i)

StoresInv == \A i \in Idx : Clean(i) => Accounted(i)
-----------------------------------------------------------------------------
(* How a step moves its request.                                           *)

RequestType ==
    [op : {"none", "create", "update", "delete", "edit"}, at : Stages, idx : Idx,
     prior : OptText, priorHash : OptText, tries : Nat, reply : Replies]

(* Request r moves on and keeps what it is about; the others stay. *)
Moves(r) ==
    /\ req' \in [Requests -> RequestType]
    /\ \A s \in Requests : s # r => req'[s] = req[s]
    /\ req'[r].op = req[r].op /\ req'[r].idx = req[r].idx /\ req'[r].prior = req[r].prior

LEMMA RequestSet ==
    ASSUME ChunkTypeOK, NEW r \in Requests, NEW n \in RequestType, req' = [req EXCEPT ![r] = n]
    PROVE  /\ req' \in [Requests -> RequestType]
           /\ req'[r] = n
           /\ \A s \in Requests : s # r => req'[s] = req[s]
  BY DEF ChunkTypeOK, RequestType

LEMMA GotoMoves ==
    ASSUME ChunkTypeOK, NEW r \in Requests, NEW a \in Stages, Goto(r, a)
    PROVE  Moves(r) /\ req'[r].at = a /\ req'[r].reply = req[r].reply
<1>1. req[r] \in RequestType
  BY DEF ChunkTypeOK, RequestType
<1> DEFINE n == [req[r] EXCEPT !.at = a, !.tries = 0]
<1>2. n \in RequestType
  BY <1>1 DEF RequestType
<1>3. /\ n.op = req[r].op /\ n.idx = req[r].idx /\ n.prior = req[r].prior
      /\ n.at = a /\ n.reply = req[r].reply
  BY <1>1 DEF RequestType
<1>4. req' = [req EXCEPT ![r] = n]
  BY DEF Goto, ChunkTypeOK
<1> HIDE DEF n
<1> QED
  BY <1>2, <1>3, <1>4, RequestSet DEF Moves

LEMMA AnswerMoves ==
    ASSUME ChunkTypeOK, NEW r \in Requests, NEW reply \in Replies, Answer(r, reply)
    PROVE  Moves(r) /\ req'[r].at = "done" /\ req'[r].reply = reply
<1>1. req[r] \in RequestType
  BY DEF ChunkTypeOK, RequestType
<1> DEFINE n == [req[r] EXCEPT !.at = "done", !.reply = reply]
<1>2. n \in RequestType
  BY <1>1 DEF RequestType, Stages
<1>3. /\ n.op = req[r].op /\ n.idx = req[r].idx /\ n.prior = req[r].prior
      /\ n.at = "done" /\ n.reply = reply
  BY <1>1 DEF RequestType
<1>4. req' = [req EXCEPT ![r] = n]
  BY DEF Answer, ChunkTypeOK
<1> HIDE DEF n
<1> QED
  BY <1>2, <1>3, <1>4, RequestSet DEF Moves

(* An attempt that is made again. *)
LEMMA RetryMoves ==
    ASSUME ChunkTypeOK, NEW r \in Requests, NEW a \in Stages,
           \/ req' = [req EXCEPT ![r].at = a, ![r].tries = @ + 1]
           \/ req[r].at = a /\ req' = [req EXCEPT ![r].tries = @ + 1]
           \/ req' = [req EXCEPT ![r].at = a]
    PROVE  Moves(r) /\ req'[r].at = a /\ req'[r].reply = req[r].reply
<1>1. req[r] \in RequestType
  BY DEF ChunkTypeOK, RequestType
<1>2. req[r].tries + 1 \in Nat
  BY <1>1 DEF RequestType
<1>3. PICK n \in RequestType :
          /\ req' = [req EXCEPT ![r] = n] /\ n.at = a /\ n.op = req[r].op /\ n.idx = req[r].idx
          /\ n.prior = req[r].prior /\ n.reply = req[r].reply
  <2>1. CASE req' = [req EXCEPT ![r].at = a, ![r].tries = @ + 1]
    <3> DEFINE n == [req[r] EXCEPT !.at = a, !.tries = req[r].tries + 1]
    <3>1. req' = [req EXCEPT ![r] = n]
      BY <2>1 DEF ChunkTypeOK
    <3>2. n \in RequestType
      BY <1>1, <1>2 DEF RequestType
    <3> QED
      BY <1>1, <3>1, <3>2 DEF RequestType
  <2>2. CASE req[r].at = a /\ req' = [req EXCEPT ![r].tries = @ + 1]
    <3> DEFINE n == [req[r] EXCEPT !.tries = req[r].tries + 1]
    <3>1. req' = [req EXCEPT ![r] = n]
      BY <2>2 DEF ChunkTypeOK
    <3>2. n \in RequestType
      BY <1>1, <1>2 DEF RequestType
    <3> QED
      BY <1>1, <2>2, <3>1, <3>2 DEF RequestType
  <2>3. CASE req' = [req EXCEPT ![r].at = a]
    <3> DEFINE n == [req[r] EXCEPT !.at = a]
    <3>1. req' = [req EXCEPT ![r] = n]
      BY <2>3 DEF ChunkTypeOK
    <3>2. n \in RequestType
      BY <1>1, <1>2 DEF RequestType
    <3> QED
      BY <1>1, <3>1, <3>2 DEF RequestType
  <2> QED
    BY <2>1, <2>2, <2>3
<1> QED
  BY <1>3, RequestSet DEF Moves

(* The last attempt of several is made loud. *)
LEMMA ExhaustMoves ==
    ASSUME ChunkTypeOK, NEW r \in Requests, NEW a \in Stages, NEW reply \in Replies,
           Exhaust(r, a, reply)
    PROVE  /\ Moves(r)
           /\ \/ req'[r].at = a /\ req'[r].reply = req[r].reply /\ signals' = signals
              \/ /\ req'[r].at = "done" /\ req'[r].reply = reply
                 /\ signals' = signals \cup {<<"exhausted", req[r].idx>>}
  BY RetryMoves, AnswerMoves DEF Exhaust

LEMMA AfterEmbedErrorMoves ==
    ASSUME ChunkTypeOK, Shapes, NEW r \in Requests, req[r].at = "written", AfterEmbedError(r)
    PROVE  /\ Moves(r) /\ req'[r].reply = req[r].reply
           /\ \/ req[r].op = "create" /\ req'[r].at = "unrow"
              \/ req[r].op = "update" /\ req'[r].at = "restore"
              \/ req[r].op = "edit" /\ req'[r].at \in {"written", "record"}
<1>1. {"unrow", "restore", "record", "written"} \subseteq Stages
  BY DEF Stages
<1>2. req[r].op \in {"create", "update", "edit"}
  BY DEF Shapes, Shape
<1>3. CASE req[r].op = "create"
  BY <1>1, <1>3, GotoMoves DEF AfterEmbedError
<1>4. CASE req[r].op = "update"
  BY <1>1, <1>4, GotoMoves DEF AfterEmbedError
<1>5. CASE req[r].op = "edit" /\ req[r].tries + 1 < Attempts
  <2>1. req' = [req EXCEPT ![r].tries = @ + 1]
    BY <1>5 DEF AfterEmbedError
  <2> QED
    BY <1>1, <1>5, <2>1, RetryMoves
<1>6. CASE req[r].op = "edit" /\ ~(req[r].tries + 1 < Attempts)
  <2>1. Goto(r, "record")
    BY <1>6 DEF AfterEmbedError
  <2> QED
    BY <1>1, <1>6, <2>1, GotoMoves
<1> QED
  BY <1>2, <1>3, <1>4, <1>5, <1>6
-----------------------------------------------------------------------------
(* Rows.                                                                   *)

LEMMA MaxIsMember ==
    ASSUME NEW S, S \subseteq Idx, S # {}
    PROVE  Max(S) \in S /\ \A y \in S : Max(S) >= y
<1> USE ChunkAssumption
<1>1. \A y \in S : y \in Nat /\ MaxIndex - y \in Nat
  BY DEF Idx
<1> DEFINE T == {n \in Nat : \E y \in S : n = MaxIndex - y}
<1>2. T \subseteq Nat /\ T # {}
  BY <1>1
<1>3. PICK n \in T : \A k \in T : ~(<<k, n>> \in OpToRel(<, Nat))
  BY <1>2, NatLessThanWellFounded, WFMin
<1>4. PICK x \in S : n = MaxIndex - x
  BY <1>3
<1>5. \A y \in S : x >= y
  <2>1. SUFFICES ASSUME NEW y \in S, x < y PROVE FALSE
    BY <1>1
  <2>2. MaxIndex - y \in T /\ MaxIndex - y \in Nat /\ n \in Nat /\ MaxIndex - y < n
    BY <1>1, <1>4, <2>1
  <2>3. <<MaxIndex - y, n>> \in {p \in Nat \X Nat : p[1] < p[2]}
    BY <2>2
  <2>4. <<MaxIndex - y, n>> \in OpToRel(<, Nat)
    BY <2>3, Zenon DEF OpToRel
  <2> QED
    BY <1>3, <2>2, <2>4
<1> QED
  BY <1>5, Zenon DEF Max

(* The index an append takes has no row. *)
LEMMA NextIndexFree ==
    ASSUME ChunkTypeOK, NextIndex <= MaxIndex
    PROVE  NextIndex \in Idx /\ rowText[NextIndex] = None
<1> USE ChunkAssumption
<1>1. CASE Rows = {}
  BY <1>1 DEF NextIndex, Rows, Idx
<1>2. CASE Rows # {}
  <2>1. Max(Rows) \in Rows /\ \A y \in Rows : Max(Rows) >= y
    BY <1>2, MaxIsMember DEF Rows
  <2>2. NextIndex = Max(Rows) + 1
    BY <1>2 DEF NextIndex
  <2>3. Max(Rows) \in Idx
    BY <2>1 DEF Rows
  <2>4. NextIndex \in Idx
    BY <2>2, <2>3 DEF Idx
  <2>5. NextIndex \notin Rows
    BY <2>1, <2>2, <2>3 DEF Idx
  <2> QED
    BY <2>4, <2>5 DEF Rows
<1> QED
  BY <1>1, <1>2

LEMMA RowsFinite == IsFiniteSet(Rows) /\ Cardinality(Rows) \in Nat
<1>1. IsFiniteSet(Idx)
  BY ChunkAssumption, FS_Interval DEF Idx
<1>2. IsFiniteSet(Rows)
  BY <1>1, FS_Subset DEF Rows
<1> QED
  BY <1>2, FS_CardinalityType

(* A column of the rows, or the vectors, change at one index. *)
LEMMA ColumnSet ==
    ASSUME NEW f \in [Idx -> OptText], NEW g, NEW i \in Idx, NEW x \in OptText,
           g = [f EXCEPT ![i] = x]
    PROVE  /\ g \in [Idx -> OptText]
           /\ g[i] = x
           /\ \A j \in Idx : j # i => g[j] = f[j]
  OBVIOUS

LEMMA RequestsAreTexts ==
    /\ None \in OptText
    /\ \A r \in Requests : r \in OptText /\ r # None
  BY ChunkAssumption DEF OptText, Texts

-----------------------------------------------------------------------------
(* What a step leaves alone.                                               *)

(* The variables that the rows and the requests do not constrain. *)
SideType ==
    /\ vec \in [Idx -> OptText]
    /\ signals \subseteq (SignalKinds \X Idx)
    /\ lost \subseteq Idx /\ contended \subseteq Idx
    /\ faults \in 0..MaxFaults

LEMMA FaultType ==
    ASSUME ChunkTypeOK, Fault
    PROVE  faults' \in 0..MaxFaults
  BY ChunkAssumption DEF ChunkTypeOK, Fault

LEMMA ContendType ==
    ASSUME ChunkTypeOK, NEW r \in Requests, NEW i \in Idx, Contend(r, i)
    PROVE  contended' \subseteq Idx /\ contended \subseteq contended'
  BY DEF ChunkTypeOK, Contend

LEMMA AppliedType ==
    ASSUME ChunkTypeOK, NEW r \in Requests, NEW x \in OptText, Applied(r, x)
    PROVE  /\ vec' \in [Idx -> OptText] /\ lost' \subseteq Idx /\ lost \subseteq lost'
           /\ \A j \in Idx : j # req[r].idx => vec'[j] = vec[j]
           /\ vec' = vec \/ req[r].idx \in lost'
<1>1. req[r].idx \in Idx
  BY DEF ChunkTypeOK
<1> QED
  BY <1>1 DEF ChunkTypeOK, Applied

(* A step that touches no row. *)
LEMMA RequestStep ==
    ASSUME RowsInv, NEW r \in Requests, req' \in [Requests -> RequestType],
           \A s \in Requests : s # r => req'[s] = req[s],
           Shape(r)', SideType', UNCHANGED <<rowText, rowHash, chunkCount>>
    PROVE  RowsInv'
<1>1. ChunkTypeOK /\ Shapes /\ HashesTrue /\ CountExact
  BY DEF RowsInv
<1>2. ChunkTypeOK'
  BY <1>1 DEF ChunkTypeOK, RequestType, SideType
<1>3. Shapes'
  <2>1. \A s \in Requests : s # r => Shape(s)'
    BY <1>1 DEF Shapes, Shape, Open
  <2> QED
    BY <2>1 DEF Shapes
<1>4. HashesTrue' /\ CountExact'
  BY <1>1 DEF HashesTrue, CountExact, Rows
<1> QED
  BY <1>2, <1>3, <1>4 DEF RowsInv

(* A step that writes one row: its text, and the hash of it. *)
LEMMA RowStep ==
    ASSUME RowsInv, NEW r \in Requests, req' \in [Requests -> RequestType],
           \A s \in Requests : s # r => req'[s] = req[s],
           Shape(r)', SideType',
           NEW i \in Idx, NEW x \in OptText, rowText' = [rowText EXCEPT ![i] = x],
           rowHash' = [rowHash EXCEPT ![i] = x],
           chunkCount' = IF rowText[i] = None /\ x # None THEN chunkCount + 1
                         ELSE IF rowText[i] # None /\ x = None THEN chunkCount - 1
                         ELSE chunkCount
    PROVE  RowsInv'
<1>1. ChunkTypeOK /\ Shapes /\ HashesTrue /\ CountExact
  BY DEF RowsInv
<1>2. rowText \in [Idx -> OptText] /\ rowHash \in [Idx -> OptText]
  BY <1>1 DEF ChunkTypeOK
<1>3. /\ rowText' \in [Idx -> OptText] /\ rowText'[i] = x
      /\ \A j \in Idx : j # i => rowText'[j] = rowText[j]
  BY <1>2
<1>4. /\ rowHash' \in [Idx -> OptText] /\ rowHash'[i] = x
      /\ \A j \in Idx : j # i => rowHash'[j] = rowHash[j]
  BY <1>2
<1>5. Shapes'
  <2>1. \A s \in Requests : s # r => Shape(s)'
    BY <1>1 DEF Shapes, Shape, Open
  <2> QED
    BY <2>1 DEF Shapes
<1>6. HashesTrue'
  BY <1>1, <1>3, <1>4 DEF HashesTrue
<1>7. CountExact' /\ chunkCount' \in Nat
  <2>1. IsFiniteSet(Rows) /\ Cardinality(Rows) \in Nat /\ chunkCount = Cardinality(Rows)
    BY <1>1, RowsFinite DEF CountExact
  <2>2. CASE x = None
    <3>1. Rows' = Rows \ {i}
      BY <1>3, <2>2 DEF Rows
    <3>2. Cardinality(Rows') = IF i \in Rows THEN Cardinality(Rows) - 1 ELSE Cardinality(Rows)
      BY <2>1, <3>1, FS_RemoveElement
    <3>3. Cardinality(Rows') \in Nat
      BY <2>1, <3>1, FS_RemoveElement, FS_CardinalityType
    <3>4. i \in Rows <=> rowText[i] # None
      BY DEF Rows
    <3> QED
      BY <2>1, <2>2, <3>2, <3>3, <3>4 DEF CountExact
  <2>3. CASE x # None
    <3>1. Rows' = Rows \cup {i}
      BY <1>3, <2>3 DEF Rows
    <3>2. Cardinality(Rows') = IF i \in Rows THEN Cardinality(Rows) ELSE Cardinality(Rows) + 1
      BY <2>1, <3>1, FS_AddElement
    <3>3. i \in Rows <=> rowText[i] # None
      BY DEF Rows
    <3> QED
      BY <2>1, <2>3, <3>2, <3>3 DEF CountExact
  <2> QED
    BY <2>2, <2>3
<1>8. ChunkTypeOK'
  BY <1>3, <1>4, <1>7 DEF ChunkTypeOK, RequestType, SideType
<1> QED
  BY <1>5, <1>6, <1>7, <1>8 DEF RowsInv

(* A request that holds a chunk: an append does once it has its row. *)
Working(r) == Open(r) /\ ~(req[r].op = "create" /\ req[r].at = "found")

(* A step that r makes on chunk i. *)
LEMMA ChunkStep ==
    ASSUME StoresInv, NEW r \in Requests, NEW i \in Idx,
           \A s \in Requests : s # r => req'[s] = req[s],
           req'[r].idx = i \/ ~Working(r)', req[r].idx = i \/ ~Working(r),
           \A j \in Idx : j # i => /\ rowText'[j] = rowText[j] /\ rowHash'[j] = rowHash[j]
                                   /\ vec'[j] = vec[j],
           contended \subseteq contended', lost \subseteq lost', signals \subseteq signals',
           Clean(i)' => OpenOn(i) \subseteq {r},
           Clean(i)' /\ r \in OpenOn(i)' => Progress(r, i)',
           Clean(i)' /\ r \notin OpenOn(i)' => rowText'[i] = vec'[i]
    PROVE  StoresInv'
<1>1. SUFFICES ASSUME NEW j \in Idx, Clean(j)' PROVE Accounted(j)'
  BY DEF StoresInv
<1>2. Clean(j)
  BY <1>1 DEF Clean
<1>3. Accounted(j)
  BY <1>2 DEF StoresInv
<1>4. \A s \in Requests : s # r => (s \in OpenOn(j)' <=> s \in OpenOn(j))
  BY DEF OpenOn, Open
<1>5. CASE j # i
  <2>1. r \notin OpenOn(j) /\ r \notin OpenOn(j)'
    BY <1>5 DEF OpenOn, Working
  <2>2. OpenOn(j)' = OpenOn(j)
    BY <1>4, <2>1 DEF OpenOn
  <2>3. \A s \in OpenOn(j) : req'[s] = req[s] /\ Progress(s, j)
    BY <1>3, <2>1 DEF Accounted, OpenOn
  <2>4. \A s \in OpenOn(j)' : Progress(s, j)'
    BY <1>5, <2>2, <2>3 DEF Progress
  <2> QED
    BY <1>3, <1>5, <2>2, <2>4 DEF Accounted
<1>6. CASE j = i
  <2>1. OpenOn(i)' \subseteq {r}
    BY <1>1, <1>4, <1>6 DEF OpenOn
  <2> QED
    BY <1>1, <1>6, <2>1 DEF Accounted
<1> QED
  BY <1>5, <1>6

(* A step of a request that works on its chunk. *)
LEMMA WorkStep ==
    ASSUME RowsInv, StoresInv, NEW r \in Requests, Working(r), Moves(r), NEW i, i = req[r].idx,
           \A j \in Idx : j # i => /\ rowText'[j] = rowText[j] /\ rowHash'[j] = rowHash[j]
                                   /\ vec'[j] = vec[j],
           contended \subseteq contended', lost \subseteq lost', signals \subseteq signals',
           Clean(i)' /\ Progress(r, i) /\ Working(r)' => Progress(r, i)',
           Clean(i)' /\ Progress(r, i) /\ ~Working(r)' => rowText'[i] = vec'[i]
    PROVE  StoresInv'
<1>1. i \in Idx
  BY DEF RowsInv, ChunkTypeOK
<1>2. r \in OpenOn(i) /\ (r \in OpenOn(i)' <=> Working(r)')
  BY DEF OpenOn, Working, Moves
<1>3. Clean(i)' => Clean(i)
  BY DEF Clean
<1>4. Clean(i)' => OpenOn(i) \subseteq {r} /\ Progress(r, i)
  BY <1>1, <1>2, <1>3 DEF StoresInv, Accounted
<1>5. /\ \A s \in Requests : s # r => req'[s] = req[s]
      /\ req'[r].idx = i
  BY DEF Moves
<1> QED
  BY <1>1, <1>2, <1>4, <1>5, ChunkStep

(* A step of a request that holds no chunk, before it or after it. *)
LEMMA IdleStep ==
    ASSUME StoresInv, NEW r \in Requests, ~Working(r), ~Working(r)',
           \A s \in Requests : s # r => req'[s] = req[s],
           UNCHANGED <<rowText, rowHash, vec, signals, lost, contended>>
    PROVE  StoresInv'
<1>1. SUFFICES ASSUME NEW j \in Idx, Clean(j)' PROVE Accounted(j)'
  BY DEF StoresInv
<1>2. Accounted(j)
  BY <1>1 DEF Clean, StoresInv
<1>3. OpenOn(j)' = OpenOn(j) /\ r \notin OpenOn(j)
  BY DEF OpenOn, Working, Open
<1>4. \A s \in OpenOn(j) : req'[s] = req[s]
  BY <1>3 DEF OpenOn
<1> QED
  BY <1>2, <1>3, <1>4 DEF Accounted, Progress
-----------------------------------------------------------------------------
(* The steps, one by one.                                                  *)

ChunkInv == RowsInv /\ StoresInv

LEMMA BeginCreateKeeps ==
    ASSUME ChunkInv, NEW r \in Requests, BeginCreate(r)
    PROVE  ChunkInv'
<1>1. RowsInv /\ StoresInv /\ ChunkTypeOK
  BY DEF ChunkInv, RowsInv
<1> DEFINE n == [Fresh EXCEPT !.op = "create", !.at = "found"]
<1>2. n \in RequestType /\ n.op = "create" /\ n.at = "found" /\ n.reply = "none"
  <2>1. 0 \in Idx
    BY ChunkAssumption DEF Idx
  <2> QED
    BY <2>1, RequestsAreTexts DEF RequestType, Fresh, Stages, Replies
<1>3. req' = [req EXCEPT ![r] = n]
  BY DEF BeginCreate
<1> HIDE DEF n
<1>4. /\ req' \in [Requests -> RequestType] /\ req'[r] = n
      /\ \A s \in Requests : s # r => req'[s] = req[s]
  BY <1>1, <1>2, <1>3, RequestSet
<1>5. Shape(r)'
  BY <1>2, <1>4 DEF Shape, Open
<1>6. SideType'
  BY <1>1 DEF SideType, ChunkTypeOK, BeginCreate
<1>7. ~Working(r) /\ ~Working(r)'
  BY <1>2, <1>4 DEF Working, Open, BeginCreate
<1>8. RowsInv'
  BY <1>1, <1>4, <1>5, <1>6, RequestStep DEF BeginCreate
<1>9. StoresInv'
  BY <1>1, <1>4, <1>7, IdleStep DEF BeginCreate
<1> QED
  BY <1>8, <1>9 DEF ChunkInv

(* A request that finds its chunk missing, or refused, ends at once; one   *)
(* that goes on is the only one of its chunk, or the chunk is contended.   *)
LEMMA BeginKeeps ==
    ASSUME ChunkInv, NEW r \in Requests, NEW i \in Idx, NEW n \in RequestType,
           req[r].at = "idle", req' = [req EXCEPT ![r] = n], n.idx = i,
           n.op \in {"update", "delete", "edit"},
           \/ n.at = "done" /\ UNCHANGED contended
           \/ /\ n.at = "found" /\ n.reply = "none" /\ rowText[i] # None
              /\ n.op = "update" => n.prior = rowText[i]
              /\ Contend(r, i),
           UNCHANGED <<rowText, rowHash, vec, chunkCount, signals, lost, faults>>
    PROVE  ChunkInv'
<1>1. RowsInv /\ StoresInv /\ ChunkTypeOK
  BY DEF ChunkInv, RowsInv
<1>2. /\ req' \in [Requests -> RequestType] /\ req'[r] = n
      /\ \A s \in Requests : s # r => req'[s] = req[s]
  BY <1>1, RequestSet
<1>3. contended' \subseteq Idx /\ contended \subseteq contended'
  BY <1>1, ContendType DEF ChunkTypeOK
<1>4. SideType'
  BY <1>1, <1>3 DEF SideType, ChunkTypeOK
<1>5. Shape(r)'
  BY <1>2 DEF Shape, Open
<1>6. RowsInv'
  BY <1>1, <1>2, <1>4, <1>5, RequestStep
<1>7. ~Working(r)
  BY DEF Working, Open
<1>8. CASE n.at = "done" /\ UNCHANGED contended
  <2>1. ~Working(r)'
    BY <1>2, <1>8 DEF Working, Open
  <2> QED
    BY <1>1, <1>2, <1>6, <1>7, <1>8, <2>1, IdleStep DEF ChunkInv
<1>9. CASE /\ n.at = "found" /\ n.reply = "none" /\ rowText[i] # None
           /\ n.op = "update" => n.prior = rowText[i]
           /\ Contend(r, i)
  <2>1. Clean(i)' => OpenOn(i) \subseteq {r}
    BY <1>9 DEF Clean, Contend
  <2>2. r \notin OpenOn(i)
    BY DEF OpenOn, Open
  <2>3. Clean(i)' => rowText[i] = vec[i]
    <3>1. SUFFICES ASSUME Clean(i)' PROVE rowText[i] = vec[i]
      OBVIOUS
    <3>2. Clean(i)
      BY <1>3, <3>1 DEF Clean
    <3>3. OpenOn(i) = {}
      BY <2>1, <2>2, <3>1
    <3> QED
      BY <1>1, <3>2, <3>3 DEF StoresInv, Accounted
  <2>4. Clean(i)' => Progress(r, i)'
    BY <1>2, <1>9, <2>3 DEF Progress
  <2>5. r \in OpenOn(i)'
    BY <1>2, <1>9 DEF OpenOn, Open
  <2>6. req'[r].idx = i
    BY <1>2
  <2>7. StoresInv'
    BY <1>1, <1>2, <1>3, <1>7, <2>1, <2>4, <2>5, <2>6, ChunkStep
  <2> QED
    BY <1>6, <2>7 DEF ChunkInv
<1> QED
  BY <1>8, <1>9

LEMMA BeginOnChunkKeeps ==
    ASSUME ChunkInv, NEW r \in Requests, NEW i \in Idx, NEW op \in {"update", "delete"},
           BeginOnChunk(r, op, i)
    PROVE  ChunkInv'
<1>1. ChunkTypeOK
  BY DEF ChunkInv, RowsInv
<1>2. rowText[i] \in OptText /\ rowHash[i] \in OptText
  BY <1>1 DEF ChunkTypeOK
<1> USE RequestsAreTexts
<1>3. CASE rowText[i] = None
  <2> DEFINE n == [Fresh EXCEPT !.op = op, !.idx = i, !.at = "done", !.reply = "notfound"]
  <2>1. n \in RequestType /\ n.idx = i /\ n.op = op /\ n.at = "done"
    BY DEF RequestType, Fresh, Stages, Replies
  <2>2. req' = [req EXCEPT ![r] = n] /\ UNCHANGED contended
    BY <1>3 DEF BeginOnChunk
  <2> HIDE DEF n
  <2> QED
    BY <2>1, <2>2, BeginKeeps DEF BeginOnChunk
<1>4. CASE rowText[i] # None
  <2> DEFINE n == [Fresh EXCEPT !.op = op, !.idx = i, !.at = "found",
                                !.prior = rowText[i], !.priorHash = rowHash[i]]
  <2>1. /\ n \in RequestType /\ n.idx = i /\ n.op = op /\ n.at = "found" /\ n.reply = "none"
        /\ n.prior = rowText[i]
    BY <1>2 DEF RequestType, Fresh, Stages, Replies
  <2>2. req' = [req EXCEPT ![r] = n] /\ Contend(r, i)
    BY <1>4 DEF BeginOnChunk
  <2> HIDE DEF n
  <2> QED
    BY <1>4, <2>1, <2>2, BeginKeeps DEF BeginOnChunk
<1> QED
  BY <1>3, <1>4

LEMMA BeginEditKeeps ==
    ASSUME ChunkInv, NEW r \in Requests, NEW i \in Idx, BeginEdit(r, i)
    PROVE  ChunkInv'
<1> USE RequestsAreTexts
<1>1. /\ req[r].at = "idle"
      /\ UNCHANGED <<rowText, rowHash, vec, chunkCount, signals, lost, faults>>
  BY DEF BeginEdit
<1>2. \/ \E reply \in {"notfound", "conflict"} :
            /\ req' = [req EXCEPT ![r] = [Fresh EXCEPT !.op = "edit", !.idx = i,
                                                      !.at = "done", !.reply = reply]]
            /\ UNCHANGED contended
      \/ /\ req' = [req EXCEPT ![r] = [Fresh EXCEPT !.op = "edit", !.idx = i, !.at = "found"]]
         /\ Contend(r, i) /\ rowText[i] # None
  BY DEF BeginEdit
<1>3. ASSUME NEW reply \in {"notfound", "conflict"},
             req' = [req EXCEPT ![r] = [Fresh EXCEPT !.op = "edit", !.idx = i,
                                                     !.at = "done", !.reply = reply]],
             UNCHANGED contended
      PROVE  ChunkInv'
  <2> DEFINE n == [Fresh EXCEPT !.op = "edit", !.idx = i, !.at = "done", !.reply = reply]
  <2>1. n \in RequestType /\ n.idx = i /\ n.op = "edit" /\ n.at = "done"
    BY DEF RequestType, Fresh, Stages, Replies
  <2>2. req' = [req EXCEPT ![r] = n]
    BY <1>3
  <2> HIDE DEF n
  <2> QED
    BY <1>1, <1>3, <2>1, <2>2, BeginKeeps
<1>4. CASE /\ req' = [req EXCEPT ![r] = [Fresh EXCEPT !.op = "edit", !.idx = i, !.at = "found"]]
           /\ Contend(r, i) /\ rowText[i] # None
  <2> DEFINE n == [Fresh EXCEPT !.op = "edit", !.idx = i, !.at = "found"]
  <2>1. n \in RequestType /\ n.idx = i /\ n.op = "edit" /\ n.at = "found" /\ n.reply = "none"
    BY DEF RequestType, Fresh, Stages, Replies
  <2>2. req' = [req EXCEPT ![r] = n]
    BY <1>4
  <2> HIDE DEF n
  <2> QED
    BY <1>1, <1>4, <2>1, <2>2, BeginKeeps
<1> QED
  BY <1>2, <1>3, <1>4

LEMMA AppendRowKeeps ==
    ASSUME ChunkInv, NEW r \in Requests, AppendRow(r)
    PROVE  ChunkInv'
<1>1. RowsInv /\ StoresInv /\ ChunkTypeOK /\ Shape(r)
  BY DEF ChunkInv, RowsInv, Shapes
<1>2. PICK i \in Idx : i = NextIndex /\ rowText[i] = None
  BY <1>1, NextIndexFree DEF AppendRow
<1>3. /\ req[r].at = "found" /\ req[r].op = "create"
      /\ rowText' = [rowText EXCEPT ![i] = r] /\ rowHash' = [rowHash EXCEPT ![i] = r]
      /\ chunkCount' = chunkCount + 1
      /\ req' = [req EXCEPT ![r].at = "written", ![r].idx = i]
      /\ Contend(r, i) /\ UNCHANGED <<vec, signals, lost, faults>>
  BY <1>2 DEF AppendRow
<1> DEFINE n == [req[r] EXCEPT !.at = "written", !.idx = i]
<1>4. req[r] \in RequestType
  BY <1>1 DEF ChunkTypeOK, RequestType
<1>5. /\ n \in RequestType /\ n.at = "written" /\ n.idx = i /\ n.op = "create"
      /\ n.reply = req[r].reply
  BY <1>2, <1>3, <1>4 DEF RequestType, Stages
<1>6. req' = [req EXCEPT ![r] = n]
  BY <1>1, <1>3 DEF ChunkTypeOK
<1> HIDE DEF n
<1>7. /\ req' \in [Requests -> RequestType] /\ req'[r] = n
      /\ \A s \in Requests : s # r => req'[s] = req[s]
  BY <1>1, <1>5, <1>6, RequestSet
<1>8. Shape(r)'
  BY <1>1, <1>3, <1>5, <1>7 DEF Shape, Open
<1>9. contended' \subseteq Idx /\ contended \subseteq contended'
  BY <1>1, <1>2, <1>3, ContendType
<1>10. SideType'
  BY <1>1, <1>3, <1>9 DEF SideType, ChunkTypeOK
<1>11. r \in OptText /\ r # None
  BY RequestsAreTexts
<1>12. RowsInv'
  BY <1>1, <1>2, <1>3, <1>7, <1>8, <1>10, <1>11, RowStep
<1>13. StoresInv'
  <2>1. Clean(i)' => OpenOn(i) \subseteq {r}
    BY <1>3 DEF Clean, Contend
  <2>2. r \notin OpenOn(i) /\ ~Working(r)
    BY <1>3 DEF OpenOn, Working
  <2>3. Clean(i)' => vec[i] = None
    <3>1. SUFFICES ASSUME Clean(i)' PROVE vec[i] = None
      OBVIOUS
    <3>2. Clean(i)
      BY <1>3, <1>9, <3>1 DEF Clean
    <3>3. OpenOn(i) = {}
      BY <2>1, <2>2, <3>1
    <3> QED
      BY <1>1, <1>2, <3>2, <3>3 DEF StoresInv, Accounted
  <2>4. rowText'[i] = r /\ \A j \in Idx : j # i => rowText'[j] = rowText[j] /\ rowHash'[j] = rowHash[j]
    BY <1>1, <1>2, <1>3 DEF ChunkTypeOK
  <2>5. Clean(i)' => Progress(r, i)'
    BY <1>3, <1>5, <1>7, <2>3, <2>4 DEF Progress
  <2>6. r \in OpenOn(i)'
    BY <1>5, <1>7 DEF OpenOn, Open
  <2>7. req'[r].idx = i
    BY <1>5, <1>7
  <2> QED
    BY <1>1, <1>2, <1>3, <1>7, <1>9, <2>1, <2>2, <2>4, <2>5, <2>6, <2>7, ChunkStep
<1> QED
  BY <1>12, <1>13 DEF ChunkInv
(* The request's next place fits what it was asked for. *)
LEMMA NextShape ==
    ASSUME NEW r \in Requests, Shape(r), Open(r), Moves(r), req'[r].reply # "none" => req'[r].at = "done",
           \/ req'[r].at = "done"
           \/ req'[r].at = "written" /\ req[r].op \in {"create", "update", "edit"}
           \/ req'[r].at = "restore" /\ req[r].op = "update"
           \/ req'[r].at \in {"unrow", "selected"} /\ req[r].op \in {"create", "delete"}
           \/ req'[r].at = "record" /\ req[r].op = "edit"
    PROVE  Shape(r)'
  BY DEF Shape, Open, Moves

(* A step of a working request that writes no row. *)
LEMMA WorkWritesNoRow ==
    ASSUME ChunkInv, NEW r \in Requests, Working(r), Moves(r), Shape(r)', SideType',
           UNCHANGED <<rowText, rowHash, chunkCount>>,
           contended \subseteq contended', lost \subseteq lost', signals \subseteq signals',
           NEW i, i = req[r].idx, \A j \in Idx : j # i => vec'[j] = vec[j],
           Clean(i)' /\ Progress(r, i) /\ Working(r)' => Progress(r, i)',
           Clean(i)' /\ Progress(r, i) /\ ~Working(r)' => rowText'[i] = vec'[i]
    PROVE  ChunkInv'
<1>1. RowsInv /\ StoresInv
  BY DEF ChunkInv
<1>2. RowsInv'
  BY <1>1, RequestStep DEF Moves
<1>3. StoresInv'
  BY <1>1, WorkStep
<1> QED
  BY <1>2, <1>3 DEF ChunkInv

(* A step of a working request that writes the row of its chunk. *)
LEMMA WorkWritesRow ==
    ASSUME ChunkInv, NEW r \in Requests, Working(r), Moves(r), Shape(r)',
           NEW i, i = req[r].idx, NEW x \in OptText,
           rowText' = [rowText EXCEPT ![i] = x], rowHash' = [rowHash EXCEPT ![i] = x],
           chunkCount' = IF rowText[i] # None /\ x = None THEN chunkCount - 1 ELSE chunkCount,
           rowText[i] = None => x = None,
           UNCHANGED <<vec, signals, lost, contended, faults>>,
           Progress(r, i) /\ Working(r)' => Progress(r, i)',
           Progress(r, i) /\ ~Working(r)' => x = vec[i]
    PROVE  ChunkInv'
<1>1. RowsInv /\ StoresInv /\ ChunkTypeOK /\ i \in Idx
  BY DEF ChunkInv, RowsInv, ChunkTypeOK
<1>2. SideType'
  BY <1>1 DEF SideType, ChunkTypeOK
<1>3. RowsInv'
  BY <1>1, <1>2, RowStep DEF Moves
<1>4. /\ rowText'[i] = x
      /\ \A j \in Idx : j # i => rowText'[j] = rowText[j] /\ rowHash'[j] = rowHash[j]
  BY <1>1 DEF ChunkTypeOK
<1>5. StoresInv'
  BY <1>1, <1>4, WorkStep
<1> QED
  BY <1>3, <1>5 DEF ChunkInv

LEMMA UpdateRowKeeps ==
    ASSUME ChunkInv, NEW r \in Requests, UpdateRow(r)
    PROVE  ChunkInv'
<1>1. ChunkTypeOK /\ Shape(r)
  BY DEF ChunkInv, RowsInv, Shapes
<1>2. PICK i \in Idx : i = req[r].idx
  BY <1>1 DEF ChunkTypeOK
<1>3. /\ req[r].at = "found" /\ req[r].op = "update"
      /\ UNCHANGED <<vec, chunkCount, signals, lost, contended, faults>>
  BY DEF UpdateRow
<1>4. Open(r) /\ Working(r) /\ req[r].reply = "none"
  BY <1>1, <1>3 DEF Open, Working, Shape
<1>5. CASE /\ rowText[i] # None /\ Goto(r, "written")
           /\ rowText' = [rowText EXCEPT ![i] = r] /\ rowHash' = [rowHash EXCEPT ![i] = r]
  <2>1. "written" \in Stages /\ r \in OptText /\ r # None
    BY RequestsAreTexts DEF Stages
  <2>2. Moves(r) /\ req'[r].at = "written" /\ req'[r].reply = "none"
    BY <1>1, <1>4, <1>5, <2>1, GotoMoves
  <2>3. Shape(r)'
    BY <1>1, <1>3, <1>4, <2>2, NextShape
  <2>4. rowText'[i] = r /\ rowHash'[i] = r
    BY <1>1, <1>5 DEF ChunkTypeOK
  <2>5. Progress(r, i) => Progress(r, i)'
    BY <1>3, <2>2, <2>4 DEF Progress, Moves
  <2>6. Working(r)'
    BY <2>2 DEF Working, Open
  <2> QED
    BY <1>2, <1>3, <1>4, <1>5, <2>1, <2>2, <2>3, <2>5, <2>6, WorkWritesRow
<1>6. CASE Answer(r, "notfound") /\ UNCHANGED <<rowText, rowHash>>
  <2>1. Moves(r) /\ req'[r].at = "done" /\ req'[r].reply = "notfound"
    BY <1>1, <1>6, AnswerMoves DEF Replies
  <2>2. Shape(r)'
    BY <1>1, <1>4, <2>1, NextShape
  <2>3. SideType' /\ ~Working(r)'
    BY <1>1, <1>3, <2>1 DEF SideType, ChunkTypeOK, Working, Open
  <2>4. Progress(r, i) => rowText'[i] = vec'[i]
    BY <1>3, <1>6 DEF Progress
  <2> QED
    BY <1>2, <1>3, <1>4, <1>6, <2>1, <2>2, <2>3, <2>4, WorkWritesNoRow
<1> QED
  BY <1>2, <1>5, <1>6 DEF UpdateRow

LEMMA EditRowKeeps ==
    ASSUME ChunkInv, NEW r \in Requests, EditRow(r)
    PROVE  ChunkInv'
<1>1. ChunkTypeOK /\ Shape(r)
  BY DEF ChunkInv, RowsInv, Shapes
<1>2. PICK i \in Idx : i = req[r].idx
  BY <1>1 DEF ChunkTypeOK
<1>3. /\ req[r].at = "found" /\ req[r].op = "edit" /\ rowText[i] # None /\ Goto(r, "written")
      /\ rowText' = [rowText EXCEPT ![i] = r] /\ rowHash' = [rowHash EXCEPT ![i] = r]
      /\ UNCHANGED <<vec, chunkCount, signals, lost, contended, faults>>
  BY <1>2 DEF EditRow
<1>4. Open(r) /\ Working(r) /\ req[r].reply = "none"
  BY <1>1, <1>3 DEF Open, Working, Shape
<1>5. "written" \in Stages /\ r \in OptText /\ r # None
  BY RequestsAreTexts DEF Stages
<1>6. Moves(r) /\ req'[r].at = "written" /\ req'[r].reply = "none"
  BY <1>1, <1>3, <1>4, <1>5, GotoMoves
<1>7. Shape(r)'
  BY <1>1, <1>3, <1>4, <1>6, NextShape
<1>8. rowText'[i] = r
  BY <1>1, <1>3 DEF ChunkTypeOK
<1>9. Progress(r, i)' /\ Working(r)'
  BY <1>3, <1>6, <1>8 DEF Progress, Moves, Working, Open
<1> QED
  BY <1>2, <1>3, <1>4, <1>5, <1>6, <1>7, <1>9, WorkWritesRow

LEMMA RowFailsKeeps ==
    ASSUME ChunkInv, NEW r \in Requests, RowFails(r)
    PROVE  ChunkInv'
<1>1. RowsInv /\ StoresInv /\ ChunkTypeOK /\ Shape(r)
  BY DEF ChunkInv, RowsInv, Shapes
<1>2. PICK i \in Idx : i = req[r].idx
  BY <1>1 DEF ChunkTypeOK
<1>3. /\ req[r].at = "found" /\ req[r].op \in {"create", "update"} /\ Fault
      /\ Answer(r, "unavailable")
      /\ UNCHANGED <<rowText, rowHash, vec, chunkCount, signals, lost, contended>>
  BY DEF RowFails
<1>4. Moves(r) /\ req'[r].at = "done" /\ req'[r].reply = "unavailable"
  BY <1>1, <1>3, AnswerMoves DEF Replies
<1>5. Open(r) /\ ~Working(r)'
  BY <1>3, <1>4 DEF Open, Working
<1>6. Shape(r)'
  BY <1>1, <1>4, <1>5, NextShape
<1>7. SideType'
  BY <1>1, <1>3, FaultType DEF SideType, ChunkTypeOK
<1>8. CASE req[r].op = "create"
  <2>1. ~Working(r)
    BY <1>3, <1>8 DEF Working
  <2>2. RowsInv'
    BY <1>1, <1>3, <1>4, <1>6, <1>7, RequestStep DEF Moves
  <2>3. StoresInv'
    BY <1>1, <1>3, <1>4, <1>5, <2>1, IdleStep DEF Moves
  <2> QED
    BY <2>2, <2>3 DEF ChunkInv
<1>9. CASE req[r].op = "update"
  <2>1. Working(r)
    BY <1>3, <1>9 DEF Working, Open
  <2>2. Progress(r, i) => rowText'[i] = vec'[i]
    BY <1>3 DEF Progress
  <2> QED
    BY <1>2, <1>3, <1>4, <1>5, <1>6, <1>7, <2>1, <2>2, WorkWritesNoRow
<1> QED
  BY <1>3, <1>8, <1>9
LEMMA EmbedKeeps ==
    ASSUME ChunkInv, NEW r \in Requests, Embed(r)
    PROVE  ChunkInv'
<1>1. ChunkTypeOK /\ Shape(r)
  BY DEF ChunkInv, RowsInv, Shapes
<1>2. PICK i \in Idx : i = req[r].idx
  BY <1>1 DEF ChunkTypeOK
<1>3. /\ req[r].at = "written" /\ vec' = [vec EXCEPT ![i] = r] /\ Answer(r, "ok")
      /\ UNCHANGED <<rowText, rowHash, chunkCount, signals, lost, contended, faults>>
  BY <1>2 DEF Embed
<1>4. Moves(r) /\ req'[r].at = "done" /\ req'[r].reply = "ok"
  BY <1>1, <1>3, AnswerMoves DEF Replies
<1>5. Open(r) /\ Working(r) /\ ~Working(r)'
  BY <1>3, <1>4 DEF Open, Working
<1>6. Shape(r)'
  BY <1>1, <1>4, <1>5, NextShape
<1>7. /\ vec' \in [Idx -> OptText] /\ vec'[i] = r
      /\ \A j \in Idx : j # i => vec'[j] = vec[j]
  BY <1>1, <1>3, RequestsAreTexts DEF ChunkTypeOK
<1>8. SideType'
  BY <1>1, <1>3, <1>7 DEF SideType, ChunkTypeOK
<1>9. Progress(r, i) => rowText'[i] = vec'[i]
  BY <1>3, <1>7 DEF Progress
<1> QED
  BY <1>2, <1>3, <1>4, <1>5, <1>6, <1>7, <1>8, <1>9, WorkWritesNoRow

(* The embedding was refused, or it failed and may have been applied. *)
LEMMA EmbedErrorKeeps ==
    ASSUME ChunkInv, NEW r \in Requests, EmbedRefused(r) \/ EmbedFails(r)
    PROVE  ChunkInv'
<1>1. ChunkTypeOK /\ Shape(r) /\ Shapes
  BY DEF ChunkInv, RowsInv, Shapes
<1>2. PICK i \in Idx : i = req[r].idx
  BY <1>1 DEF ChunkTypeOK
<1>3. /\ req[r].at = "written" /\ AfterEmbedError(r)
      /\ UNCHANGED <<rowText, rowHash, chunkCount, signals, contended>>
      /\ UNCHANGED <<vec, lost, faults>> \/ (Fault /\ Applied(r, r))
  BY DEF EmbedRefused, EmbedFails
<1>4. Open(r) /\ Working(r) /\ req[r].reply = "none"
  BY <1>1, <1>3 DEF Open, Working, Shape
<1>5. /\ Moves(r) /\ req'[r].reply = req[r].reply
      /\ \/ req[r].op = "create" /\ req'[r].at = "unrow"
         \/ req[r].op = "update" /\ req'[r].at = "restore"
         \/ req[r].op = "edit" /\ req'[r].at \in {"written", "record"}
  BY <1>1, <1>3, AfterEmbedErrorMoves
<1>6. Shape(r)'
  BY <1>1, <1>4, <1>5, NextShape
<1>7. /\ vec' \in [Idx -> OptText] /\ lost' \subseteq Idx /\ lost \subseteq lost'
      /\ \A j \in Idx : j # i => vec'[j] = vec[j]
      /\ vec' = vec \/ i \in lost'
  <2>1. CASE UNCHANGED <<vec, lost, faults>>
    BY <1>1, <2>1 DEF ChunkTypeOK
  <2>2. CASE Fault /\ Applied(r, r)
    BY <1>1, <1>2, <2>2, AppliedType, RequestsAreTexts
  <2> QED
    BY <1>3, <2>1, <2>2
<1>8. faults' \in 0..MaxFaults
  BY <1>1, <1>3, FaultType DEF ChunkTypeOK
<1>9. SideType'
  BY <1>1, <1>3, <1>7, <1>8 DEF SideType, ChunkTypeOK
<1>10. Working(r)'
  BY <1>4, <1>5 DEF Working, Open
<1>11. Clean(i)' /\ Progress(r, i) => Progress(r, i)'
  <2>1. SUFFICES ASSUME Clean(i)', Progress(r, i) PROVE Progress(r, i)'
    OBVIOUS
  <2>2. vec' = vec
    BY <1>7, <2>1 DEF Clean
  <2> QED
    BY <1>3, <1>5, <2>1, <2>2 DEF Progress, Moves
<1> QED
  BY <1>2, <1>3, <1>4, <1>5, <1>6, <1>7, <1>9, <1>10, <1>11, WorkWritesNoRow

LEMMA CreateTimesOutKeeps ==
    ASSUME ChunkInv, NEW r \in Requests, CreateTimesOut(r)
    PROVE  ChunkInv'
<1>1. ChunkTypeOK /\ Shape(r)
  BY DEF ChunkInv, RowsInv, Shapes
<1>2. PICK i \in Idx : i = req[r].idx
  BY <1>1 DEF ChunkTypeOK
<1>3. /\ req[r].at = "written" /\ Fault /\ Applied(r, r) /\ Answer(r, "unavailable")
      /\ signals' = signals \cup {<<"timeout", i>>}
      /\ UNCHANGED <<rowText, rowHash, chunkCount, contended>>
  BY <1>2 DEF CreateTimesOut
<1>4. Moves(r) /\ req'[r].at = "done" /\ req'[r].reply = "unavailable"
  BY <1>1, <1>3, AnswerMoves DEF Replies
<1>5. Open(r) /\ Working(r) /\ ~Working(r)'
  BY <1>3, <1>4 DEF Open, Working
<1>6. Shape(r)'
  BY <1>1, <1>4, <1>5, NextShape
<1>7. /\ vec' \in [Idx -> OptText] /\ lost' \subseteq Idx /\ lost \subseteq lost'
      /\ \A j \in Idx : j # i => vec'[j] = vec[j]
  BY <1>1, <1>2, <1>3, AppliedType, RequestsAreTexts
<1>8. "timeout" \in SignalKinds
  BY DEF SignalKinds
<1>9. SideType'
  BY <1>1, <1>3, <1>7, <1>8, FaultType DEF SideType, ChunkTypeOK
<1>10. ~Clean(i)'
  BY <1>3, <1>8 DEF Clean
<1> QED
  BY <1>2, <1>3, <1>4, <1>5, <1>6, <1>7, <1>9, <1>10, WorkWritesNoRow

LEMMA DeleteVectorKeeps ==
    ASSUME ChunkInv, NEW r \in Requests, DeleteVector(r)
    PROVE  ChunkInv'
<1>1. ChunkTypeOK /\ Shape(r)
  BY DEF ChunkInv, RowsInv, Shapes
<1>2. PICK i \in Idx : i = req[r].idx
  BY <1>1 DEF ChunkTypeOK
<1>3. /\ req[r].at = "found" /\ req[r].op = "delete" /\ Goto(r, "unrow")
      /\ vec' = [vec EXCEPT ![i] = None]
      /\ UNCHANGED <<rowText, rowHash, chunkCount, signals, lost, contended, faults>>
  BY <1>2 DEF DeleteVector
<1>4. Open(r) /\ Working(r) /\ req[r].reply = "none"
  BY <1>1, <1>3 DEF Open, Working, Shape
<1>5. Moves(r) /\ req'[r].at = "unrow" /\ req'[r].reply = "none"
  BY <1>1, <1>3, <1>4, GotoMoves DEF Stages
<1>6. Shape(r)'
  BY <1>1, <1>3, <1>4, <1>5, NextShape
<1>7. /\ vec' \in [Idx -> OptText] /\ vec'[i] = None
      /\ \A j \in Idx : j # i => vec'[j] = vec[j]
  BY <1>1, <1>3, RequestsAreTexts DEF ChunkTypeOK
<1>8. SideType'
  BY <1>1, <1>3, <1>7 DEF SideType, ChunkTypeOK
<1>9. Progress(r, i)' /\ Working(r)'
  BY <1>5, <1>7 DEF Progress, Working, Open
<1> QED
  BY <1>2, <1>3, <1>4, <1>5, <1>6, <1>7, <1>8, <1>9, WorkWritesNoRow

LEMMA DeleteVectorFailsKeeps ==
    ASSUME ChunkInv, NEW r \in Requests, DeleteVectorFails(r)
    PROVE  ChunkInv'
<1>1. ChunkTypeOK /\ Shape(r)
  BY DEF ChunkInv, RowsInv, Shapes
<1>2. PICK i \in Idx : i = req[r].idx
  BY <1>1 DEF ChunkTypeOK
<1>3. /\ req[r].at = "found" /\ req[r].op = "delete" /\ Fault /\ Applied(r, None)
      /\ Answer(r, "unavailable")
      /\ UNCHANGED <<rowText, rowHash, chunkCount, signals, contended>>
  BY DEF DeleteVectorFails
<1>4. Moves(r) /\ req'[r].at = "done" /\ req'[r].reply = "unavailable"
  BY <1>1, <1>3, AnswerMoves DEF Replies
<1>5. Open(r) /\ Working(r) /\ ~Working(r)'
  BY <1>3, <1>4 DEF Open, Working
<1>6. Shape(r)'
  BY <1>1, <1>4, <1>5, NextShape
<1>7. /\ vec' \in [Idx -> OptText] /\ lost' \subseteq Idx /\ lost \subseteq lost'
      /\ \A j \in Idx : j # i => vec'[j] = vec[j]
      /\ vec' = vec \/ i \in lost'
  BY <1>1, <1>2, <1>3, AppliedType, RequestsAreTexts
<1>8. SideType'
  BY <1>1, <1>3, <1>7, FaultType DEF SideType, ChunkTypeOK
<1>9. Clean(i)' /\ Progress(r, i) => rowText'[i] = vec'[i]
  BY <1>3, <1>7 DEF Progress, Clean
<1> QED
  BY <1>2, <1>3, <1>4, <1>5, <1>6, <1>7, <1>8, <1>9, WorkWritesNoRow

LEMMA GoneReplyType ==
    ASSUME NEW r \in Requests, NEW b \in BOOLEAN
    PROVE  RowGoneReply(r, b) \in Replies /\ RowGoneReply(r, b) # "none"
  BY DEF RowGoneReply, Replies

LEMMA SelectRowKeeps ==
    ASSUME ChunkInv, NEW r \in Requests, SelectRow(r)
    PROVE  ChunkInv'
<1>1. ChunkTypeOK /\ Shape(r)
  BY DEF ChunkInv, RowsInv, Shapes
<1>2. PICK i \in Idx : i = req[r].idx
  BY <1>1 DEF ChunkTypeOK
<1>3. /\ req[r].at = "unrow"
      /\ UNCHANGED <<rowText, rowHash, vec, chunkCount, signals, lost, contended, faults>>
  BY DEF SelectRow
<1>4. Open(r) /\ Working(r) /\ req[r].reply = "none" /\ req[r].op \in {"create", "delete"}
  BY <1>1, <1>3 DEF Open, Working, Shape
<1>5. SideType'
  BY <1>1, <1>3 DEF SideType, ChunkTypeOK
<1>6. CASE rowText[i] = None
  <2>1. Answer(r, RowGoneReply(r, FALSE))
    BY <1>2, <1>6 DEF SelectRow
  <2>2. Moves(r) /\ req'[r].at = "done"
    BY <1>1, <2>1, GoneReplyType, AnswerMoves
  <2>3. Shape(r)' /\ ~Working(r)'
    BY <1>1, <1>4, <2>2, NextShape DEF Working, Open
  <2>4. Progress(r, i) => rowText'[i] = vec'[i]
    BY <1>3, <1>6 DEF Progress
  <2> QED
    BY <1>2, <1>3, <1>4, <1>5, <2>2, <2>3, <2>4, WorkWritesNoRow
<1>7. CASE rowText[i] # None
  <2>1. req' = [req EXCEPT ![r].at = "selected"]
    BY <1>2, <1>7 DEF SelectRow
  <2>2. Moves(r) /\ req'[r].at = "selected" /\ req'[r].reply = "none"
    BY <1>1, <1>4, <2>1, RetryMoves DEF Stages
  <2>3. Shape(r)' /\ Working(r)'
    BY <1>1, <1>4, <2>2, NextShape DEF Working, Open
  <2>4. Progress(r, i) => Progress(r, i)'
    BY <1>3, <2>2 DEF Progress
  <2> QED
    BY <1>2, <1>3, <1>4, <1>5, <2>2, <2>3, <2>4, WorkWritesNoRow
<1> QED
  BY <1>6, <1>7

LEMMA DeleteSelectedRowKeeps ==
    ASSUME ChunkInv, NEW r \in Requests, DeleteSelectedRow(r)
    PROVE  ChunkInv'
<1>1. ChunkTypeOK /\ Shape(r) /\ CountExact
  BY DEF ChunkInv, RowsInv, Shapes
<1>2. PICK i \in Idx : i = req[r].idx
  BY <1>1 DEF ChunkTypeOK
<1>3. /\ req[r].at = "selected" /\ Answer(r, RowGoneReply(r, rowText[i] # None))
      /\ rowText' = [rowText EXCEPT ![i] = None] /\ rowHash' = [rowHash EXCEPT ![i] = None]
      /\ chunkCount' = IF rowText[i] = None \/ chunkCount = 0 THEN chunkCount ELSE chunkCount - 1
      /\ UNCHANGED <<vec, signals, lost, contended, faults>>
  BY <1>2 DEF DeleteSelectedRow
<1>4. Moves(r) /\ req'[r].at = "done"
  BY <1>1, <1>3, GoneReplyType, AnswerMoves
<1>5. Open(r) /\ Working(r) /\ ~Working(r)'
  BY <1>3, <1>4 DEF Open, Working
<1>6. Shape(r)'
  BY <1>1, <1>4, <1>5, NextShape
<1>7. rowText[i] # None => chunkCount # 0
  <2>1. SUFFICES ASSUME rowText[i] # None PROVE Cardinality(Rows) # 0
    BY <1>1 DEF CountExact
  <2>2. Rows # {}
    BY <2>1 DEF Rows
  <2> QED
    BY <2>2, RowsFinite, FS_EmptySet
<1>8. Progress(r, i) => None = vec[i]
  BY <1>3 DEF Progress
<1> QED
  BY <1>2, <1>3, <1>4, <1>5, <1>6, <1>7, <1>8, RequestsAreTexts, WorkWritesRow

(* A compensating write fails: it is tried again, or it is on record. *)
LEMMA ExhaustKeeps ==
    ASSUME ChunkInv, NEW r \in Requests, Open(r), Fault, NEW reply \in Replies,
           NEW a \in {"unrow", "restore", "record"}, Exhaust(r, a, reply),
           req[r].at = a \/ (req[r].at = "selected" /\ a = "unrow"),
           UNCHANGED <<rowText, rowHash, vec, chunkCount, lost, contended>>
    PROVE  ChunkInv'
<1>1. ChunkTypeOK /\ Shape(r)
  BY DEF ChunkInv, RowsInv, Shapes
<1>2. PICK i \in Idx : i = req[r].idx
  BY <1>1 DEF ChunkTypeOK
<1>3. Working(r) /\ req[r].reply = "none" /\ a \in Stages /\ "exhausted" \in SignalKinds
  BY <1>1 DEF Working, Shape, Open, Stages, SignalKinds
<1>4. /\ Moves(r)
      /\ \/ req'[r].at = a /\ req'[r].reply = "none" /\ signals' = signals
         \/ req'[r].at = "done" /\ signals' = signals \cup {<<"exhausted", i>>}
  BY <1>1, <1>2, <1>3, ExhaustMoves
<1>5. Shape(r)'
  <2>1. CASE req'[r].at = "done"
    BY <1>1, <1>4, <2>1, NextShape
  <2>2. CASE req'[r].at = a /\ req'[r].reply = "none"
    BY <1>1, <1>4, <2>2 DEF Shape, Open, Moves
  <2> QED
    BY <1>4, <2>1, <2>2
<1>6. signals \subseteq signals' /\ signals' \subseteq (SignalKinds \X Idx)
  BY <1>1, <1>3, <1>4 DEF ChunkTypeOK
<1>7. SideType'
  BY <1>1, <1>6, FaultType DEF SideType, ChunkTypeOK
<1>8. Clean(i)' => req'[r].at = a
  BY <1>3, <1>4 DEF Clean
<1>9. Clean(i)' /\ Progress(r, i) => Progress(r, i)' /\ Working(r)'
  BY <1>4, <1>8 DEF Progress, Moves, Working, Open
<1> QED
  BY <1>2, <1>3, <1>4, <1>5, <1>6, <1>7, <1>9, WorkWritesNoRow

LEMMA CompensationFailsKeeps ==
    ASSUME ChunkInv, NEW r \in Requests, DeleteRowFails(r) \/ RestoreFails(r) \/ RecordFails(r)
    PROVE  ChunkInv'
<1>1. {"unavailable", "error"} \subseteq Replies
  BY DEF Replies
<1>2. CASE DeleteRowFails(r)
  <2>1. Open(r)
    BY <1>2 DEF DeleteRowFails, Open
  <2> QED
    BY <1>1, <1>2, <2>1, ExhaustKeeps DEF DeleteRowFails
<1>3. CASE RestoreFails(r)
  <2>1. Open(r)
    BY <1>3 DEF RestoreFails, Open
  <2> QED
    BY <1>1, <1>3, <2>1, ExhaustKeeps DEF RestoreFails
<1>4. CASE RecordFails(r)
  <2>1. Open(r)
    BY <1>4 DEF RecordFails, Open
  <2> QED
    BY <1>1, <1>4, <2>1, ExhaustKeeps DEF RecordFails
<1> QED
  BY <1>2, <1>3, <1>4

LEMMA RestoreKeeps ==
    ASSUME ChunkInv, NEW r \in Requests, Restore(r)
    PROVE  ChunkInv'
<1>1. ChunkTypeOK /\ Shape(r)
  BY DEF ChunkInv, RowsInv, Shapes
<1>2. PICK i \in Idx : i = req[r].idx
  BY <1>1 DEF ChunkTypeOK
<1>3. /\ req[r].at = "restore" /\ Answer(r, "unavailable")
      /\ UNCHANGED <<vec, chunkCount, signals, lost, contended, faults>>
  BY DEF Restore
<1>4. Moves(r) /\ req'[r].at = "done" /\ req'[r].reply = "unavailable"
  BY <1>1, <1>3, AnswerMoves DEF Replies
<1>5. Open(r) /\ Working(r) /\ ~Working(r)'
  BY <1>3, <1>4 DEF Open, Working
<1>6. Shape(r)'
  BY <1>1, <1>4, <1>5, NextShape
<1>7. PICK x \in OptText : x = req[r].prior /\ x # None
  BY <1>1, <1>3, <1>5 DEF ChunkTypeOK, Shape
<1>8. CASE /\ rowText[i] # None
           /\ rowText' = [rowText EXCEPT ![i] = x] /\ rowHash' = [rowHash EXCEPT ![i] = x]
  <2>1. Progress(r, i) => x = vec[i]
    BY <1>3, <1>7 DEF Progress
  <2> QED
    BY <1>2, <1>3, <1>4, <1>5, <1>6, <1>7, <1>8, <2>1, WorkWritesRow
<1>9. CASE ~(rowText[i] # None /\ HashUnchanged(i, r)) /\ UNCHANGED <<rowText, rowHash>>
  <2>1. SideType'
    BY <1>1, <1>3 DEF SideType, ChunkTypeOK
  <2>2. ~Progress(r, i)
    BY <1>3, <1>9, RequestsAreTexts DEF Progress, HashUnchanged
  <2> QED
    BY <1>2, <1>3, <1>4, <1>5, <1>6, <1>9, <2>1, <2>2, WorkWritesNoRow
<1> QED
  BY <1>2, <1>7, <1>8, <1>9 DEF Restore

LEMMA RecordFailureKeeps ==
    ASSUME ChunkInv, NEW r \in Requests, RecordFailure(r)
    PROVE  ChunkInv'
<1>1. ChunkTypeOK /\ Shape(r)
  BY DEF ChunkInv, RowsInv, Shapes
<1>2. PICK i \in Idx : i = req[r].idx
  BY <1>1 DEF ChunkTypeOK
<1>3. /\ req[r].at = "record" /\ Answer(r, "error")
      /\ signals' = signals \cup {<<"recorded", i>>}
      /\ UNCHANGED <<rowText, rowHash, vec, chunkCount, lost, contended, faults>>
  BY <1>2 DEF RecordFailure
<1>4. Moves(r) /\ req'[r].at = "done" /\ req'[r].reply = "error"
  BY <1>1, <1>3, AnswerMoves DEF Replies
<1>5. Open(r) /\ Working(r) /\ ~Working(r)'
  BY <1>3, <1>4 DEF Open, Working
<1>6. Shape(r)'
  BY <1>1, <1>4, <1>5, NextShape
<1>7. "recorded" \in SignalKinds
  BY DEF SignalKinds
<1>8. SideType'
  BY <1>1, <1>3, <1>7 DEF SideType, ChunkTypeOK
<1>9. ~Clean(i)'
  BY <1>3, <1>7 DEF Clean
<1> QED
  BY <1>2, <1>3, <1>4, <1>5, <1>6, <1>8, <1>9, WorkWritesNoRow

-----------------------------------------------------------------------------

LEMMA ChunkInitInv == ChunkInit => ChunkInv
<1>1. SUFFICES ASSUME ChunkInit PROVE ChunkInv
  OBVIOUS
<1>2. 0 \in Idx /\ Original \in OptText /\ Original # None /\ None \in OptText
  BY ChunkAssumption DEF Idx, OptText, Texts
<1>3. Fresh \in RequestType /\ Fresh.at = "idle" /\ Fresh.reply = "none"
  BY <1>2 DEF Fresh, RequestType, Stages, Replies
<1>4. \A r \in Requests : req[r] = Fresh
  BY <1>1 DEF ChunkInit
<1>5. ChunkTypeOK
  <2>1. req \in [Requests -> RequestType]
    BY <1>1, <1>3 DEF ChunkInit
  <2>2. rowText \in [Idx -> OptText] /\ vec \in [Idx -> OptText]
    BY <1>1, <1>2 DEF ChunkInit
  <2>3. rowHash \in [Idx -> OptText]
    BY <1>1, <1>2 DEF ChunkInit
  <2>4. faults \in 0..MaxFaults
    BY <1>1, ChunkAssumption DEF ChunkInit
  <2> QED
    BY <1>1, <2>1, <2>2, <2>3, <2>4 DEF ChunkInit, ChunkTypeOK, RequestType
<1>6. Shapes
  BY <1>3, <1>4 DEF Shapes, Shape, Open
<1>7. HashesTrue
  BY <1>1, <1>2 DEF ChunkInit, HashesTrue
<1>8. CountExact
  <2>1. Rows = {0}
    BY <1>1, <1>2 DEF ChunkInit, Rows
  <2> QED
    BY <1>1, <2>1, FS_Singleton DEF ChunkInit, CountExact
<1>9. StoresInv
  <2>1. \A i \in Idx : OpenOn(i) = {}
    BY <1>3, <1>4 DEF OpenOn, Open
  <2> QED
    BY <1>1, <2>1 DEF StoresInv, Accounted, ChunkInit
<1> QED
  BY <1>5, <1>6, <1>7, <1>8, <1>9 DEF ChunkInv, RowsInv

LEMMA ChunkInductive == ChunkInv /\ [ChunkNext]_chunkVars => ChunkInv'
<1>1. SUFFICES ASSUME ChunkInv, [ChunkNext]_chunkVars PROVE ChunkInv'
  OBVIOUS
<1>2. CASE UNCHANGED chunkVars
  BY <1>1, <1>2 DEF chunkVars, ChunkInv, RowsInv, StoresInv, ChunkTypeOK, Shapes, Shape, Open,
     HashesTrue, CountExact, Rows, Clean, Accounted, OpenOn, Progress
<1>3. ASSUME NEW r \in Requests,
             \/ BeginCreate(r) \/ (\E i \in Idx, op \in {"update", "delete"} : BeginOnChunk(r, op, i))
             \/ (\E i \in Idx : BeginEdit(r, i)) \/ AppendRow(r) \/ UpdateRow(r) \/ EditRow(r)
             \/ RowFails(r) \/ Embed(r)
      PROVE  ChunkInv'
  BY <1>1, <1>3, BeginCreateKeeps, BeginOnChunkKeeps, BeginEditKeeps, AppendRowKeeps,
     UpdateRowKeeps, EditRowKeeps, RowFailsKeeps, EmbedKeeps
<1>4. ASSUME NEW r \in Requests,
             \/ EmbedRefused(r) \/ EmbedFails(r) \/ CreateTimesOut(r) \/ DeleteVector(r)
             \/ DeleteVectorFails(r) \/ SelectRow(r) \/ DeleteSelectedRow(r)
             \/ DeleteRowFails(r) \/ Restore(r) \/ RestoreFails(r) \/ RecordFailure(r)
             \/ RecordFails(r)
      PROVE  ChunkInv'
  BY <1>1, <1>4, EmbedErrorKeeps, CreateTimesOutKeeps, DeleteVectorKeeps,
     DeleteVectorFailsKeeps, SelectRowKeeps, DeleteSelectedRowKeeps, CompensationFailsKeeps,
     RestoreKeeps, RecordFailureKeeps
<1> QED
  BY <1>1, <1>2, <1>3, <1>4 DEF ChunkNext

(* chunk_count of the document row counts its chunk rows, and every        *)
(* variable keeps its type, whatever requests, failures and compensations  *)
(* interleave.                                                             *)
THEOREM CountFollowsRows == ChunkSpec => []ChunkCountExact
<1>1. ChunkInv => ChunkCountExact
  BY DEF ChunkInv, RowsInv, CountExact, ChunkCountExact
<1> QED
  BY <1>1, ChunkInitInv, ChunkInductive, PTL DEF ChunkSpec

(* When no request is open, a chunk that only one request at a time worked *)
(* on, and of which no failure was misreported or recorded, has the same   *)
(* text in PostgreSQL and in Weaviate.                                     *)
THEOREM DivergenceIsRecorded == ChunkSpec => []DivergenceOnRecord
<1>1. ChunkInv => DivergenceOnRecord
  <2>1. SUFFICES ASSUME StoresInv, \A r \in Requests : ~Open(r), NEW i \in Idx, Clean(i)
                 PROVE  rowText[i] = vec[i]
    BY DEF ChunkInv, DivergenceOnRecord, Clean
  <2>2. OpenOn(i) = {}
    BY <2>1 DEF OpenOn
  <2> QED
    BY <2>1, <2>2 DEF StoresInv, Accounted
<1> QED
  BY <1>1, ChunkInitInv, ChunkInductive, PTL DEF ChunkSpec

(* A step over the text of an acknowledged request: the hash tells a       *)
(* compensation that the text is not its own.                              *)
LEMMA StepOverText ==
    ASSUME ChunkInv, [ChunkNext]_chunkVars, NEW r \in Requests, NEW i \in Idx,
           req[r].reply = "ok", rowText[i] = r, rowText'[i] \notin {r, None}
    PROVE  \E s \in Requests : rowText'[i] = s /\ req'[s].at = "written"
<1>1. ChunkTypeOK /\ Shapes /\ HashesTrue
  BY DEF ChunkInv, RowsInv
<1>2. rowText' # rowText
  OBVIOUS
<1>3. PICK s \in Requests : AppendRow(s) \/ UpdateRow(s) \/ EditRow(s) \/ DeleteSelectedRow(s) \/ Restore(s)
  BY <1>2 DEF ChunkNext, chunkVars, BeginCreate, BeginOnChunk, BeginEdit, RowFails, Embed,
     EmbedRefused, EmbedFails, CreateTimesOut, DeleteVector, DeleteVectorFails, SelectRow,
     DeleteRowFails, RestoreFails, RecordFailure, RecordFails
<1>4. req[s].idx \in Idx /\ "written" \in Stages
  BY <1>1 DEF ChunkTypeOK, Stages
<1>5. CASE AppendRow(s)
  <2>1. PICK j \in Idx : j = NextIndex
    BY <1>1, <1>5, NextIndexFree DEF AppendRow
  <2>2. /\ rowText' = [rowText EXCEPT ![j] = s]
        /\ req' = [req EXCEPT ![s].at = "written", ![s].idx = j]
    BY <1>5, <2>1 DEF AppendRow
  <2>3. req'[s].at = "written"
    BY <1>1, <2>2 DEF ChunkTypeOK
  <2>4. rowText'[i] = s
    BY <1>1, <2>2 DEF ChunkTypeOK
  <2> QED
    BY <2>3, <2>4
<1>6. CASE UpdateRow(s) \/ EditRow(s)
  <2>1. rowText' = [rowText EXCEPT ![req[s].idx] = s] /\ Goto(s, "written")
    BY <1>2, <1>6 DEF UpdateRow, EditRow
  <2>2. req'[s].at = "written"
    BY <1>1, <1>4, <2>1, GotoMoves
  <2>3. rowText'[i] = s
    BY <1>1, <1>4, <2>1 DEF ChunkTypeOK
  <2> QED
    BY <2>2, <2>3
<1>7. CASE DeleteSelectedRow(s)
  <2>1. rowText' = [rowText EXCEPT ![req[s].idx] = None]
    BY <1>7 DEF DeleteSelectedRow
  <2> QED
    BY <1>1, <1>4, <2>1 DEF ChunkTypeOK
<1>8. CASE Restore(s)
  <2>1. /\ req[s].at = "restore" /\ HashUnchanged(req[s].idx, s)
        /\ rowText' = [rowText EXCEPT ![req[s].idx] = req[s].prior]
    BY <1>2, <1>8 DEF Restore
  <2>2. req[s].idx = i
    BY <1>1, <1>4, <2>1 DEF ChunkTypeOK
  <2>3. rowHash[i] = s
    BY <2>1, <2>2, RequestsAreTexts DEF HashUnchanged
  <2>4. s = r
    BY <1>1, <2>3, RequestsAreTexts DEF HashesTrue
  <2> QED
    BY <1>1, <2>1, <2>4 DEF Shapes, Shape
<1> QED
  BY <1>3, <1>5, <1>6, <1>7, <1>8

(* The text of a request that was acknowledged is replaced by the text of  *)
(* another request or deleted, and no compensation rolls it back.          *)
THEOREM AcknowledgedTextIsSafe == ChunkSpec => AcknowledgedTextStands
<1>1. ChunkInv /\ [ChunkNext]_chunkVars =>
        [\A r \in Requests : \A i \in Idx :
          /\ req[r].reply = "ok"
          /\ rowText[i] = r
          /\ rowText'[i] \notin {r, None}
          => \E s \in Requests : rowText'[i] = s /\ req'[s].at = "written"]_chunkVars
  BY StepOverText
<1> QED
  BY <1>1, ChunkInitInv, ChunkInductive, PTL DEF ChunkSpec, AcknowledgedTextStands

-----------------------------------------------------------------------------
(* Workspace purge. *)

(* The writers: what a run has passed, and what it can still write.        *)

BeforeGate == {"idle", "queued", "created"}

(* A run before the marker check has stored nothing; one that met the      *)
(* marker is on its way out, with nothing stored and nothing left behind.  *)
GateKept ==
    \A r \in Runs :
        /\ run[r] \in BeforeGate => rows[r] # "processed" /\ r \notin vectors \cup straggler
        /\ r \in tooLate => /\ run[r] \in {"failing", "ended"}
                            /\ rows[r] # "processed" /\ r \notin vectors \cup straggler

(* The marker stands as soon as the first activity has returned. *)
MarkerStands == purge.at \notin {"none", "mark", "failed", "completed"} => marker # "none"

(* No text is left and nothing that could bring any back: no key, no run   *)
(* past the gate, no attempt that outlives its run, no audit event on its  *)
(* way; and the gate is closed.                                            *)
Silent(retained) ==
    /\ marker # "none" /\ ~keysActive /\ vectors = {}
    /\ auditLogs = {} \/ retained
    /\ straggler = {} /\ auditStream = {} /\ auditRuns = {}
    /\ \A r \in Runs : rows[r] # "processed" /\ run[r] \notin {"checked", "storing"}

Conclusive(after, open) == Verified(after) /\ after["vectors"] # -1 /\ open = {}

Concluded == /\ receipt.written /\ receipt.verified
             /\ receipt.after["vectors"] # -1 /\ receipt.open = {}

(* A verdict with nothing unknown and nothing open was taken in silence,   *)
(* and the silence lasts.                                                  *)
VerdictsHold ==
    /\ purge.at = "receipt" /\ Conclusive(purge.after, purge.open) => Silent(purge.retain)
    /\ Concluded => Silent(receipt.retain)

(* A purge that was asked for when nothing wrote finds each store empty    *)
(* once it has passed the activity that empties it.                        *)
PastDocuments == {"side", "vectors", "audit", "revoke", "purged", "after"}
PastSide == PastDocuments \ {"side"}
PastVectors == PastSide \ {"vectors"}
PastAudit == PastVectors \ {"audit"}

Emptied ==
    /\ purge.at \in PastDocuments => ~metadata /\ \A r \in Runs : rows[r] = "none"
    /\ purge.at \in PastSide => ~sideRows
    /\ purge.at \in PastVectors => vectors = {}
    /\ purge.at \in PastAudit => auditLogs = {} \/ purge.retain

QuietPurge ==
    purge.quiet =>
        /\ purge.at \notin {"none", "failed", "completed"} => NothingWrites /\ Emptied
        /\ purge.at = "receipt" => Verified(purge.after)
        /\ purge.at = "completed" => receipt.verified

PurgeInv == PurgeTypeOK /\ GateKept /\ MarkerStands /\ VerdictsHold /\ QuietPurge

(* Dead letters.                                                           *)

LetterRow == [content : Nat, status : Unresolved \cup {"resolved", "abandoned"}]

LettersTyped ==
    /\ version \in 0 .. MaxVersions /\ healthy \in 0 .. version
    /\ openRun \in [content : 0 .. version, step : {"none", "running", "succeeded", "resolved"}]
    /\ (openRun.content = 0) <=> (openRun.step = "none")
    /\ letters \in Seq(LetterRow) /\ \A j \in 1 .. Len(letters) : letters[j].content <= version
    /\ retries \in [Operators -> [at : {"idle", "read", "marked", "rejected"}, row : Nat]]
    /\ \A o \in Operators : /\ retries[o].row <= Len(letters)
                            /\ retries[o].at # "idle" => retries[o].row > 0
    /\ waiter \in [content : Nat, reply : {"none", "waiting", "success", "superseded", "failure"}]
    /\ replayed \in BOOLEAN /\ raced \in BOOLEAN /\ missed \in BOOLEAN

(* A row that would put older content over the document. *)
Current(j) == letters[j].content = Poison \/ letters[j].content >= healthy

(* Unless a resolution was lost or overlapped with a retry, whatever can   *)
(* still be retried is at least as new as the document; a run that has     *)
(* just succeeded is about to resolve the rows.                            *)
RowsCurrent ==
    \/ raced \/ missed
    \/ /\ openRun.step = "running" => openRun.content >= healthy
       /\ \/ openRun.step = "succeeded"
          \/ /\ \A j \in 1 .. Len(letters) : letters[j].status \in Unresolved => Current(j)
             /\ \A o \in Operators : retries[o].at # "idle" => Current(retries[o].row)

(* A run replaces newer content only as a replay, and until it closes the  *)
(* document is what it ingested.                                           *)
RunsAdvance ==
    /\ openRun.step = "running" => openRun.content >= healthy \/ replayed
    /\ openRun.step \in {"succeeded", "resolved"} => healthy = openRun.content

RetriesInv == LettersTyped /\ RowsCurrent /\ RunsAdvance /\ ReplayNeedsRace /\ RepliesTruthful

-----------------------------------------------------------------------------
(* The order of the purge's activities.                                    *)

LEMMA StepsAre ==
    /\ DOMAIN Steps = 1 .. 11
    /\ Steps[1] = "mark" /\ Steps[2] = "before" /\ Steps[3] = "cancel" /\ Steps[4] = "documents"
    /\ Steps[5] = "side" /\ Steps[6] = "vectors" /\ Steps[7] = "audit" /\ Steps[8] = "revoke"
    /\ Steps[9] = "purged" /\ Steps[10] = "after" /\ Steps[11] = "receipt"
  BY DEF Steps

Activities == {"mark", "before", "cancel", "documents", "side", "vectors", "audit", "revoke",
               "purged", "after", "receipt"}

LEMMA StagesAre ==
    PurgeStages = Activities \cup {"none", "failed", "completed"}
<1>1. {Steps[i] : i \in DOMAIN Steps} = Activities
  <2>1. ASSUME NEW i \in 1 .. 11
        PROVE  Steps[i] \in Activities
    <3>1. \/ i = 1 \/ i = 2 \/ i = 3 \/ i = 4 \/ i = 5 \/ i = 6 \/ i = 7 \/ i = 8 \/ i = 9
          \/ i = 10 \/ i = 11
      OBVIOUS
    <3> QED
      BY <3>1, StepsAre DEF Activities
  <2>2. ASSUME NEW a \in Activities
        PROVE  \E i \in 1 .. 11 : Steps[i] = a
    BY StepsAre DEF Activities
  <2> QED
    BY <2>1, <2>2, StepsAre
<1> QED
  BY <1>1 DEF PurgeStages

LEMMA AfterIs ==
    /\ After("mark") = "before" /\ After("cancel") = "documents" /\ After("documents") = "side"
    /\ After("side") = "vectors" /\ After("vectors") = "audit" /\ After("audit") = "revoke"
    /\ After("revoke") = "purged" /\ After("purged") = "after" /\ After("receipt") = "completed"
<1>1. ASSUME NEW k \in 1 .. 10, NEW a, a = Steps[k]
      PROVE  After(a) = Steps[k + 1]
  <2>1. PICK i : i = CHOOSE j \in DOMAIN Steps : Steps[j] = a
    OBVIOUS
  <2>2. i \in 1 .. 11 /\ Steps[i] = a
    BY <1>1, <2>1, StepsAre
  <2>3. \/ i = 1 \/ i = 2 \/ i = 3 \/ i = 4 \/ i = 5 \/ i = 6 \/ i = 7 \/ i = 8 \/ i = 9
        \/ i = 10 \/ i = 11
    BY <2>2
  <2>4. \/ k = 1 \/ k = 2 \/ k = 3 \/ k = 4 \/ k = 5 \/ k = 6 \/ k = 7 \/ k = 8 \/ k = 9 \/ k = 10
    OBVIOUS
  <2>5. i = k
    BY <1>1, <2>2, <2>3, <2>4, StepsAre
  <2>6. a # "receipt"
    BY <1>1, <2>4, StepsAre
  <2>7. After(a) = Steps[1 + CHOOSE j \in DOMAIN Steps : Steps[j] = a]
    BY <2>6, Zenon DEF After
  <2>8. After(a) = Steps[1 + i]
    BY <2>1, <2>7, Zenon
  <2>9. 1 + i = k + 1
    BY <2>5
  <2> QED
    BY <2>8, <2>9, Zenon
<1>2. After("receipt") = "completed"
  BY DEF After
<1>3. /\ After("mark") = Steps[2] /\ After("cancel") = Steps[4] /\ After("documents") = Steps[5]
      /\ After("side") = Steps[6] /\ After("vectors") = Steps[7] /\ After("audit") = Steps[8]
      /\ After("revoke") = Steps[9] /\ After("purged") = Steps[10]
  BY <1>1, StepsAre
<1> QED
  BY <1>2, <1>3, StepsAre

PurgeRecord == [at : PurgeStages, tries : 0 .. (PurgeAttempts - 1), asked : 0 .. MaxPurges,
                retain : BOOLEAN, quiet : BOOLEAN, after : Counts,
                open : SUBSET (Runs \cup AuditEvents)]

LEMMA FaultCounted ==
    ASSUME PurgeTypeOK, PurgeFault \/ UNCHANGED purgeFaults
    PROVE  purgeFaults' \in 0 .. MaxPurgeFaults
  BY PurgeAssumption DEF PurgeTypeOK, PurgeFault

(* A failed attempt is repeated or ends the purge. *)
LEMMA RetriedIs ==
    ASSUME PurgeTypeOK, NEW q, q = Retried
    PROVE  /\ q \in PurgeRecord /\ q.at \in {purge.at, "failed"}
           /\ q.retain = purge.retain /\ q.quiet = purge.quiet /\ q.after = purge.after
           /\ q.open = purge.open
<1>1. PICK p \in PurgeRecord : p = purge
  BY DEF PurgeTypeOK, PurgeRecord
<1>2. PurgeAttempts \in Nat \ {0} /\ p.tries \in 0 .. (PurgeAttempts - 1)
  BY PurgeAssumption, <1>1 DEF PurgeRecord
<1>3. CASE p.tries + 1 < PurgeAttempts
  <2>1. p.tries + 1 \in 0 .. (PurgeAttempts - 1)
    BY <1>2, <1>3
  <2>2. q = [p EXCEPT !.tries = p.tries + 1]
    BY <1>1, <1>3 DEF Retried
  <2> QED
    BY <1>1, <2>1, <2>2 DEF PurgeRecord
<1>4. CASE ~(p.tries + 1 < PurgeAttempts)
  <2>1. q = [p EXCEPT !.at = "failed"]
    BY <1>1, <1>4 DEF Retried
  <2> QED
    BY <1>1, <2>1, StagesAre DEF PurgeRecord
<1> QED
  BY <1>3, <1>4

(* An activity has returned, or is repeated, or was the last one. *)
LEMMA ReturnIs ==
    ASSUME PurgeTypeOK, Return(purge), NEW a, a = After(purge.at), a \in PurgeStages
    PROVE  /\ purge' \in PurgeRecord /\ purge'.at \in {purge.at, "failed", a}
           /\ purge'.retain = purge.retain /\ purge'.quiet = purge.quiet
           /\ purge'.after = purge.after /\ purge'.open = purge.open
           /\ purgeFaults' \in 0 .. MaxPurgeFaults
<1>1. PICK p \in PurgeRecord : p = purge
  BY DEF PurgeTypeOK, PurgeRecord
<1>2. PICK q : q = purge'
  OBVIOUS
<1>3. CASE q = [p EXCEPT !.at = a, !.tries = 0] /\ UNCHANGED purgeFaults
  <2>1. 0 \in 0 .. (PurgeAttempts - 1)
    BY PurgeAssumption
  <2>2. /\ q \in PurgeRecord /\ q.at = a /\ q.retain = p.retain /\ q.quiet = p.quiet
        /\ q.after = p.after /\ q.open = p.open
    BY <1>3, <2>1 DEF PurgeRecord
  <2> QED
    BY <1>1, <1>2, <1>3, <2>2, FaultCounted
<1>4. CASE PurgeFault /\ purge' = Retried
  BY <1>4, RetriedIs, FaultCounted
<1> QED
  BY <1>1, <1>2, <1>3, <1>4 DEF Return

-----------------------------------------------------------------------------
(* The writers.                                                            *)

(* A step of a writer leaves the purge alone, keeps the gate and breaks no *)
(* silence; it needs something that writes.                                *)
LEMMA WriterKeeps ==
    ASSUME PurgeInv, UNCHANGED <<purge, receipt, marker>>, ~NothingWrites, PurgeTypeOK', GateKept',
           \A b \in BOOLEAN : Silent(b) => Silent(b)'
    PROVE  PurgeInv'
<1>1. MarkerStands'
  BY DEF PurgeInv, MarkerStands
<1>2. VerdictsHold'
  <2>1. PICK b \in BOOLEAN : b = purge.retain
    BY DEF PurgeInv, PurgeTypeOK
  <2>2. PICK d \in BOOLEAN : d = receipt.retain
    BY DEF PurgeInv, PurgeTypeOK
  <2>3. /\ purge.at = "receipt" /\ Conclusive(purge.after, purge.open) => Silent(b)
        /\ Concluded => Silent(d)
    BY <2>1, <2>2 DEF PurgeInv, VerdictsHold
  <2>4. /\ purge.at = "receipt" /\ Conclusive(purge.after, purge.open) => Silent(b)'
        /\ Concluded => Silent(d)'
    BY <2>3
  <2>5. b = purge.retain' /\ d = receipt.retain' /\ (Concluded' <=> Concluded)
    BY <2>1, <2>2 DEF Concluded
  <2>6. Silent(b)' => Silent(purge.retain)'
    BY <2>5 DEF Silent
  <2>7. Silent(d)' => Silent(receipt.retain)'
    BY <2>5 DEF Silent
  <2>8. Conclusive(purge.after, purge.open)' <=> Conclusive(purge.after, purge.open)
    BY DEF Conclusive, Verified
  <2> QED
    BY <2>4, <2>5, <2>6, <2>7, <2>8 DEF VerdictsHold
<1>3. QuietPurge'
  BY DEF PurgeInv, QuietPurge, Verified
<1> QED
  BY <1>1, <1>2, <1>3 DEF PurgeInv

LEMMA UploadKeeps ==
    ASSUME PurgeInv, NEW r \in Runs, Upload(r)
    PROVE  PurgeInv'
<1>1. PurgeTypeOK /\ GateKept
  BY DEF PurgeInv
<1>2. UNCHANGED <<purge, receipt, marker>> /\ ~NothingWrites
  BY DEF Upload, NothingWrites, writerVars
<1>3. PurgeTypeOK'
  BY <1>1 DEF PurgeTypeOK, Upload, RunStages, auditVars, writerVars
<1>4. GateKept'
  BY <1>1 DEF PurgeTypeOK, GateKept, BeforeGate, Upload, writerVars
<1>5. \A b \in BOOLEAN : Silent(b) => Silent(b)'
  BY <1>1 DEF PurgeTypeOK, Silent, Upload, auditVars, writerVars
<1> QED
  BY <1>2, <1>3, <1>4, <1>5, WriterKeeps

LEMMA TurnKeeps ==
    ASSUME PurgeInv, NEW r \in Runs, Turn(r)
    PROVE  PurgeInv'
<1>1. PurgeTypeOK /\ GateKept
  BY DEF PurgeInv
<1>2. UNCHANGED <<purge, receipt, marker>> /\ ~NothingWrites
  BY DEF Turn, NothingWrites, writerVars
<1>3. PurgeTypeOK'
  BY <1>1 DEF PurgeTypeOK, Turn, RunStages, auditVars, writerVars
<1>4. GateKept'
  BY <1>1 DEF PurgeTypeOK, GateKept, BeforeGate, Turn, writerVars
<1>5. \A b \in BOOLEAN : Silent(b) => Silent(b)'
  BY <1>1 DEF PurgeTypeOK, Silent, Turn, auditVars, writerVars
<1> QED
  BY <1>2, <1>3, <1>4, <1>5, WriterKeeps

LEMMA CreatePendingKeeps ==
    ASSUME PurgeInv, NEW r \in Runs, CreatePending(r)
    PROVE  PurgeInv'
<1>1. PurgeTypeOK /\ GateKept
  BY DEF PurgeInv
<1>2. UNCHANGED <<purge, receipt, marker>> /\ ~NothingWrites
  BY DEF CreatePending, NothingWrites, writerVars
<1>3. PurgeTypeOK'
  BY <1>1 DEF PurgeTypeOK, CreatePending, RunStages, auditVars, writerVars
<1>4. GateKept'
  BY <1>1 DEF PurgeTypeOK, GateKept, BeforeGate, CreatePending, writerVars
<1>5. \A b \in BOOLEAN : Silent(b) => Silent(b)'
  BY <1>1 DEF PurgeTypeOK, Silent, CreatePending, auditVars, writerVars
<1> QED
  BY <1>2, <1>3, <1>4, <1>5, WriterKeeps

LEMMA CheckMarkerKeeps ==
    ASSUME PurgeInv, NEW r \in Runs, CheckMarker(r)
    PROVE  PurgeInv'
<1>1. PurgeTypeOK /\ GateKept
  BY DEF PurgeInv
<1>2. UNCHANGED <<purge, receipt, marker>> /\ ~NothingWrites
  BY DEF CheckMarker, NothingWrites, writerVars
<1>3. PurgeTypeOK'
  BY <1>1 DEF PurgeTypeOK, CheckMarker, Refused, RunStages, auditVars, writerVars
<1>4. GateKept'
  BY <1>1 DEF PurgeTypeOK, GateKept, BeforeGate, CheckMarker, Refused, writerVars
<1>5. \A b \in BOOLEAN : Silent(b) => Silent(b)'
  BY <1>1 DEF PurgeTypeOK, Silent, CheckMarker, Refused, auditVars, writerVars
<1> QED
  BY <1>2, <1>3, <1>4, <1>5, WriterKeeps

LEMMA EnsureTenantKeeps ==
    ASSUME PurgeInv, NEW r \in Runs, EnsureTenant(r)
    PROVE  PurgeInv'
<1>1. PurgeTypeOK /\ GateKept
  BY DEF PurgeInv
<1>2. UNCHANGED <<purge, receipt, marker>> /\ ~NothingWrites
  BY DEF EnsureTenant, NothingWrites, writerVars
<1>3. PurgeTypeOK'
  BY <1>1 DEF PurgeTypeOK, EnsureTenant, RunStages, auditVars, writerVars
<1>4. GateKept'
  BY <1>1 DEF PurgeTypeOK, GateKept, BeforeGate, EnsureTenant, writerVars
<1>5. \A b \in BOOLEAN : Silent(b) => Silent(b)'
  BY <1>1 DEF PurgeTypeOK, Silent, EnsureTenant, auditVars, writerVars
<1> QED
  BY <1>2, <1>3, <1>4, <1>5, WriterKeeps

LEMMA EnsureTenantFailsKeeps ==
    ASSUME PurgeInv, NEW r \in Runs, EnsureTenantFails(r)
    PROVE  PurgeInv'
<1>1. PurgeTypeOK /\ GateKept
  BY DEF PurgeInv
<1>2. UNCHANGED <<purge, receipt, marker>> /\ ~NothingWrites
  BY DEF EnsureTenantFails, NothingWrites, writerVars
<1>3. PurgeTypeOK'
  <2>1. purgeFaults' \in 0 .. MaxPurgeFaults
    BY <1>1, FaultCounted DEF EnsureTenantFails
  <2> QED
    BY <1>1, <2>1 DEF PurgeTypeOK, EnsureTenantFails, RunStages, auditVars, writerVars
<1>4. GateKept'
  BY <1>1 DEF PurgeTypeOK, GateKept, BeforeGate, EnsureTenantFails, writerVars
<1>5. \A b \in BOOLEAN : Silent(b) => Silent(b)'
  BY <1>1 DEF PurgeTypeOK, Silent, EnsureTenantFails, auditVars, writerVars
<1> QED
  BY <1>2, <1>3, <1>4, <1>5, WriterKeeps

LEMMA StoreRunKeeps ==
    ASSUME PurgeInv, NEW r \in Runs, StoreRun(r)
    PROVE  PurgeInv'
<1>1. PurgeTypeOK /\ GateKept
  BY DEF PurgeInv
<1>2. UNCHANGED <<purge, receipt, marker>> /\ ~NothingWrites
  BY DEF StoreRun, NothingWrites, writerVars
<1>3. PurgeTypeOK'
  BY <1>1 DEF PurgeTypeOK, StoreRun, StorePostgres, StoreWeaviate, RunStages, auditVars, writerVars
<1>4. GateKept'
  BY <1>1 DEF PurgeTypeOK, GateKept, BeforeGate, StoreRun, StorePostgres, StoreWeaviate, writerVars
<1>5. \A b \in BOOLEAN : Silent(b) => Silent(b)'
  BY <1>1 DEF PurgeTypeOK, Silent, StoreRun, StorePostgres, StoreWeaviate, auditVars, writerVars
<1> QED
  BY <1>2, <1>3, <1>4, <1>5, WriterKeeps

LEMMA CompleteRunKeeps ==
    ASSUME PurgeInv, NEW r \in Runs, CompleteRun(r)
    PROVE  PurgeInv'
<1>1. PurgeTypeOK /\ GateKept
  BY DEF PurgeInv
<1>2. UNCHANGED <<purge, receipt, marker>> /\ ~NothingWrites
  BY DEF CompleteRun, NothingWrites, writerVars
<1>3. PurgeTypeOK'
  BY <1>1 DEF PurgeTypeOK, CompleteRun, RunStages, auditVars, writerVars
<1>4. GateKept'
  BY <1>1 DEF PurgeTypeOK, GateKept, BeforeGate, CompleteRun, writerVars
<1>5. \A b \in BOOLEAN : Silent(b) => Silent(b)'
  BY <1>1 DEF PurgeTypeOK, Silent, CompleteRun, auditVars, writerVars
<1> QED
  BY <1>2, <1>3, <1>4, <1>5, WriterKeeps

LEMMA CancelRunKeeps ==
    ASSUME PurgeInv, NEW r \in Runs, CancelRun(r)
    PROVE  PurgeInv'
<1>1. PurgeTypeOK /\ GateKept
  BY DEF PurgeInv
<1>2. UNCHANGED <<purge, receipt, marker>> /\ ~NothingWrites
  BY DEF CancelRun, NothingWrites, writerVars
<1>3. PurgeTypeOK'
  BY <1>1 DEF PurgeTypeOK, CancelRun, RunStages, auditVars, writerVars
<1>4. GateKept'
  BY <1>1 DEF PurgeTypeOK, GateKept, BeforeGate, CancelRun, writerVars
<1>5. \A b \in BOOLEAN : Silent(b) => Silent(b)'
  BY <1>1 DEF PurgeTypeOK, Silent, CancelRun, auditVars, writerVars
<1> QED
  BY <1>2, <1>3, <1>4, <1>5, WriterKeeps

LEMMA StragglerStoresKeeps ==
    ASSUME PurgeInv, NEW r \in Runs, StragglerStores(r)
    PROVE  PurgeInv'
<1>1. PurgeTypeOK /\ GateKept
  BY DEF PurgeInv
<1>2. UNCHANGED <<purge, receipt, marker>> /\ ~NothingWrites
  BY DEF StragglerStores, NothingWrites, writerVars
<1>3. PurgeTypeOK'
  BY <1>1 DEF PurgeTypeOK, StragglerStores, StorePostgres, StoreWeaviate, RunStages, auditVars, writerVars
<1>4. GateKept'
  BY <1>1 DEF PurgeTypeOK, GateKept, BeforeGate, StragglerStores, StorePostgres, StoreWeaviate, writerVars
<1>5. \A b \in BOOLEAN : Silent(b) => Silent(b)'
  BY <1>1 DEF PurgeTypeOK, Silent, StragglerStores, StorePostgres, StoreWeaviate, auditVars, writerVars
<1> QED
  BY <1>2, <1>3, <1>4, <1>5, WriterKeeps

LEMMA FailRunKeeps ==
    ASSUME PurgeInv, NEW r \in Runs, FailRun(r)
    PROVE  PurgeInv'
<1>1. PurgeTypeOK /\ GateKept
  BY DEF PurgeInv
<1>2. UNCHANGED <<purge, receipt, marker>> /\ ~NothingWrites
  BY DEF FailRun, NothingWrites, writerVars
<1>3. PurgeTypeOK'
  BY <1>1 DEF PurgeTypeOK, FailRun, RunStages, auditVars, writerVars
<1>4. GateKept'
  BY <1>1 DEF PurgeTypeOK, GateKept, BeforeGate, FailRun, writerVars
<1>5. \A b \in BOOLEAN : Silent(b) => Silent(b)'
  BY <1>1 DEF PurgeTypeOK, Silent, FailRun, auditVars, writerVars
<1> QED
  BY <1>2, <1>3, <1>4, <1>5, WriterKeeps

LEMMA SearchRequestKeeps ==
    ASSUME PurgeInv, NEW e \in AuditEvents, SearchRequest(e)
    PROVE  PurgeInv'
<1>1. PurgeTypeOK /\ GateKept
  BY DEF PurgeInv
<1>2. UNCHANGED <<purge, receipt, marker>> /\ ~NothingWrites
  BY DEF SearchRequest, NothingWrites, writerVars
<1>3. PurgeTypeOK'
  <2>1. purgeFaults' \in 0 .. MaxPurgeFaults
    BY <1>1, FaultCounted DEF SearchRequest
  <2> QED
    BY <1>1, <2>1 DEF PurgeTypeOK, SearchRequest, RunStages, auditVars, writerVars
<1>4. GateKept'
  BY <1>1 DEF PurgeTypeOK, GateKept, BeforeGate, SearchRequest, writerVars
<1>5. \A b \in BOOLEAN : Silent(b) => Silent(b)'
  BY <1>1 DEF PurgeTypeOK, Silent, SearchRequest, auditVars, writerVars
<1> QED
  BY <1>2, <1>3, <1>4, <1>5, WriterKeeps

LEMMA DispatchAuditKeeps ==
    ASSUME PurgeInv, NEW e \in AuditEvents, DispatchAudit(e)
    PROVE  PurgeInv'
<1>1. PurgeTypeOK /\ GateKept
  BY DEF PurgeInv
<1>2. UNCHANGED <<purge, receipt, marker>> /\ ~NothingWrites
  BY DEF DispatchAudit, NothingWrites, writerVars
<1>3. PurgeTypeOK'
  <2>1. purgeFaults' \in 0 .. MaxPurgeFaults
    BY <1>1, FaultCounted DEF DispatchAudit
  <2> QED
    BY <1>1, <2>1 DEF PurgeTypeOK, DispatchAudit, RunStages, auditVars, writerVars
<1>4. GateKept'
  BY <1>1 DEF PurgeTypeOK, GateKept, BeforeGate, DispatchAudit, writerVars
<1>5. \A b \in BOOLEAN : Silent(b) => Silent(b)'
  BY <1>1 DEF PurgeTypeOK, Silent, DispatchAudit, auditVars, writerVars
<1> QED
  BY <1>2, <1>3, <1>4, <1>5, WriterKeeps

LEMMA WriteAuditLogKeeps ==
    ASSUME PurgeInv, NEW e \in AuditEvents, WriteAuditLog(e)
    PROVE  PurgeInv'
<1>1. PurgeTypeOK /\ GateKept
  BY DEF PurgeInv
<1>2. UNCHANGED <<purge, receipt, marker>> /\ ~NothingWrites
  BY DEF WriteAuditLog, NothingWrites, writerVars
<1>3. PurgeTypeOK'
  <2>1. purgeFaults' \in 0 .. MaxPurgeFaults
    BY <1>1, FaultCounted DEF WriteAuditLog
  <2> QED
    BY <1>1, <2>1 DEF PurgeTypeOK, WriteAuditLog, RunStages, auditVars, writerVars
<1>4. GateKept'
  BY <1>1 DEF PurgeTypeOK, GateKept, BeforeGate, WriteAuditLog, writerVars
<1>5. \A b \in BOOLEAN : Silent(b) => Silent(b)'
  BY <1>1 DEF PurgeTypeOK, Silent, WriteAuditLog, auditVars, writerVars
<1> QED
  BY <1>2, <1>3, <1>4, <1>5, WriterKeeps

-----------------------------------------------------------------------------
(* The purge.                                                              *)

(* An activity takes away from the stores and starts no writer. *)
Shrinks ==
    /\ marker # "none" => marker' # "none"
    /\ \A r \in Runs : rows'[r] \in {rows[r], "none"}
    /\ vectors' \subseteq vectors /\ auditLogs' \subseteq auditLogs
    /\ keysActive' => keysActive
    /\ UNCHANGED <<auditStream, auditRuns, run, straggler, tooLate>>

LEMMA ShrinkFacts ==
    ASSUME PurgeTypeOK, GateKept, Shrinks
    PROVE  /\ GateKept' /\ (NothingWrites => NothingWrites')
           /\ \A b \in BOOLEAN : Silent(b) => Silent(b)'
<1>1. GateKept'
  BY DEF PurgeTypeOK, GateKept, Shrinks
<1>2. NothingWrites => NothingWrites'
  BY DEF NothingWrites, Shrinks
<1>3. \A b \in BOOLEAN : Silent(b) => Silent(b)'
  BY DEF Silent, Shrinks
<1> QED
  BY <1>1, <1>2, <1>3

(* An activity other than the two that judge: the purge stays where it is, *)
(* fails for good, or goes on to stage a, which is not the receipt's, with *)
(* the stores emptied that stage a asks for.                               *)
LEMMA ActivityKeeps ==
    ASSUME PurgeInv, Shrinks, PurgeTypeOK', UNCHANGED receipt,
           NEW a \in Activities \ {"mark", "receipt"}, purge.at \in Activities \ {"receipt"},
           purge'.at \in {purge.at, "failed", a}, purge'.retain = purge.retain,
           purge'.quiet => purge.quiet,
           purge.at = "mark" => marker' # "none",
           purge'.quiet /\ NothingWrites /\ Emptied /\ purge'.at \in {purge.at, a} => Emptied'
    PROVE  PurgeInv'
<1>1. /\ PurgeTypeOK /\ GateKept /\ MarkerStands /\ VerdictsHold /\ QuietPurge
  BY DEF PurgeInv
<1>2. MarkerStands'
  BY <1>1 DEF MarkerStands, Shrinks, Activities
<1>3. VerdictsHold'
  <2>1. purge'.at # "receipt"
    BY DEF Activities
  <2>2. PICK d \in BOOLEAN : d = receipt.retain
    BY <1>1 DEF PurgeTypeOK
  <2>3. Concluded => Silent(d)
    BY <1>1, <2>2 DEF VerdictsHold
  <2>4. Concluded => Silent(d)'
    BY <1>1, <2>3, ShrinkFacts
  <2>5. Silent(d)' => Silent(receipt.retain)'
    BY <2>2 DEF Silent
  <2>6. Concluded' <=> Concluded
    BY DEF Concluded
  <2> QED
    BY <2>1, <2>4, <2>5, <2>6 DEF VerdictsHold
<1>4. QuietPurge'
  <2> SUFFICES ASSUME purge'.quiet
               PROVE  /\ purge'.at \notin {"none", "failed", "completed"} => NothingWrites' /\ Emptied'
                      /\ purge'.at # "receipt" /\ purge'.at # "completed"
    BY DEF QuietPurge
  <2>1. purge'.at # "receipt" /\ purge'.at # "completed"
    BY DEF Activities
  <2>2. NothingWrites /\ Emptied
    BY <1>1 DEF QuietPurge, Activities
  <2>3. NothingWrites'
    BY <1>1, <2>2, ShrinkFacts
  <2> QED
    BY <2>1, <2>2, <2>3
<1> QED
  BY <1>1, <1>2, <1>3, <1>4, ShrinkFacts DEF PurgeInv

(* A failed attempt changes nothing but the purge itself. *)
LEMMA FailedAttemptKeeps ==
    ASSUME PurgeInv, purge.at \in Activities, PurgeFault, purge' = Retried, Shrinks,
           UNCHANGED <<marker, metadata, rows, sideRows, vectors, keysActive, auditVars, writerVars,
                       receipt>>
    PROVE  PurgeInv'
<1>1. /\ PurgeTypeOK /\ GateKept /\ MarkerStands /\ VerdictsHold /\ QuietPurge
  BY DEF PurgeInv
<1>2. PICK q \in PurgeRecord : q = purge'
  BY <1>1, RetriedIs
<1>3. /\ q.at \in {purge.at, "failed"} /\ q.retain = purge.retain /\ q.quiet = purge.quiet
      /\ q.after = purge.after /\ q.open = purge.open
  BY <1>1, <1>2, RetriedIs
<1>4. PurgeTypeOK'
  <2>1. purgeFaults' \in 0 .. MaxPurgeFaults
    BY <1>1, FaultCounted
  <2> QED
    BY <1>1, <1>2, <2>1 DEF PurgeTypeOK, PurgeRecord, auditVars, writerVars
<1>5. MarkerStands'
  BY <1>1, <1>2, <1>3 DEF MarkerStands, Activities
<1>6. VerdictsHold'
  <2>1. Silent(purge.retain) => Silent(purge.retain)'
    BY <1>2, <1>3 DEF Silent, auditVars, writerVars
  <2>2. Silent(receipt.retain) => Silent(receipt.retain)'
    BY DEF Silent, auditVars, writerVars
  <2>3. /\ Conclusive(purge.after, purge.open)' <=> Conclusive(purge.after, purge.open)
        /\ Concluded' <=> Concluded
    BY <1>2, <1>3 DEF Conclusive, Verified, Concluded
  <2> QED
    BY <1>1, <1>2, <1>3, <2>1, <2>2, <2>3 DEF VerdictsHold
<1>7. QuietPurge'
  <2>1. NothingWrites => NothingWrites'
    BY <1>1, ShrinkFacts
  <2>2. q.at = purge.at /\ Emptied => Emptied'
    BY <1>2, <1>3 DEF Emptied, auditVars
  <2> QED
    BY <1>1, <1>2, <1>3, <2>1, <2>2 DEF QuietPurge, Activities, Verified
<1> QED
  BY <1>1, <1>4, <1>5, <1>6, <1>7, ShrinkFacts DEF PurgeInv

LEMMA PurgeStepFailsKeeps ==
    ASSUME PurgeInv, PurgeStepFails
    PROVE  PurgeInv'
<1>1. purge.at \in Activities
  BY StagesAre DEF PurgeInv, PurgeTypeOK, PurgeStepFails
<1>2. Shrinks
  BY DEF PurgeStepFails, Shrinks, auditVars, writerVars
<1> QED
  BY <1>1, <1>2, FailedAttemptKeeps DEF PurgeStepFails

LEMMA CancelInflightKeeps ==
    ASSUME PurgeInv, CancelInflight
    PROVE  PurgeInv'
<1>1. PurgeTypeOK /\ purge.at = "cancel" /\ Return(purge) /\ UNCHANGED receipt
  BY DEF PurgeInv, CancelInflight
<1>2. /\ purge' \in PurgeRecord /\ purge'.at \in {"cancel", "failed", "documents"}
      /\ purge'.retain = purge.retain /\ purge'.quiet = purge.quiet
      /\ purgeFaults' \in 0 .. MaxPurgeFaults
  BY <1>1, AfterIs, StagesAre, ReturnIs DEF Activities
<1>3. Shrinks
  BY <1>1 DEF CancelInflight, Shrinks, PurgeTypeOK, auditVars, writerVars
<1>4. PurgeTypeOK'
  BY <1>1, <1>2 DEF PurgeTypeOK, PurgeRecord, CancelInflight, auditVars, writerVars
<1>5. Emptied /\ purge'.at \in {"cancel", "documents"} => Emptied'
  BY <1>1, <1>2 DEF Emptied, PastDocuments, PastSide, PastVectors, PastAudit, CancelInflight, auditVars
<1> QED
  BY <1>1, <1>2, <1>3, <1>4, <1>5, ActivityKeeps DEF Activities

LEMMA DeleteDocumentsKeeps ==
    ASSUME PurgeInv, DeleteDocuments
    PROVE  PurgeInv'
<1>1. PurgeTypeOK /\ purge.at = "documents" /\ Return(purge) /\ UNCHANGED receipt
  BY DEF PurgeInv, DeleteDocuments
<1>2. /\ purge' \in PurgeRecord /\ purge'.at \in {"documents", "failed", "side"}
      /\ purge'.retain = purge.retain /\ purge'.quiet = purge.quiet
      /\ purgeFaults' \in 0 .. MaxPurgeFaults
  BY <1>1, AfterIs, StagesAre, ReturnIs DEF Activities
<1>3. Shrinks
  BY <1>1 DEF DeleteDocuments, Shrinks, PurgeTypeOK, auditVars, writerVars
<1>4. PurgeTypeOK'
  BY <1>1, <1>2 DEF PurgeTypeOK, PurgeRecord, DeleteDocuments, auditVars, writerVars
<1>5. Emptied /\ purge'.at \in {"documents", "side"} => Emptied'
  BY <1>1, <1>2 DEF Emptied, PastDocuments, PastSide, PastVectors, PastAudit, DeleteDocuments, auditVars
<1> QED
  BY <1>1, <1>2, <1>3, <1>4, <1>5, ActivityKeeps DEF Activities

LEMMA DeleteSideTablesKeeps ==
    ASSUME PurgeInv, DeleteSideTables
    PROVE  PurgeInv'
<1>1. PurgeTypeOK /\ purge.at = "side" /\ Return(purge) /\ UNCHANGED receipt
  BY DEF PurgeInv, DeleteSideTables
<1>2. /\ purge' \in PurgeRecord /\ purge'.at \in {"side", "failed", "vectors"}
      /\ purge'.retain = purge.retain /\ purge'.quiet = purge.quiet
      /\ purgeFaults' \in 0 .. MaxPurgeFaults
  BY <1>1, AfterIs, StagesAre, ReturnIs DEF Activities
<1>3. Shrinks
  BY <1>1 DEF DeleteSideTables, Shrinks, PurgeTypeOK, auditVars, writerVars
<1>4. PurgeTypeOK'
  BY <1>1, <1>2 DEF PurgeTypeOK, PurgeRecord, DeleteSideTables, auditVars, writerVars
<1>5. Emptied /\ purge'.at \in {"side", "vectors"} => Emptied'
  BY <1>1, <1>2 DEF Emptied, PastDocuments, PastSide, PastVectors, PastAudit, DeleteSideTables, auditVars
<1> QED
  BY <1>1, <1>2, <1>3, <1>4, <1>5, ActivityKeeps DEF Activities

LEMMA DeleteAuditLogsKeeps ==
    ASSUME PurgeInv, DeleteAuditLogs
    PROVE  PurgeInv'
<1>1. PurgeTypeOK /\ purge.at = "audit" /\ Return(purge) /\ UNCHANGED receipt
  BY DEF PurgeInv, DeleteAuditLogs
<1>2. /\ purge' \in PurgeRecord /\ purge'.at \in {"audit", "failed", "revoke"}
      /\ purge'.retain = purge.retain /\ purge'.quiet = purge.quiet
      /\ purgeFaults' \in 0 .. MaxPurgeFaults
  BY <1>1, AfterIs, StagesAre, ReturnIs DEF Activities
<1>3. Shrinks
  BY <1>1 DEF DeleteAuditLogs, Shrinks, PurgeTypeOK, auditVars, writerVars
<1>4. PurgeTypeOK'
  BY <1>1, <1>2 DEF PurgeTypeOK, PurgeRecord, DeleteAuditLogs, auditVars, writerVars
<1>5. Emptied /\ purge'.at \in {"audit", "revoke"} => Emptied'
  BY <1>1, <1>2 DEF Emptied, PastDocuments, PastSide, PastVectors, PastAudit, DeleteAuditLogs, auditVars
<1> QED
  BY <1>1, <1>2, <1>3, <1>4, <1>5, ActivityKeeps DEF Activities

LEMMA RevokeKeysKeeps ==
    ASSUME PurgeInv, RevokeKeys
    PROVE  PurgeInv'
<1>1. PurgeTypeOK /\ purge.at = "revoke" /\ Return(purge) /\ UNCHANGED receipt
  BY DEF PurgeInv, RevokeKeys
<1>2. /\ purge' \in PurgeRecord /\ purge'.at \in {"revoke", "failed", "purged"}
      /\ purge'.retain = purge.retain /\ purge'.quiet = purge.quiet
      /\ purgeFaults' \in 0 .. MaxPurgeFaults
  BY <1>1, AfterIs, StagesAre, ReturnIs DEF Activities
<1>3. Shrinks
  BY <1>1 DEF RevokeKeys, Shrinks, PurgeTypeOK, auditVars, writerVars
<1>4. PurgeTypeOK'
  BY <1>1, <1>2 DEF PurgeTypeOK, PurgeRecord, RevokeKeys, auditVars, writerVars
<1>5. Emptied /\ purge'.at \in {"revoke", "purged"} => Emptied'
  BY <1>1, <1>2 DEF Emptied, PastDocuments, PastSide, PastVectors, PastAudit, RevokeKeys, auditVars
<1> QED
  BY <1>1, <1>2, <1>3, <1>4, <1>5, ActivityKeeps DEF Activities

LEMMA MarkKeeps ==
    ASSUME PurgeInv, Mark
    PROVE  PurgeInv'
<1>1. PurgeTypeOK /\ purge.at \in {"mark", "purged"} /\ Return(purge) /\ UNCHANGED receipt
  BY DEF PurgeInv, Mark
<1>2. PICK a \in {"before", "after"} : a = After(purge.at)
  BY <1>1, AfterIs
<1>3. /\ purge' \in PurgeRecord /\ purge'.at \in {purge.at, "failed", a}
      /\ purge'.retain = purge.retain /\ purge'.quiet = purge.quiet
      /\ purgeFaults' \in 0 .. MaxPurgeFaults
  <2>1. a \in PurgeStages
    BY StagesAre DEF Activities
  <2> QED
    BY <1>1, <1>2, <2>1, ReturnIs
<1>4. Shrinks /\ marker' # "none"
  BY <1>1 DEF Mark, Shrinks, PurgeTypeOK, auditVars, writerVars
<1>5. PurgeTypeOK'
  BY <1>1, <1>3 DEF PurgeTypeOK, PurgeRecord, Mark, auditVars, writerVars
<1>6. (purge.at = "mark" /\ a = "before") \/ (purge.at = "purged" /\ a = "after")
  BY <1>1, <1>2, AfterIs
<1>7. Emptied /\ purge'.at \in {purge.at, a} => Emptied'
  BY <1>1, <1>3, <1>6 DEF Emptied, PastDocuments, PastSide, PastVectors, PastAudit, Mark, auditVars
<1>8. a \in Activities \ {"mark", "receipt"} /\ purge.at \in Activities \ {"receipt"}
  BY <1>1 DEF Activities
<1> QED
  BY <1>1, <1>3, <1>4, <1>5, <1>7, <1>8, ActivityKeeps

LEMMA DeleteCollectionKeeps ==
    ASSUME PurgeInv, DeleteCollection
    PROVE  PurgeInv'
<1>1. PurgeTypeOK /\ purge.at = "vectors" /\ UNCHANGED receipt
  BY DEF PurgeInv, DeleteCollection
<1>2. After("vectors") = "audit" /\ "audit" \in PurgeStages
  BY AfterIs, StagesAre DEF Activities
<1>3. Shrinks
  BY <1>1 DEF DeleteCollection, Shrinks, PurgeTypeOK, auditVars, writerVars
<1>4. CASE vectors' = {} /\ Return(purge)
  <2>1. /\ purge' \in PurgeRecord /\ purge'.at \in {"vectors", "failed", "audit"}
        /\ purge'.retain = purge.retain /\ purge'.quiet = purge.quiet
        /\ purgeFaults' \in 0 .. MaxPurgeFaults
    BY <1>1, <1>2, <1>4, ReturnIs
  <2>2. PurgeTypeOK'
    BY <1>1, <1>4, <2>1 DEF PurgeTypeOK, PurgeRecord, DeleteCollection, auditVars, writerVars
  <2>3. Emptied /\ purge'.at \in {"vectors", "audit"} => Emptied'
    BY <1>1, <1>4, <2>1
    DEF Emptied, PastDocuments, PastSide, PastVectors, PastAudit, DeleteCollection, auditVars
  <2> QED
    BY <1>1, <1>3, <2>1, <2>2, <2>3, ActivityKeeps DEF Activities
<1>5. CASE /\ PurgeFault /\ UNCHANGED vectors
           /\ purge' = [purge EXCEPT !.at = After(purge.at), !.tries = 0, !.quiet = FALSE]
  <2>1. PICK p \in PurgeRecord : p = purge
    BY <1>1 DEF PurgeTypeOK, PurgeRecord
  <2>2. PICK q : q = purge'
    OBVIOUS
  <2>3. q = [p EXCEPT !.at = "audit", !.tries = 0, !.quiet = FALSE]
    BY <1>1, <1>2, <1>5, <2>1, <2>2
  <2>4. 0 \in 0 .. (PurgeAttempts - 1)
    BY PurgeAssumption
  <2>5. q \in PurgeRecord /\ q.at = "audit" /\ q.retain = p.retain /\ q.quiet = FALSE
    BY <1>2, <2>3, <2>4 DEF PurgeRecord
  <2>6. PurgeTypeOK'
    <3>1. purgeFaults' \in 0 .. MaxPurgeFaults
      BY <1>1, <1>5, FaultCounted
    <3> QED
      BY <1>1, <1>5, <2>2, <2>5, <3>1
      DEF PurgeTypeOK, PurgeRecord, DeleteCollection, auditVars, writerVars
  <2> QED
    BY <1>1, <1>3, <2>1, <2>2, <2>5, <2>6, ActivityKeeps DEF Activities
<1> QED
  BY <1>4, <1>5 DEF DeleteCollection

LEMMA BitIs ==
    ASSUME NEW b \in BOOLEAN
    PROVE  Bit(b) \in {0, 1} /\ (Bit(b) <= 0 <=> ~b)
<1>1. CASE b
  BY <1>1 DEF Bit
<1>2. CASE ~b
  BY <1>2 DEF Bit
<1> QED
  BY <1>1, <1>2

(* What the counts of the residue say. *)
LEMMA ResidueIs ==
    ASSUME NEW n \in {-1, 0, 1}
    PROVE  /\ Residue(n) \in Counts /\ Residue(n)["vectors"] = n
           /\ Verified(Residue(n)) <=>
                  /\ n <= 0 /\ ~metadata /\ ~sideRows /\ ~keysActive
                  /\ auditLogs = {} \/ purge.retain
                  /\ \A r \in Runs : rows[r] = "none"
<1>1. PICK f : f = Residue(n)
  OBVIOUS
<1>2. PICK m \in BOOLEAN : m <=> metadata
  OBVIOUS
<1>3. PICK d \in BOOLEAN : d <=> \E r \in Runs : rows[r] # "none"
  OBVIOUS
<1>4. PICK s \in BOOLEAN : s <=> sideRows
  OBVIOUS
<1>5. PICK a \in BOOLEAN : a <=> auditLogs # {} /\ ~purge.retain
  OBVIOUS
<1>6. PICK k \in BOOLEAN : k <=> keysActive
  OBVIOUS
<1>7. /\ f["metadata"] = Bit(m) /\ f["documents"] = Bit(d) /\ f["side"] = Bit(s)
      /\ f["vectors"] = n /\ f["audit"] = Bit(a) /\ f["keys"] = Bit(k)
  BY <1>1, <1>2, <1>3, <1>4, <1>5, <1>6 DEF Residue, Stores, Bit
<1>8. f = [x \in Stores |-> f[x]]
  <2> DEFINE e(x) == CASE x = "metadata" -> Bit(metadata)
                       [] x = "documents" -> Bit(\E r \in Runs : rows[r] # "none")
                       [] x = "side" -> Bit(sideRows)
                       [] x = "vectors" -> n
                       [] x = "audit" -> Bit(auditLogs # {} /\ ~purge.retain)
                       [] x = "keys" -> Bit(keysActive)
  <2>1. f = [x \in Stores |-> e(x)]
    BY <1>1, Zenon DEF Residue
  <2> HIDE DEF e
  <2> QED
    BY <2>1
<1>9. f \in Counts
  BY <1>7, <1>8, BitIs DEF Counts, Stores
<1>10. Verified(f) <=> n <= 0 /\ ~m /\ ~d /\ ~s /\ ~a /\ ~k
  BY <1>7, BitIs DEF Verified, Stores
<1> QED
  BY <1>1, <1>2, <1>3, <1>4, <1>5, <1>6, <1>7, <1>9, <1>10

LEMMA VerifyPurgeKeeps ==
    ASSUME PurgeInv, VerifyPurge
    PROVE  PurgeInv'
<1>1. /\ PurgeTypeOK /\ GateKept /\ MarkerStands /\ VerdictsHold /\ QuietPurge
  BY DEF PurgeInv
<1>2. /\ UNCHANGED <<marker, metadata, rows, sideRows, vectors, keysActive, receipt>>
      /\ UNCHANGED <<auditStream, auditRuns, auditLogs, run, straggler, cancelled, tooLate>>
  BY DEF VerifyPurge, auditVars, writerVars
<1>3. Shrinks
  BY <1>2 DEF Shrinks
<1>4. purgeFaults' \in 0 .. MaxPurgeFaults
  BY <1>1, FaultCounted DEF VerifyPurge
<1>5. PICK n \in {-1, 0, 1} :
          /\ n \in {Bit(vectors # {}), -1}
          /\ purge' = IF purge.at = "before"
                      THEN [purge EXCEPT !.at = "cancel", !.tries = 0]
                      ELSE [purge EXCEPT !.after = Residue(n), !.open = PastGate,
                                         !.at = "receipt", !.tries = 0]
  BY DEF VerifyPurge, Bit
<1>6. PICK p \in PurgeRecord : p = purge
  BY <1>1 DEF PurgeTypeOK, PurgeRecord
<1>7. PICK q : q = purge'
  OBVIOUS
<1>8. 0 \in 0 .. (PurgeAttempts - 1)
  BY PurgeAssumption
<1>9. CASE purge.at = "before"
  <2>1. q = [p EXCEPT !.at = "cancel", !.tries = 0]
    BY <1>5, <1>6, <1>7, <1>9
  <2>2. q \in PurgeRecord /\ q.at = "cancel" /\ q.retain = p.retain /\ q.quiet = p.quiet
    BY <1>8, <2>1, StagesAre DEF PurgeRecord, Activities
  <2>3. PurgeTypeOK'
    BY <1>1, <1>2, <1>4, <1>7, <2>2 DEF PurgeTypeOK, PurgeRecord
  <2>4. Emptied'
    BY <1>7, <2>2 DEF Emptied, PastDocuments, PastSide, PastVectors, PastAudit
  <2> QED
    BY <1>2, <1>3, <1>6, <1>7, <1>9, <2>2, <2>3, <2>4, ActivityKeeps DEF Activities
<1>10. CASE purge.at = "after"
  <2>1. PICK f \in Counts : f = Residue(n)
    BY ResidueIs
  <2>2. PICK g \in SUBSET (Runs \cup AuditEvents) : g = PastGate
    BY <1>1 DEF PurgeTypeOK, PastGate
  <2>3. q = [p EXCEPT !.after = f, !.open = g, !.at = "receipt", !.tries = 0]
    BY <1>5, <1>6, <1>7, <1>10, <2>1, <2>2
  <2>4. /\ q \in PurgeRecord /\ q.at = "receipt" /\ q.retain = p.retain /\ q.quiet = p.quiet
        /\ q.after = f /\ q.open = g
    BY <1>8, <2>3, StagesAre DEF PurgeRecord, Activities
  <2>5. PurgeTypeOK'
    BY <1>1, <1>2, <1>4, <1>7, <2>4 DEF PurgeTypeOK, PurgeRecord
  <2>6. marker # "none"
    BY <1>1, <1>10 DEF MarkerStands
  <2>7. Bit(vectors # {}) \in {0, 1} /\ (Bit(vectors # {}) <= 0 <=> vectors = {})
    BY BitIs
  <2>8. Conclusive(f, g) => Silent(p.retain)
    <3> SUFFICES ASSUME Conclusive(f, g)
                 PROVE  Silent(p.retain)
      OBVIOUS
    <3>1. Verified(f) /\ f["vectors"] # -1 /\ g = {}
      BY DEF Conclusive
    <3>2. n # -1 /\ n <= 0
      BY <2>1, <3>1, ResidueIs
    <3>3. vectors = {}
      BY <1>5, <2>7, <3>2
    <3>4. /\ ~keysActive /\ (auditLogs = {} \/ p.retain)
          /\ \A r \in Runs : rows[r] = "none"
      BY <1>6, <2>1, <3>1, ResidueIs
    <3>5. /\ straggler = {} /\ auditStream = {} /\ auditRuns = {}
          /\ \A r \in Runs : run[r] \notin {"checked", "storing"}
      BY <2>2, <3>1 DEF PastGate
    <3> QED
      BY <2>6, <3>3, <3>4, <3>5 DEF Silent
  <2>9. VerdictsHold'
    <3>1. Conclusive(purge.after, purge.open)' => Conclusive(f, g)
      BY <1>7, <2>4 DEF Conclusive, Verified
    <3>2. Silent(p.retain) => Silent(purge.retain)'
      BY <1>2, <1>7, <2>4 DEF Silent
    <3>3. Concluded => Silent(receipt.retain)
      BY <1>1 DEF VerdictsHold
    <3>4. Silent(receipt.retain) => Silent(receipt.retain)'
      BY <1>2 DEF Silent
    <3>5. Concluded' <=> Concluded
      BY <1>2 DEF Concluded
    <3> QED
      BY <2>8, <3>1, <3>2, <3>3, <3>4, <3>5 DEF VerdictsHold
  <2>10. QuietPurge'
    <3> SUFFICES ASSUME p.quiet
                 PROVE  NothingWrites' /\ Emptied' /\ Verified(f)
      BY <1>7, <2>4 DEF QuietPurge, Verified
    <3>1. NothingWrites /\ Emptied
      BY <1>1, <1>6, <1>10 DEF QuietPurge
    <3>2. /\ ~metadata /\ ~sideRows /\ ~keysActive /\ vectors = {}
          /\ auditLogs = {} \/ purge.retain
          /\ \A r \in Runs : rows[r] = "none"
      BY <1>10, <3>1 DEF NothingWrites, Emptied, PastDocuments, PastSide, PastVectors, PastAudit
    <3>3. n <= 0
      BY <1>5, <2>7, <3>2
    <3>4. Verified(f)
      BY <2>1, <3>2, <3>3, ResidueIs
    <3>5. Emptied'
      BY <1>7, <2>4 DEF Emptied, PastDocuments, PastSide, PastVectors, PastAudit
    <3> QED
      BY <1>1, <1>3, <3>1, <3>4, <3>5, ShrinkFacts
  <2>11. MarkerStands'
    BY <1>2, <2>6 DEF MarkerStands
  <2> QED
    BY <1>1, <1>3, <2>5, <2>9, <2>10, <2>11, ShrinkFacts DEF PurgeInv
<1> QED
  BY <1>9, <1>10 DEF VerifyPurge

LEMMA RecordReceiptKeeps ==
    ASSUME PurgeInv, RecordReceipt
    PROVE  PurgeInv'
<1>1. /\ PurgeTypeOK /\ GateKept /\ MarkerStands /\ VerdictsHold /\ QuietPurge
  BY DEF PurgeInv
<1>2. /\ UNCHANGED <<marker, metadata, rows, sideRows, vectors, keysActive>>
      /\ UNCHANGED <<auditStream, auditRuns, auditLogs, run, straggler, cancelled, tooLate>>
      /\ purge.at = "receipt" /\ Return(purge)
  BY DEF RecordReceipt, auditVars, writerVars
<1>3. Shrinks
  BY <1>2 DEF Shrinks
<1>4. After("receipt") = "completed" /\ "completed" \in PurgeStages
  BY AfterIs, StagesAre
<1>5. /\ purge' \in PurgeRecord /\ purge'.at \in {"receipt", "failed", "completed"}
      /\ purge'.retain = purge.retain /\ purge'.quiet = purge.quiet
      /\ purge'.after = purge.after /\ purge'.open = purge.open
      /\ purgeFaults' \in 0 .. MaxPurgeFaults
  BY <1>1, <1>2, <1>4, ReturnIs
<1>6. PICK p \in PurgeRecord : p = purge
  BY <1>1 DEF PurgeTypeOK, PurgeRecord
<1>7. PICK v \in BOOLEAN : v <=> Verified(p.after)
  OBVIOUS
<1>8. PICK z : z = receipt'
  OBVIOUS
<1>9. z = [written |-> TRUE, retain |-> p.retain, after |-> p.after, open |-> p.open, verified |-> v]
  <2>1. Verified(p.after) \in BOOLEAN
    BY DEF Verified
  <2>2. v = Verified(p.after)
    BY <1>7, <2>1
  <2> QED
    BY <1>6, <1>8, <2>2 DEF RecordReceipt
<1>10. PurgeTypeOK'
  BY <1>1, <1>2, <1>5, <1>6, <1>8, <1>9 DEF PurgeTypeOK, PurgeRecord
<1>11. MarkerStands'
  BY <1>1, <1>2, <1>5 DEF MarkerStands
<1>12. VerdictsHold'
  <2>1. Conclusive(p.after, p.open) => Silent(p.retain)
    BY <1>1, <1>2, <1>6 DEF VerdictsHold
  <2>2. Concluded' <=> v /\ p.after["vectors"] # -1 /\ p.open = {}
    BY <1>8, <1>9 DEF Concluded
  <2>3. Concluded' => Conclusive(p.after, p.open)
    BY <1>7, <2>2 DEF Conclusive
  <2>4. Conclusive(purge.after, purge.open)' => Conclusive(p.after, p.open)
    BY <1>5, <1>6 DEF Conclusive, Verified
  <2>5. Silent(p.retain) => Silent(receipt.retain)' /\ Silent(purge.retain)'
    BY <1>2, <1>5, <1>6, <1>8, <1>9 DEF Silent
  <2> QED
    BY <2>1, <2>3, <2>4, <2>5 DEF VerdictsHold
<1>13. QuietPurge'
  <2> SUFFICES ASSUME purge'.quiet
               PROVE  /\ NothingWrites' /\ Emptied'
                      /\ Verified(purge'.after) /\ receipt'.verified
    BY <1>5 DEF QuietPurge, Verified
  <2>1. NothingWrites /\ Verified(p.after)
    BY <1>1, <1>2, <1>5, <1>6 DEF QuietPurge
  <2>2. Emptied'
    BY <1>5 DEF Emptied, PastDocuments, PastSide, PastVectors, PastAudit
  <2>3. receipt'.verified
    BY <1>7, <1>8, <1>9, <2>1
  <2>4. purge'.after = p.after
    BY <1>5, <1>6
  <2> QED
    BY <1>1, <1>3, <2>1, <2>2, <2>3, <2>4, ShrinkFacts
<1> QED
  BY <1>1, <1>3, <1>10, <1>11, <1>12, <1>13, ShrinkFacts DEF PurgeInv

LEMMA RequestPurgeKeeps ==
    ASSUME PurgeInv, RequestPurge
    PROVE  PurgeInv'
<1>1. /\ PurgeTypeOK /\ GateKept /\ MarkerStands /\ VerdictsHold /\ QuietPurge
  BY DEF PurgeInv
<1>2. /\ UNCHANGED <<marker, metadata, rows, sideRows, vectors, keysActive, receipt, purgeFaults>>
      /\ UNCHANGED <<auditStream, auditRuns, auditLogs, run, straggler, cancelled, tooLate>>
  BY DEF RequestPurge, auditVars, writerVars
<1>3. Shrinks
  BY <1>2 DEF Shrinks
<1>4. PICK p \in PurgeRecord : p = purge
  BY <1>1 DEF PurgeTypeOK, PurgeRecord
<1>5. PICK z \in BOOLEAN : z <=> NothingWrites
  OBVIOUS
<1>6. PICK q : q = purge'
  OBVIOUS
<1>7. PICK b \in BOOLEAN :
          q = [at |-> "mark", tries |-> 0, asked |-> p.asked + 1, retain |-> b, quiet |-> z,
               after |-> Zero, open |-> {}]
  <2>1. NothingWrites \in BOOLEAN
    BY DEF NothingWrites
  <2>2. z = NothingWrites
    BY <1>5, <2>1
  <2> QED
    BY <1>4, <1>6, <2>2 DEF RequestPurge, NoPurge
<1>8. q \in PurgeRecord /\ q.at = "mark" /\ (q.quiet <=> z)
  <2>1. p.asked + 1 \in 0 .. MaxPurges
    BY <1>4, PurgeAssumption DEF RequestPurge, PurgeRecord
  <2>2. 0 \in 0 .. (PurgeAttempts - 1) /\ Zero \in Counts /\ "mark" \in PurgeStages
    BY PurgeAssumption, StagesAre DEF Zero, Counts, Activities
  <2> QED
    BY <1>7, <2>1, <2>2 DEF PurgeRecord
<1>9. PurgeTypeOK'
  BY <1>1, <1>2, <1>6, <1>8 DEF PurgeTypeOK, PurgeRecord
<1>10. MarkerStands'
  BY <1>6, <1>8 DEF MarkerStands
<1>11. VerdictsHold'
  <2>1. Silent(receipt.retain) => Silent(receipt.retain)'
    BY <1>2 DEF Silent
  <2>2. Concluded' <=> Concluded
    BY <1>2 DEF Concluded
  <2> QED
    BY <1>1, <1>6, <1>8, <2>1, <2>2 DEF VerdictsHold
<1>12. QuietPurge'
  <2>1. NothingWrites => NothingWrites'
    BY <1>1, <1>3, ShrinkFacts
  <2>2. Emptied'
    BY <1>6, <1>8 DEF Emptied, PastDocuments, PastSide, PastVectors, PastAudit
  <2> QED
    BY <1>5, <1>6, <1>8, <2>1, <2>2 DEF QuietPurge
<1> QED
  BY <1>1, <1>3, <1>9, <1>10, <1>11, <1>12, ShrinkFacts DEF PurgeInv

LEMMA InitPurgeInv ==
    ASSUME PurgeInit
    PROVE  PurgeInv
<1>1. PurgeTypeOK
  <2>1. 0 \in 0 .. (PurgeAttempts - 1) /\ 0 \in 0 .. MaxPurges /\ 0 \in 0 .. MaxPurgeFaults
    BY PurgeAssumption
  <2>2. Zero \in Counts /\ "none" \in PurgeStages
    BY StagesAre DEF Zero, Counts
  <2> QED
    BY <2>1, <2>2 DEF PurgeInit, PurgeTypeOK, NoPurge, NoReceipt, RunStages
<1>2. GateKept
  BY DEF PurgeInit, GateKept, BeforeGate
<1>3. MarkerStands /\ VerdictsHold /\ QuietPurge
  BY DEF PurgeInit, NoPurge, NoReceipt, MarkerStands, VerdictsHold, Concluded, QuietPurge
<1> QED
  BY <1>1, <1>2, <1>3 DEF PurgeInv

LEMMA StepPurgeInv ==
    ASSUME PurgeInv, [PurgeNext]_purgeVars
    PROVE  PurgeInv'
<1>1. CASE UNCHANGED purgeVars
  <2>1. PurgeTypeOK' /\ GateKept' /\ MarkerStands'
    BY <1>1 DEF PurgeInv, PurgeTypeOK, GateKept, MarkerStands, purgeVars, auditVars, writerVars
  <2>2. VerdictsHold'
    BY <1>1 DEF PurgeInv, VerdictsHold, Concluded, Conclusive, Verified, Silent, purgeVars,
                auditVars, writerVars
  <2>3. QuietPurge'
    BY <1>1 DEF PurgeInv, QuietPurge, NothingWrites, Emptied, Verified, purgeVars, auditVars,
                writerVars
  <2> QED
    BY <2>1, <2>2, <2>3 DEF PurgeInv
<1>2. CASE RunNext(Runs)
  BY <1>2, UploadKeeps, TurnKeeps, CreatePendingKeeps, CheckMarkerKeeps, EnsureTenantKeeps,
     EnsureTenantFailsKeeps, StoreRunKeeps, CompleteRunKeeps, CancelRunKeeps, StragglerStoresKeeps,
     FailRunKeeps
  DEF RunNext
<1>3. CASE AuditNext(AuditEvents)
  BY <1>3, SearchRequestKeeps, DispatchAuditKeeps, WriteAuditLogKeeps DEF AuditNext
<1>4. CASE WorkflowNext
  BY <1>4, RequestPurgeKeeps, PurgeStepFailsKeeps, MarkKeeps, VerifyPurgeKeeps, CancelInflightKeeps,
     DeleteDocumentsKeeps, DeleteSideTablesKeeps, DeleteCollectionKeeps, DeleteAuditLogsKeeps,
     RevokeKeysKeeps, RecordReceiptKeeps
  DEF WorkflowNext
<1> QED
  BY <1>1, <1>2, <1>3, <1>4 DEF PurgeNext

LEMMA PurgeInvSound ==
    ASSUME PurgeInv
    PROVE  PurgeSound
<1>1. RefusedStoresNothing
  BY DEF PurgeInv, PurgeTypeOK, GateKept, RefusedStoresNothing
<1>2. VerifiedStaysPurged
  BY DEF PurgeInv, VerdictsHold, Concluded, Silent, VerifiedStaysPurged
<1>3. RerunVerifies
  BY DEF PurgeInv, QuietPurge, RerunVerifies
<1> QED
  BY <1>1, <1>2, <1>3 DEF PurgeSound, PurgeInv

(* Whatever fails, repeats or is asked for again: a run that met the purge *)
(* marker stores no text; what a verified receipt with nothing unknown and *)
(* nothing open said was gone never comes back; and a purge asked for when *)
(* nothing writes ends verified.                                           *)
THEOREM PurgeKeepsItsWord ==
    PurgeSpec => []PurgeSound
  BY InitPurgeInv, StepPurgeInv, PurgeInvSound, PTL DEF PurgeSpec

-----------------------------------------------------------------------------
(* Dead letters: the rows.                                                 *)

LEMMA LetterFacts ==
    ASSUME LettersTyped
    PROVE  /\ version \in Nat /\ MaxVersions \in Nat /\ healthy \in Nat /\ healthy <= version
           /\ version <= MaxVersions
           /\ openRun.content \in Nat /\ openRun.content <= version
           /\ Len(letters) \in Nat /\ DOMAIN letters = 1 .. Len(letters)
           /\ letters \in [1 .. Len(letters) -> LetterRow]
           /\ \A j \in 1 .. Len(letters) : letters[j].content \in Nat /\ letters[j].content <= version
<1>1. version \in 0 .. MaxVersions /\ healthy \in 0 .. version /\ MaxVersions \in Nat
  BY DeadLettersAssumption DEF LettersTyped
<1>2. openRun.content \in 0 .. version
  BY DEF LettersTyped
<1>3. /\ Len(letters) \in Nat /\ DOMAIN letters = 1 .. Len(letters)
      /\ letters \in [1 .. Len(letters) -> LetterRow]
  BY LenProperties DEF LettersTyped
<1>4. \A j \in 1 .. Len(letters) : letters[j].content \in Nat /\ letters[j].content <= version
  BY <1>3 DEF LettersTyped, LetterRow
<1> QED
  BY <1>1, <1>2, <1>3, <1>4

LEMMA RowType ==
    ASSUME NEW x \in Nat
    PROVE  Row(x) \in LetterRow /\ Row(x).content = x /\ Row(x).status = "pending"
  BY DEF Row, LetterRow, Unresolved

(* A row is added at the end, or the insert is lost. *)
LEMMA RecordIs ==
    ASSUME LettersTyped, NEW x \in Nat, RecordDeadLetter(x)
    PROVE  /\ letters' \in Seq(LetterRow) /\ Len(letters') \in Nat /\ Len(letters) <= Len(letters')
           /\ \A j \in 1 .. Len(letters) : letters'[j] = letters[j]
           /\ \A j \in 1 .. Len(letters') : j \in 1 .. Len(letters) \/ letters'[j].content = x
<1>1. letters \in Seq(LetterRow) /\ Len(letters) \in Nat
  BY LetterFacts DEF LettersTyped
<1>2. CASE UNCHANGED letters
  BY <1>1, <1>2
<1>3. CASE letters' = Append(letters, Row(x))
  <2>1. PICK r \in LetterRow : r = Row(x) /\ r.content = x
    BY RowType
  <2>2. letters' = Append(letters, r)
    BY <1>3, <2>1
  <2>3. /\ letters' \in Seq(LetterRow) /\ Len(letters') = Len(letters) + 1
        /\ \A j \in 1 .. Len(letters) : letters'[j] = letters[j]
        /\ letters'[Len(letters) + 1] = r
    BY <1>1, <2>2
  <2> QED
    BY <1>1, <2>1, <2>3
<1> QED
  BY <1>2, <1>3 DEF RecordDeadLetter

(* The status of one row is set. *)
LEMMA StatusSet ==
    ASSUME LettersTyped, NEW i \in 1 .. Len(letters),
           NEW x \in {"pending", "retrying", "resolved", "abandoned"},
           letters' = [letters EXCEPT ![i].status = x]
    PROVE  /\ letters' \in Seq(LetterRow) /\ Len(letters') = Len(letters)
           /\ letters'[i].status = x
           /\ \A j \in 1 .. Len(letters) : /\ letters'[j].content = letters[j].content
                                           /\ j # i => letters'[j].status = letters[j].status
<1>1. letters \in Seq(LetterRow) /\ letters \in [1 .. Len(letters) -> LetterRow]
  BY LetterFacts DEF LettersTyped
<1>2. PICK r \in LetterRow : r = letters[i]
  BY <1>1
<1>3. PICK e : e = [r EXCEPT !.status = x]
  OBVIOUS
<1>4. e \in LetterRow /\ e.content = r.content /\ e.status = x
  BY <1>3 DEF LetterRow, Unresolved
<1>5. letters' = [letters EXCEPT ![i] = e]
  BY <1>2, <1>3
<1>6. /\ letters' \in Seq(LetterRow) /\ Len(letters') = Len(letters)
      /\ \A j \in 1 .. Len(letters) : letters'[j] = IF j = i THEN e ELSE letters[j]
  BY <1>1, <1>4, <1>5, ExceptSeq
<1> QED
  BY <1>2, <1>4, <1>6

(* No row is left unresolved. *)
LEMMA ResolvedIs ==
    ASSUME LettersTyped, letters' = Resolved(letters)
    PROVE  /\ letters' \in Seq(LetterRow) /\ Len(letters') = Len(letters)
           /\ \A j \in 1 .. Len(letters) : /\ letters'[j].content = letters[j].content
                                           /\ letters'[j].status \notin Unresolved
<1>1. /\ letters \in [1 .. Len(letters) -> LetterRow] /\ DOMAIN letters = 1 .. Len(letters)
      /\ Len(letters) \in Nat
  BY LetterFacts
<1>2. PICK n \in Nat : n = Len(letters)
  BY <1>1
<1>3. letters' = [j \in 1 .. n |-> IF letters[j].status \in Unresolved
                                   THEN [letters[j] EXCEPT !.status = "resolved"] ELSE letters[j]]
  BY <1>1, <1>2 DEF Resolved
<1>4. ASSUME NEW j \in 1 .. n
      PROVE  /\ letters'[j] \in LetterRow /\ letters'[j].content = letters[j].content
             /\ letters'[j].status \notin Unresolved
  <2>1. PICK r \in LetterRow : r = letters[j]
    BY <1>1, <1>2
  <2>2. letters'[j] = IF r.status \in Unresolved THEN [r EXCEPT !.status = "resolved"] ELSE r
    BY <1>3, <2>1
  <2> QED
    BY <2>1, <2>2 DEF LetterRow, Unresolved
<1>5. letters' \in [1 .. n -> LetterRow]
  BY <1>3, <1>4
<1>6. letters' \in Seq(LetterRow)
  BY <1>5, SeqDef
<1>7. Len(letters') = n
  BY <1>2, <1>5, <1>6, LenProperties
<1> QED
  BY <1>2, <1>4, <1>6, <1>7

-----------------------------------------------------------------------------
(* Dead letters: the retries.                                              *)

RetryRecord == [at : {"idle", "read", "marked", "rejected"}, row : Nat]

(* Row i may have any status now; rows that are new are poison. *)
RowsKept(i) ==
    /\ letters' \in Seq(LetterRow) /\ Len(letters') \in Nat /\ Len(letters) <= Len(letters')
    /\ \A j \in 1 .. Len(letters) :
          /\ letters'[j].content = letters[j].content
          /\ j # i => letters'[j].status = letters[j].status
    /\ \A j \in 1 .. Len(letters') : j \in 1 .. Len(letters) \/ letters'[j].content = Poison

(* A step of operator o's retry: it reads an unresolved row, goes on with  *)
(* the row it has read, or ends; it touches no row but its own.            *)
LEMMA RetryKeeps ==
    ASSUME RetriesInv, NEW o \in Operators, NEW t \in RetryRecord, NEW i, RowsKept(i),
           retries' = [retries EXCEPT ![o] = t],
           i = 0 \/ (i = retries[o].row /\ retries[o].at # "idle"),
           t.at # "idle" => \/ t.row = retries[o].row /\ retries[o].at # "idle"
                            \/ t.row \in 1 .. Len(letters) /\ letters[t.row].status \in Unresolved,
           t.row = 0 \/ t.row = retries[o].row \/ t.row \in 1 .. Len(letters),
           UNCHANGED <<version, openRun, healthy, waiter, replayed, raced, missed>>
    PROVE  RetriesInv'
<1>1. LettersTyped /\ RowsCurrent /\ RunsAdvance /\ ReplayNeedsRace /\ RepliesTruthful
  BY DEF RetriesInv
<1>2. /\ Len(letters) \in Nat /\ healthy \in Nat
      /\ \A j \in 1 .. Len(letters) : letters[j].content \in Nat /\ letters[j].content <= version
      /\ version \in Nat
  BY <1>1, LetterFacts
<1>3. /\ retries \in [Operators -> RetryRecord]
      /\ \A p \in Operators : /\ retries[p].row \in Nat /\ retries[p].row <= Len(letters)
                              /\ retries[p].at # "idle" => retries[p].row > 0
  BY <1>1 DEF LettersTyped, RetryRecord
<1>4. \A p \in Operators : retries'[p] = IF p = o THEN t ELSE retries[p]
  BY <1>3
<1>5. retries' \in [Operators -> RetryRecord]
  BY <1>3
<1>6. t.row \in Nat /\ t.row <= Len(letters) /\ (t.at # "idle" => t.row > 0)
  BY <1>2, <1>3 DEF RetryRecord
<1>7. LettersTyped'
  <2>1. ASSUME NEW p \in Operators
        PROVE  /\ retries'[p].row <= Len(letters')
               /\ retries'[p].at # "idle" => retries'[p].row > 0
    <3>1. retries'[p].row \in Nat /\ retries'[p].row <= Len(letters)
      BY <1>3, <1>4, <1>6
    <3>2. Len(letters) <= Len(letters') /\ Len(letters') \in Nat
      BY DEF RowsKept
    <3>3. retries'[p].at # "idle" => retries'[p].row > 0
      BY <1>3, <1>4, <1>6
    <3> QED
      BY <1>2, <3>1, <3>2, <3>3
  <2>2. ASSUME NEW j \in 1 .. Len(letters')
        PROVE  letters'[j].content <= version
    BY <1>2 DEF RowsKept, Poison
  <2>3. letters' \in Seq(LetterRow)
    BY DEF RowsKept
  <2> QED
    BY <1>1, <1>5, <2>1, <2>2, <2>3 DEF LettersTyped, RetryRecord
<1>8. RowsCurrent'
  <2>1. CASE raced \/ missed \/ openRun.step = "succeeded"
    BY <1>1, <2>1 DEF RowsCurrent
  <2>2. CASE ~(raced \/ missed \/ openRun.step = "succeeded")
    <3>1. /\ \A j \in 1 .. Len(letters) : letters[j].status \in Unresolved => Current(j)
          /\ \A p \in Operators : retries[p].at # "idle" => Current(retries[p].row)
          /\ openRun.step = "running" => openRun.content >= healthy
      BY <1>1, <2>2 DEF RowsCurrent
    <3>2. \A j \in 1 .. Len(letters) : Current(j) => Current(j)'
      BY DEF Current, RowsKept
    <3>3. ASSUME NEW j \in 1 .. Len(letters'), letters'[j].status \in Unresolved
          PROVE  Current(j)'
      <4>1. CASE j \notin 1 .. Len(letters)
        BY <4>1 DEF RowsKept, Current
      <4>2. CASE j \in 1 .. Len(letters) /\ j = i
        <5>1. Current(j)
          BY <1>2, <3>1, <4>2
        <5> QED
          BY <3>2, <4>2, <5>1
      <4>3. CASE j \in 1 .. Len(letters) /\ j # i
        <5>1. Current(j)
          BY <3>1, <3>3, <4>3 DEF RowsKept
        <5> QED
          BY <3>2, <4>3, <5>1
      <4> QED
        BY <4>1, <4>2, <4>3
    <3>4. ASSUME NEW p \in Operators, retries'[p].at # "idle"
          PROVE  Current(retries[p].row)'
      <4>1. PICK k : k = retries'[p].row
        OBVIOUS
      <4>2. k \in 1 .. Len(letters) /\ Current(k)
        BY <1>2, <1>3, <1>4, <1>6, <3>1, <3>4, <4>1
      <4>3. Current(k)'
        BY <3>2, <4>2
      <4> QED
        BY <4>1, <4>3 DEF Current
    <3> QED
      BY <3>1, <3>3, <3>4 DEF RowsCurrent, Unresolved
  <2> QED
    BY <2>1, <2>2
<1>9. RunsAdvance' /\ ReplayNeedsRace' /\ RepliesTruthful'
  BY <1>1 DEF RunsAdvance, ReplayNeedsRace, RepliesTruthful
<1> QED
  BY <1>7, <1>8, <1>9 DEF RetriesInv

LEMMA RowsUnchanged ==
    ASSUME LettersTyped, UNCHANGED letters
    PROVE  RowsKept(0)
  BY LetterFacts DEF LettersTyped, RowsKept

LEMMA PoisonRow ==
    ASSUME LettersTyped, RecordDeadLetter(Poison)
    PROVE  RowsKept(0)
<1>1. Poison \in Nat
  BY DEF Poison
<1> QED
  BY <1>1, RecordIs, LetterFacts DEF RowsKept

LEMMA RowSet ==
    ASSUME LettersTyped, NEW i \in 1 .. Len(letters),
           NEW x \in {"pending", "retrying", "resolved", "abandoned"},
           letters' = [letters EXCEPT ![i].status = x]
    PROVE  RowsKept(i)
<1>1. Len(letters) \in Nat
  BY LetterFacts
<1>2. PICK s : s = letters'
  OBVIOUS
<1>3. /\ s \in Seq(LetterRow) /\ Len(s) = Len(letters)
      /\ \A j \in 1 .. Len(letters) : /\ s[j].content = letters[j].content
                                      /\ j # i => s[j].status = letters[j].status
  BY <1>2, StatusSet
<1>4. /\ s \in Seq(LetterRow) /\ Len(s) \in Nat /\ Len(letters) <= Len(s)
      /\ \A j \in 1 .. Len(s) : j \in 1 .. Len(letters)
  BY <1>1, <1>3
<1> QED
  BY <1>2, <1>3, <1>4, Zenon DEF RowsKept

LEMMA RetryFacts ==
    ASSUME RetriesInv, NEW o \in Operators
    PROVE  /\ LettersTyped /\ retries \in [Operators -> RetryRecord]
           /\ retries[o].at # "idle" => retries[o].row \in 1 .. Len(letters)
           /\ NoRetry \in RetryRecord /\ NoRetry.at = "idle" /\ NoRetry.row = 0
<1>1. LettersTyped /\ Len(letters) \in Nat
  BY LetterFacts DEF RetriesInv
<1> QED
  BY <1>1 DEF LettersTyped, RetryRecord, NoRetry

LEMMA RetryReadsKeeps ==
    ASSUME RetriesInv, NEW o \in Operators, NEW j \in 1 .. Len(letters), RetryReads(o, j)
    PROVE  RetriesInv'
<1>1. PICK t : t = [at |-> "read", row |-> j]
  OBVIOUS
<1>2. t \in RetryRecord /\ t.at = "read" /\ t.row = j
  BY <1>1 DEF RetryRecord
<1>3. RowsKept(0)
  BY RetryFacts, RowsUnchanged DEF RetryReads
<1> QED
  BY <1>1, <1>2, <1>3, RetryKeeps DEF RetryReads

LEMMA RetryMarksKeeps ==
    ASSUME RetriesInv, NEW o \in Operators, RetryMarks(o)
    PROVE  RetriesInv'
<1>1. PICK r \in RetryRecord : r = retries[o]
  BY RetryFacts
<1>2. r.at = "read" /\ r.row \in 1 .. Len(letters)
  BY <1>1, RetryFacts DEF RetryMarks
<1>3. PICK t : t = [r EXCEPT !.at = "marked"]
  OBVIOUS
<1>4. t \in RetryRecord /\ t.at = "marked" /\ t.row = r.row
  BY <1>3 DEF RetryRecord
<1>5. retries' = [retries EXCEPT ![o] = t]
  BY <1>1, <1>3 DEF RetryMarks
<1>6. RowsKept(r.row)
  BY <1>1, <1>2, RetryFacts, RowSet DEF RetryMarks
<1> QED
  BY <1>1, <1>2, <1>4, <1>5, <1>6, RetryKeeps DEF RetryMarks

LEMMA RetryPoisonKeeps ==
    ASSUME RetriesInv, NEW o \in Operators, RetryPoison(o)
    PROVE  RetriesInv'
<1>1. RowsKept(0)
  BY RetryFacts, PoisonRow DEF RetryPoison
<1> QED
  BY <1>1, RetryFacts, RetryKeeps DEF RetryPoison

LEMMA RetryRejectedKeeps ==
    ASSUME RetriesInv, NEW o \in Operators, RetryRejected(o)
    PROVE  RetriesInv'
<1>1. PICK r \in RetryRecord : r = retries[o]
  BY RetryFacts
<1>2. r.at = "marked" /\ r.row \in 1 .. Len(letters)
  BY <1>1, RetryFacts DEF RetryRejected
<1>3. PICK t : t = [r EXCEPT !.at = "rejected"]
  OBVIOUS
<1>4. t \in RetryRecord /\ t.at = "rejected" /\ t.row = r.row
  BY <1>3 DEF RetryRecord
<1>5. retries' = [retries EXCEPT ![o] = t]
  BY <1>1, <1>3 DEF RetryRejected
<1>6. RowsKept(0)
  BY RetryFacts, RowsUnchanged DEF RetryRejected
<1> QED
  BY <1>1, <1>2, <1>4, <1>5, <1>6, RetryKeeps DEF RetryRejected

LEMMA RetryPutsBackKeeps ==
    ASSUME RetriesInv, NEW o \in Operators, RetryPutsBack(o)
    PROVE  RetriesInv'
<1>1. PICK i : i = retries[o].row
  OBVIOUS
<1>2. i \in 1 .. Len(letters) /\ retries[o].at # "idle"
  BY <1>1, RetryFacts DEF RetryPutsBack
<1>3. RowsKept(i)
  BY <1>1, <1>2, RetryFacts, RowSet DEF RetryPutsBack
<1> QED
  BY <1>1, <1>2, <1>3, RetryFacts, RetryKeeps DEF RetryPutsBack

LEMMA RetryDiesKeeps ==
    ASSUME RetriesInv, NEW o \in Operators, RetryDies(o)
    PROVE  RetriesInv'
<1>1. RowsKept(0)
  BY RetryFacts, RowsUnchanged DEF RetryDies
<1> QED
  BY <1>1, RetryFacts, RetryKeeps DEF RetryDies

-----------------------------------------------------------------------------
(* Dead letters: the runs.                                                 *)

WaiterRecord ==
    [content : Nat, reply : {"none", "waiting", "success", "superseded", "failure"}]

(* The waiter of the open run is told x; any other waiter is not. *)
LEMMA AnsweredIs ==
    ASSUME LettersTyped, NEW x \in {"success", "superseded", "failure"}, waiter' = Answered(x)
    PROVE  /\ waiter' \in WaiterRecord /\ waiter'.content = waiter.content
           /\ \/ waiter'.reply = waiter.reply
              \/ waiter'.reply = x /\ waiter.content = openRun.content
<1>1. PICK v \in WaiterRecord : v = waiter
  BY DEF LettersTyped, WaiterRecord
<1>2. CASE v.reply = "waiting" /\ v.content = openRun.content
  <2>1. waiter' = [v EXCEPT !.reply = x]
    BY <1>1, <1>2 DEF Answered
  <2> QED
    BY <1>1, <1>2, <2>1 DEF WaiterRecord
<1>3. CASE ~(v.reply = "waiting" /\ v.content = openRun.content)
  <2>1. waiter' = v
    BY <1>1, <1>3 DEF Answered
  <2> QED
    BY <1>1, <2>1
<1> QED
  BY <1>2, <1>3

(* When neither the rows nor the retries change, they stay typed. *)
LEMMA RowsTyped ==
    ASSUME LettersTyped, UNCHANGED <<letters, retries>>, version' \in Nat, version <= version'
    PROVE  /\ letters' \in Seq(LetterRow)
           /\ \A j \in 1 .. Len(letters') : letters'[j].content <= version'
           /\ retries' \in [Operators -> RetryRecord]
           /\ \A o \in Operators : /\ retries'[o].row <= Len(letters')
                                   /\ retries'[o].at # "idle" => retries'[o].row > 0
<1>1. \A j \in 1 .. Len(letters) : letters[j].content \in Nat /\ letters[j].content <= version
  BY LetterFacts
<1>2. version \in Nat
  BY LetterFacts
<1> QED
  BY <1>1, <1>2 DEF LettersTyped, RetryRecord

(* A new run of content n, newer than all others, for waiter v. *)
LEMMA NewestKeeps ==
    ASSUME RetriesInv, version < MaxVersions, version' = version + 1, openRun' = Started(version'),
           UNCHANGED <<healthy, letters, retries, replayed, raced>>,
           waiter' \in WaiterRecord,
           missed' = (missed \/ openRun.step = "succeeded"), RepliesTruthful'
    PROVE  RetriesInv'
<1>1. LettersTyped /\ RowsCurrent /\ RunsAdvance /\ ReplayNeedsRace
  BY DEF RetriesInv
<1>2. /\ version \in Nat /\ MaxVersions \in Nat /\ healthy \in Nat /\ healthy <= version
  BY <1>1, LetterFacts
<1>3. PICK n \in Nat : n = version'
  BY <1>2
<1>4. /\ n = version + 1 /\ n \in 0 .. MaxVersions /\ healthy <= n /\ n \in 0 .. n /\ n # 0
      /\ healthy \in 0 .. n
  BY <1>2, <1>3
<1>5. PICK u : u = openRun'
  OBVIOUS
<1>6. u = [content |-> n, step |-> "running"]
  BY <1>3, <1>5 DEF Started
<1>7. LettersTyped'
  <2>1. version <= version' /\ version' \in Nat
    BY <1>2, <1>3, <1>4
  <2>2. missed' \in BOOLEAN
    BY <1>1 DEF LettersTyped
  <2> QED
    BY <1>1, <1>3, <1>4, <1>5, <1>6, <2>1, <2>2, RowsTyped DEF LettersTyped, RetryRecord, WaiterRecord
<1>8. RowsCurrent'
  <2>1. (raced \/ missed)' \/ ~(raced \/ missed \/ openRun.step = "succeeded")
    OBVIOUS
  <2>2. CASE ~(raced \/ missed \/ openRun.step = "succeeded")
    <3>1. /\ \A j \in 1 .. Len(letters) : letters[j].status \in Unresolved => Current(j)
          /\ \A p \in Operators : retries[p].at # "idle" => Current(retries[p].row)
      BY <1>1, <2>2 DEF RowsCurrent
    <3>2. u.step = "running" /\ u.content >= healthy
      BY <1>2, <1>4, <1>6
    <3>3. UNCHANGED <<letters, retries, healthy>>
      OBVIOUS
    <3> QED
      BY <1>5, <3>1, <3>2, <3>3 DEF RowsCurrent, Current, Unresolved
  <2> QED
    BY <2>1, <2>2 DEF RowsCurrent
<1>9. RunsAdvance'
  BY <1>2, <1>4, <1>5, <1>6 DEF RunsAdvance
<1>10. ReplayNeedsRace'
  BY <1>1 DEF ReplayNeedsRace
<1> QED
  BY <1>7, <1>8, <1>9, <1>10 DEF RetriesInv

LEMMA UploadArrivesKeeps ==
    ASSUME RetriesInv, UploadArrives
    PROVE  RetriesInv'
<1>1. LettersTyped /\ RepliesTruthful
  BY DEF RetriesInv
<1>2. waiter' = Answered("superseded") /\ version' = version + 1 /\ UNCHANGED <<healthy, replayed>>
  BY DEF UploadArrives
<1>3. /\ waiter' \in WaiterRecord /\ waiter'.content = waiter.content
      /\ \/ waiter'.reply = waiter.reply
         \/ waiter'.reply = "superseded" /\ waiter.content = openRun.content
  BY <1>1, <1>2, AnsweredIs
<1>4. /\ version \in Nat /\ openRun.content \in Nat /\ openRun.content <= version
      /\ waiter.content \in Nat
  BY <1>1, LetterFacts DEF LettersTyped
<1>5. RepliesTruthful'
  BY <1>1, <1>2, <1>3, <1>4 DEF RepliesTruthful
<1> QED
  BY <1>3, <1>5, NewestKeeps DEF UploadArrives

LEMMA TriggerIngestionKeeps ==
    ASSUME RetriesInv, TriggerIngestion
    PROVE  RetriesInv'
<1>1. LettersTyped /\ RepliesTruthful
  BY DEF RetriesInv
<1>2. version \in Nat /\ waiter \in WaiterRecord
  BY <1>1, LetterFacts DEF LettersTyped, WaiterRecord
<1>3. version' = version + 1 /\ version' \in Nat /\ UNCHANGED <<healthy, replayed, missed>>
  BY <1>2 DEF TriggerIngestion
<1>4. openRun.step # "succeeded"
  BY <1>1 DEF LettersTyped, TriggerIngestion, RunOpen
<1>5. missed' = (missed \/ openRun.step = "succeeded")
  BY <1>1, <1>3, <1>4 DEF LettersTyped
<1>6. CASE UNCHANGED waiter
  <2>1. RepliesTruthful'
    BY <1>1, <1>2, <1>3, <1>6 DEF RepliesTruthful, WaiterRecord
  <2> QED
    BY <1>2, <1>5, <1>6, <2>1, NewestKeeps DEF TriggerIngestion
<1>7. CASE waiter' = [content |-> version', reply |-> "waiting"]
  <2>1. waiter' \in WaiterRecord /\ waiter'.reply = "waiting"
    BY <1>3, <1>7 DEF WaiterRecord
  <2>2. RepliesTruthful'
    BY <2>1 DEF RepliesTruthful
  <2> QED
    BY <1>5, <2>1, <2>2, NewestKeeps DEF TriggerIngestion
<1> QED
  BY <1>6, <1>7 DEF TriggerIngestion

LEMMA PoisonArrivesKeeps ==
    ASSUME RetriesInv, PoisonArrives
    PROVE  RetriesInv'
<1>1. LettersTyped /\ RowsCurrent /\ RunsAdvance /\ ReplayNeedsRace /\ RepliesTruthful
  BY DEF RetriesInv
<1>2. RowsKept(0) /\ UNCHANGED <<version, openRun, healthy, retries, waiter, replayed, raced, missed>>
  BY <1>1, PoisonRow DEF PoisonArrives
<1>3. /\ Len(letters) \in Nat /\ version \in Nat
      /\ \A j \in 1 .. Len(letters) : letters[j].content \in Nat /\ letters[j].content <= version
  BY <1>1, LetterFacts
<1>4. LettersTyped'
  <2>1. \A j \in 1 .. Len(letters') : letters'[j].content <= version
    BY <1>2, <1>3 DEF RowsKept, Poison
  <2>2. \A p \in Operators : retries[p].row \in Nat /\ retries[p].row <= Len(letters)
    BY <1>1 DEF LettersTyped
  <2>3. \A p \in Operators : retries[p].row <= Len(letters')
    BY <1>2, <1>3, <2>2 DEF RowsKept
  <2>4. letters' \in Seq(LetterRow)
    BY <1>2 DEF RowsKept
  <2> QED
    BY <1>1, <1>2, <2>1, <2>3, <2>4 DEF LettersTyped
<1>5. RowsCurrent'
  <2>1. CASE raced \/ missed \/ openRun.step = "succeeded"
    BY <1>1, <1>2, <2>1 DEF RowsCurrent
  <2>2. CASE ~(raced \/ missed \/ openRun.step = "succeeded")
    <3>1. /\ \A j \in 1 .. Len(letters) : letters[j].status \in Unresolved => Current(j)
          /\ \A p \in Operators : retries[p].at # "idle" => Current(retries[p].row)
          /\ openRun.step = "running" => openRun.content >= healthy
      BY <1>1, <2>2 DEF RowsCurrent
    <3>2. \A j \in 1 .. Len(letters) : Current(j) => Current(j)'
      BY <1>2 DEF Current, RowsKept
    <3>3. ASSUME NEW j \in 1 .. Len(letters'), letters'[j].status \in Unresolved
          PROVE  Current(j)'
      <4>1. CASE j \notin 1 .. Len(letters)
        BY <1>2, <4>1 DEF RowsKept, Current
      <4>2. CASE j \in 1 .. Len(letters)
        <5>1. j # 0
          BY <1>3, <4>2
        <5>2. Current(j)
          BY <1>2, <3>1, <3>3, <4>2, <5>1 DEF RowsKept
        <5> QED
          BY <3>2, <4>2, <5>2
      <4> QED
        BY <4>1, <4>2
    <3>4. ASSUME NEW p \in Operators, retries[p].at # "idle"
          PROVE  Current(retries[p].row)'
      <4>1. PICK k : k = retries[p].row
        OBVIOUS
      <4>2. k \in 1 .. Len(letters) /\ Current(k)
        BY <3>1, <3>4, <4>1, RetryFacts
      <4>3. Current(k)'
        BY <3>2, <4>2
      <4> QED
        BY <1>2, <4>1, <4>3 DEF Current
    <3> QED
      BY <1>2, <3>1, <3>3, <3>4 DEF RowsCurrent, Unresolved
  <2> QED
    BY <2>1, <2>2
<1>6. RunsAdvance' /\ ReplayNeedsRace' /\ RepliesTruthful'
  BY <1>1, <1>2 DEF RunsAdvance, ReplayNeedsRace, RepliesTruthful
<1> QED
  BY <1>4, <1>5, <1>6 DEF RetriesInv

LEMMA RunSucceedsKeeps ==
    ASSUME RetriesInv, RunSucceeds
    PROVE  RetriesInv'
<1>1. LettersTyped /\ RowsCurrent /\ RunsAdvance /\ ReplayNeedsRace /\ RepliesTruthful
  BY DEF RetriesInv
<1>2. /\ openRun.step = "running" /\ healthy' = openRun.content
      /\ UNCHANGED <<version, letters, retries, waiter, replayed, raced, missed>>
  BY DEF RunSucceeds
<1>3. PICK u \in [content : 0 .. version, step : {"none", "running", "succeeded", "resolved"}] :
          u = openRun
  BY <1>1 DEF LettersTyped
<1>4. PICK v : v = openRun'
  OBVIOUS
<1>5. v = [u EXCEPT !.step = "succeeded"]
  BY <1>3, <1>4 DEF RunSucceeds
<1>6. /\ v \in [content : 0 .. version, step : {"none", "running", "succeeded", "resolved"}]
      /\ v.content = u.content /\ v.step = "succeeded"
  BY <1>5
<1>7. version \in Nat /\ version <= version
  BY <1>1, LetterFacts
<1>8. LettersTyped'
  <2>1. v.content # 0 /\ healthy' \in 0 .. version
    BY <1>1, <1>2, <1>3, <1>6 DEF LettersTyped
  <2> QED
    BY <1>1, <1>2, <1>4, <1>6, <1>7, <2>1, RowsTyped DEF LettersTyped, RetryRecord
<1>9. RowsCurrent' /\ RunsAdvance'
  BY <1>2, <1>3, <1>4, <1>6 DEF RowsCurrent, RunsAdvance
<1>10. ReplayNeedsRace'
  BY <1>1, <1>2 DEF ReplayNeedsRace
<1>11. RepliesTruthful'
  <2>1. healthy \in Nat /\ u.content \in Nat /\ waiter.content \in Nat
    BY <1>1, <1>3, LetterFacts DEF LettersTyped
  <2>2. u.content >= healthy \/ replayed
    BY <1>1, <1>2, <1>3 DEF RunsAdvance
  <2> QED
    BY <1>1, <1>2, <1>3, <2>1, <2>2 DEF RepliesTruthful
<1> QED
  BY <1>8, <1>9, <1>10, <1>11 DEF RetriesInv

(* The rows have been dealt with: those of a run that succeeded are        *)
(* resolved, unless that is on record as missed.                           *)
LEMMA DealtWith ==
    ASSUME RetriesInv, openRun.step = "succeeded", openRun' = [openRun EXCEPT !.step = "resolved"],
           UNCHANGED <<version, healthy, retries, waiter, replayed>>,
           letters' \in Seq(LetterRow), Len(letters') = Len(letters),
           \A j \in 1 .. Len(letters) : letters'[j].content = letters[j].content,
           raced' \in BOOLEAN, missed' \in BOOLEAN, raced => raced', missed => missed',
           raced' \/ missed' \/ ( /\ \A j \in 1 .. Len(letters) : letters'[j].status \notin Unresolved
                                  /\ ~RetryUnderWay)
    PROVE  RetriesInv'
<1>1. LettersTyped /\ RowsCurrent /\ RunsAdvance /\ ReplayNeedsRace /\ RepliesTruthful
  BY DEF RetriesInv
<1>2. PICK u \in [content : 0 .. version, step : {"none", "running", "succeeded", "resolved"}] :
          u = openRun
  BY <1>1 DEF LettersTyped
<1>3. PICK v : v = openRun'
  OBVIOUS
<1>4. v = [u EXCEPT !.step = "resolved"]
  BY <1>2, <1>3
<1>5. /\ v \in [content : 0 .. version, step : {"none", "running", "succeeded", "resolved"}]
      /\ v.content = u.content /\ v.step = "resolved"
  BY <1>4
<1>6. LettersTyped'
  <2>1. v.content # 0
    BY <1>1, <1>2, <1>5 DEF LettersTyped
  <2>2. \A j \in 1 .. Len(letters') : letters'[j].content <= version
    BY <1>1, LetterFacts
  <2> QED
    BY <1>1, <1>3, <1>5, <2>1, <2>2 DEF LettersTyped
<1>7. RowsCurrent'
  <2>1. CASE raced' \/ missed'
    BY <2>1 DEF RowsCurrent
  <2>2. CASE /\ \A j \in 1 .. Len(letters) : letters'[j].status \notin Unresolved
             /\ ~RetryUnderWay
    <3>1. \A j \in 1 .. Len(letters') : letters'[j].status \notin Unresolved
      BY <2>2
    <3>2. \A o \in Operators : retries'[o].at = "idle"
      BY <2>2 DEF RetryUnderWay
    <3> QED
      BY <1>3, <1>5, <3>1, <3>2 DEF RowsCurrent, Unresolved
  <2> QED
    BY <2>1, <2>2
<1>8. RunsAdvance'
  BY <1>1, <1>2, <1>3, <1>5 DEF RunsAdvance
<1>9. ReplayNeedsRace' /\ RepliesTruthful'
  BY <1>1 DEF ReplayNeedsRace, RepliesTruthful
<1> QED
  BY <1>6, <1>7, <1>8, <1>9 DEF RetriesInv

LEMMA RunResolvesKeeps ==
    ASSUME RetriesInv, RunResolves
    PROVE  RetriesInv'
<1>1. LettersTyped /\ letters' = Resolved(letters)
  BY DEF RetriesInv, RunResolves
<1>2. /\ letters' \in Seq(LetterRow) /\ Len(letters') = Len(letters)
      /\ \A j \in 1 .. Len(letters) : /\ letters'[j].content = letters[j].content
                                      /\ letters'[j].status \notin Unresolved
  BY <1>1, ResolvedIs
<1>3. /\ raced' \in BOOLEAN /\ missed' \in BOOLEAN /\ (raced => raced') /\ (missed => missed')
      /\ raced' \/ ~RetryUnderWay
  BY <1>1 DEF LettersTyped, RunResolves, RetryUnderWay
<1> QED
  BY <1>2, <1>3, DealtWith DEF RunResolves

LEMMA ResolutionLostKeeps ==
    ASSUME RetriesInv, ResolutionLost
    PROVE  RetriesInv'
<1>1. LettersTyped /\ UNCHANGED letters
  BY DEF RetriesInv, ResolutionLost
<1>2. /\ letters' \in Seq(LetterRow) /\ Len(letters') = Len(letters)
      /\ \A j \in 1 .. Len(letters) : letters'[j].content = letters[j].content
  BY <1>1 DEF LettersTyped
<1>3. raced' \in BOOLEAN /\ missed' \in BOOLEAN /\ (raced => raced') /\ missed'
  BY <1>1 DEF LettersTyped, ResolutionLost
<1> QED
  BY <1>2, <1>3, DealtWith DEF ResolutionLost

LEMMA RunClosesKeeps ==
    ASSUME RetriesInv, RunCloses
    PROVE  RetriesInv'
<1>1. LettersTyped /\ RowsCurrent /\ RunsAdvance /\ ReplayNeedsRace /\ RepliesTruthful
  BY DEF RetriesInv
<1>2. /\ openRun.step = "resolved" /\ openRun' = NoOpenRun /\ waiter' = Answered("success")
      /\ UNCHANGED <<version, healthy, letters, retries, replayed, raced, missed>>
  BY DEF RunCloses
<1>3. /\ waiter' \in WaiterRecord /\ waiter'.content = waiter.content
      /\ \/ waiter'.reply = waiter.reply
         \/ waiter'.reply = "success" /\ waiter.content = openRun.content
  BY <1>1, <1>2, AnsweredIs
<1>4. openRun'.content = 0 /\ openRun'.step = "none" /\ version \in Nat /\ healthy \in Nat
  BY <1>1, <1>2, LetterFacts DEF NoOpenRun
<1>5. LettersTyped'
  <2>1. version' \in Nat /\ version <= version' /\ 0 \in 0 .. version
    BY <1>2, <1>4
  <2>2. openRun' \in [content : 0 .. version, step : {"none", "running", "succeeded", "resolved"}]
    BY <1>2, <2>1 DEF NoOpenRun
  <2> QED
    BY <1>1, <1>2, <1>3, <1>4, <2>1, <2>2, RowsTyped DEF LettersTyped, RetryRecord, WaiterRecord
<1>6. RowsCurrent'
  BY <1>1, <1>2, <1>4 DEF RowsCurrent, Current, Unresolved
<1>7. RunsAdvance' /\ ReplayNeedsRace'
  BY <1>1, <1>2, <1>4 DEF RunsAdvance, ReplayNeedsRace
<1>8. RepliesTruthful'
  <2>1. healthy = openRun.content
    BY <1>1, <1>2 DEF RunsAdvance
  <2> QED
    BY <1>1, <1>2, <1>3, <1>4, <2>1 DEF RepliesTruthful
<1> QED
  BY <1>5, <1>6, <1>7, <1>8 DEF RetriesInv

LEMMA RunFailsKeeps ==
    ASSUME RetriesInv, RunFails
    PROVE  RetriesInv'
<1>1. LettersTyped /\ RowsCurrent /\ RunsAdvance /\ ReplayNeedsRace /\ RepliesTruthful
  BY DEF RetriesInv
<1>2. /\ openRun.step = "running" /\ openRun' = NoOpenRun /\ waiter' = Answered("failure")
      /\ RecordDeadLetter(openRun.content)
      /\ UNCHANGED <<version, healthy, retries, replayed, raced, missed>>
  BY DEF RunFails
<1>3. PICK x \in Nat : x = openRun.content /\ x <= version
  BY <1>1, LetterFacts
<1>4. /\ letters' \in Seq(LetterRow) /\ Len(letters') \in Nat /\ Len(letters) <= Len(letters')
      /\ \A j \in 1 .. Len(letters) : letters'[j] = letters[j]
      /\ \A j \in 1 .. Len(letters') : j \in 1 .. Len(letters) \/ letters'[j].content = x
  BY <1>1, <1>2, <1>3, RecordIs
<1>5. /\ waiter' \in WaiterRecord /\ waiter'.content = waiter.content
      /\ waiter'.reply = waiter.reply \/ waiter'.reply = "failure"
  BY <1>1, <1>2, AnsweredIs
<1>6. /\ openRun'.content = 0 /\ openRun'.step = "none" /\ version \in Nat /\ healthy \in Nat
      /\ Len(letters) \in Nat
      /\ \A j \in 1 .. Len(letters) : letters[j].content <= version
  BY <1>1, <1>2, LetterFacts DEF NoOpenRun
<1>7. LettersTyped'
  <2>1. 0 \in 0 .. version
    BY <1>6
  <2>2. openRun' \in [content : 0 .. version, step : {"none", "running", "succeeded", "resolved"}]
    BY <1>2, <2>1 DEF NoOpenRun
  <2>3. \A j \in 1 .. Len(letters') : letters'[j].content <= version
    BY <1>3, <1>4, <1>6
  <2>4. \A p \in Operators : retries[p].row \in Nat /\ retries[p].row <= Len(letters)
    BY <1>1 DEF LettersTyped
  <2>5. \A p \in Operators : retries[p].row <= Len(letters')
    BY <1>4, <1>6, <2>4
  <2> QED
    BY <1>1, <1>2, <1>4, <1>5, <1>6, <2>2, <2>3, <2>5 DEF LettersTyped, WaiterRecord
<1>8. RowsCurrent'
  <2>1. CASE raced \/ missed
    BY <1>2, <2>1 DEF RowsCurrent
  <2>2. CASE ~(raced \/ missed)
    <3>1. /\ \A j \in 1 .. Len(letters) : letters[j].status \in Unresolved => Current(j)
          /\ \A p \in Operators : retries[p].at # "idle" => Current(retries[p].row)
          /\ x >= healthy
      BY <1>1, <1>2, <1>3, <2>2 DEF RowsCurrent
    <3>2. \A j \in 1 .. Len(letters) : Current(j) => Current(j)'
      BY <1>2, <1>4 DEF Current
    <3>3. ASSUME NEW j \in 1 .. Len(letters'), letters'[j].status \in Unresolved
          PROVE  Current(j)'
      <4>1. CASE j \notin 1 .. Len(letters)
        BY <1>2, <1>4, <3>1, <4>1 DEF Current
      <4>2. CASE j \in 1 .. Len(letters)
        BY <1>4, <3>1, <3>2, <3>3, <4>2
      <4> QED
        BY <4>1, <4>2
    <3>4. ASSUME NEW p \in Operators, retries[p].at # "idle"
          PROVE  Current(retries[p].row)'
      <4>1. PICK k : k = retries[p].row
        OBVIOUS
      <4>2. k \in 1 .. Len(letters) /\ Current(k)
        BY <3>1, <3>4, <4>1, RetryFacts
      <4>3. Current(k)'
        BY <3>2, <4>2
      <4> QED
        BY <1>2, <4>1, <4>3 DEF Current
    <3> QED
      BY <1>2, <1>6, <3>3, <3>4 DEF RowsCurrent, Unresolved
  <2> QED
    BY <2>1, <2>2
<1>9. RunsAdvance' /\ ReplayNeedsRace' /\ RepliesTruthful'
  BY <1>1, <1>2, <1>5, <1>6 DEF RunsAdvance, ReplayNeedsRace, RepliesTruthful
<1> QED
  BY <1>7, <1>8, <1>9 DEF RetriesInv

LEMMA RetryStartsKeeps ==
    ASSUME RetriesInv, NEW o \in Operators, RetryStarts(o)
    PROVE  RetriesInv'
<1>1. LettersTyped /\ RowsCurrent /\ RunsAdvance /\ ReplayNeedsRace /\ RepliesTruthful
  BY DEF RetriesInv
<1>2. PICK i : i = retries[o].row
  OBVIOUS
<1>3. /\ i \in 1 .. Len(letters) /\ retries[o].at = "marked"
      /\ NoRetry \in RetryRecord /\ NoRetry.at = "idle" /\ NoRetry.row = 0
  BY <1>2, RetryFacts DEF RetryStarts
<1>4. PICK x \in Nat : x = letters[i].content /\ x <= version
  BY <1>1, <1>3, LetterFacts
<1>5. /\ x # Poison /\ openRun.content = 0 /\ openRun' = Started(x)
      /\ replayed' = (replayed \/ x < healthy) /\ retries' = [retries EXCEPT ![o] = NoRetry]
      /\ UNCHANGED <<version, healthy, letters, waiter, raced, missed>>
  BY <1>2, <1>4 DEF RetryStarts, RunOpen
<1>6. version \in Nat /\ healthy \in Nat /\ Len(letters) \in Nat
  BY <1>1, LetterFacts
<1>7. PICK v : v = openRun'
  OBVIOUS
<1>8. /\ v \in [content : 0 .. version, step : {"none", "running", "succeeded", "resolved"}]
      /\ v.content = x /\ v.step = "running"
  BY <1>4, <1>5, <1>6, <1>7 DEF Started
<1>9. /\ retries \in [Operators -> RetryRecord]
      /\ \A p \in Operators : retries'[p] = IF p = o THEN NoRetry ELSE retries[p]
  BY <1>1, <1>5 DEF LettersTyped, RetryRecord
<1>10. LettersTyped'
  <2>1. retries' \in [Operators -> RetryRecord]
    BY <1>3, <1>5, <1>9
  <2>2. \A p \in Operators : /\ retries'[p].row <= Len(letters)
                             /\ retries'[p].at # "idle" => retries'[p].row > 0
    BY <1>1, <1>3, <1>6, <1>9 DEF LettersTyped
  <2>3. v.content # 0 /\ replayed' \in BOOLEAN
    BY <1>1, <1>5, <1>8 DEF Poison, LettersTyped
  <2> QED
    BY <1>1, <1>5, <1>7, <1>8, <2>1, <2>2, <2>3 DEF LettersTyped, RetryRecord
<1>11. openRun.step = "none"
  BY <1>1, <1>5 DEF LettersTyped
<1>12. raced \/ missed \/ x >= healthy
  <2>1. raced \/ missed \/ Current(i)
    BY <1>1, <1>2, <1>3, <1>11 DEF RowsCurrent
  <2> QED
    BY <1>4, <1>5, <2>1 DEF Current
<1>13. RowsCurrent'
  <2>1. CASE raced \/ missed
    BY <1>5, <2>1 DEF RowsCurrent
  <2>2. CASE ~(raced \/ missed)
    <3>1. /\ \A j \in 1 .. Len(letters) : letters[j].status \in Unresolved => Current(j)
          /\ \A p \in Operators : retries[p].at # "idle" => Current(retries[p].row)
      BY <1>1, <1>11, <2>2 DEF RowsCurrent
    <3>2. \A p \in Operators : retries'[p].at # "idle" => Current(retries'[p].row)
      BY <1>3, <1>9, <3>1
    <3>3. v.step = "running" /\ v.content >= healthy
      BY <1>8, <1>12, <2>2
    <3> QED
      BY <1>5, <1>7, <3>1, <3>2, <3>3 DEF RowsCurrent, Current, Unresolved
  <2> QED
    BY <2>1, <2>2
<1>14. RunsAdvance'
  <2>1. x >= healthy \/ x < healthy
    BY <1>6
  <2>2. x < healthy => replayed'
    BY <1>5, Zenon
  <2>3. x >= healthy \/ replayed'
    BY <2>1, <2>2, Zenon
  <2> QED
    BY <1>5, <1>7, <1>8, <2>3 DEF RunsAdvance
<1>15. ReplayNeedsRace'
  <2>1. x >= healthy => ~(x < healthy)
    BY <1>6
  <2>2. replayed' => replayed \/ raced \/ missed
    BY <1>5, <1>12, <2>1, Zenon
  <2>3. replayed => raced \/ missed
    BY <1>1, Zenon DEF ReplayNeedsRace
  <2> QED
    BY <1>5, <2>2, <2>3, Zenon DEF ReplayNeedsRace
<1>16. RepliesTruthful'
  BY <1>1, <1>5 DEF RepliesTruthful
<1> QED
  BY <1>10, <1>13, <1>14, <1>15, <1>16 DEF RetriesInv

LEMMA AbandonKeeps ==
    ASSUME RetriesInv, NEW i \in 1 .. Len(letters), Abandon(i)
    PROVE  RetriesInv'
<1>1. LettersTyped /\ RowsCurrent /\ RunsAdvance /\ ReplayNeedsRace /\ RepliesTruthful
  BY DEF RetriesInv
<1>2. UNCHANGED <<version, openRun, healthy, retries, waiter, replayed, raced, missed>>
  BY DEF Abandon
<1>3. PICK s : s = letters'
  OBVIOUS
<1>4. /\ s \in Seq(LetterRow) /\ Len(s) = Len(letters) /\ s[i].status = "abandoned"
      /\ \A j \in 1 .. Len(letters) : /\ s[j].content = letters[j].content
                                      /\ j # i => s[j].status = letters[j].status
  BY <1>1, <1>3, StatusSet DEF Abandon
<1>5. LettersTyped'
  BY <1>1, <1>2, <1>3, <1>4 DEF LettersTyped
<1>6. RowsCurrent'
  <2>1. CASE raced \/ missed \/ openRun.step = "succeeded"
    BY <1>1, <1>2, <2>1 DEF RowsCurrent
  <2>2. CASE ~(raced \/ missed \/ openRun.step = "succeeded")
    <3>1. /\ \A j \in 1 .. Len(letters) : letters[j].status \in Unresolved => Current(j)
          /\ \A p \in Operators : retries[p].at # "idle" => Current(retries[p].row)
          /\ openRun.step = "running" => openRun.content >= healthy
      BY <1>1, <2>2 DEF RowsCurrent
    <3>2. \A j \in 1 .. Len(letters) : Current(j) => Current(j)'
      BY <1>2, <1>3, <1>4 DEF Current
    <3>3. \A j \in 1 .. Len(s) : s[j].status \in Unresolved => Current(j)'
      BY <1>4, <3>1, <3>2 DEF Unresolved
    <3>4. ASSUME NEW p \in Operators, retries[p].at # "idle"
          PROVE  Current(retries[p].row)'
      <4>1. PICK k : k = retries[p].row
        OBVIOUS
      <4>2. k \in 1 .. Len(letters) /\ Current(k)
        BY <3>1, <3>4, <4>1, RetryFacts
      <4>3. Current(k)'
        BY <3>2, <4>2
      <4> QED
        BY <1>2, <4>1, <4>3 DEF Current
    <3> QED
      BY <1>2, <1>3, <3>1, <3>3, <3>4 DEF RowsCurrent, Unresolved
  <2> QED
    BY <2>1, <2>2
<1>7. RunsAdvance' /\ ReplayNeedsRace' /\ RepliesTruthful'
  BY <1>1, <1>2 DEF RunsAdvance, ReplayNeedsRace, RepliesTruthful
<1> QED
  BY <1>5, <1>6, <1>7 DEF RetriesInv

LEMMA InitRetriesInv ==
    ASSUME LettersInit
    PROVE  RetriesInv
<1>1. /\ version = 0 /\ openRun = NoOpenRun /\ healthy = 0 /\ letters = <<>>
      /\ retries = [o \in Operators |-> NoRetry] /\ waiter = NoWaiter
      /\ replayed = FALSE /\ raced = FALSE /\ missed = FALSE
  BY DEF LettersInit
<1>2. letters \in Seq(LetterRow) /\ Len(letters) = 0
  BY <1>1, EmptySeq
<1>3. 0 \in 0 .. MaxVersions /\ 0 \in 0 .. 0
  BY DeadLettersAssumption
<1>4. LettersTyped
  <2>1. /\ openRun \in [content : 0 .. version, step : {"none", "running", "succeeded", "resolved"}]
        /\ openRun.content = 0 /\ openRun.step = "none"
    BY <1>1, <1>3 DEF NoOpenRun
  <2>2. /\ retries \in [Operators -> [at : {"idle", "read", "marked", "rejected"}, row : Nat]]
        /\ \A o \in Operators : retries[o].row = 0 /\ retries[o].at = "idle"
    BY <1>1 DEF NoRetry
  <2>3. waiter \in [content : Nat, reply : {"none", "waiting", "success", "superseded", "failure"}]
    BY <1>1 DEF NoWaiter
  <2>4. version \in 0 .. MaxVersions /\ healthy \in 0 .. version
    BY <1>1, <1>3
  <2>5. \A j \in 1 .. Len(letters) : letters[j].content <= version
    <3>1. 1 .. Len(letters) = {}
      BY <1>2
    <3> QED
      BY <3>1
  <2>6. replayed \in BOOLEAN /\ raced \in BOOLEAN /\ missed \in BOOLEAN
    BY <1>1
  <2> QED
    BY <1>2, <2>1, <2>2, <2>3, <2>4, <2>5, <2>6 DEF LettersTyped
<1>5. RowsCurrent /\ RunsAdvance /\ ReplayNeedsRace /\ RepliesTruthful
  BY <1>1, <1>2
  DEF RowsCurrent, RunsAdvance, ReplayNeedsRace, RepliesTruthful, NoOpenRun, NoRetry, NoWaiter
<1> QED
  BY <1>4, <1>5 DEF RetriesInv

LEMMA StepRetriesInv ==
    ASSUME RetriesInv, [LettersNext]_letterVars
    PROVE  RetriesInv'
<1>1. CASE UNCHANGED letterVars
  BY <1>1
  DEF RetriesInv, LettersTyped, RowsCurrent, Current, RunsAdvance, ReplayNeedsRace, RepliesTruthful,
      Unresolved, letterVars
<1>2. ASSUME NEW j \in DOMAIN letters, Abandon(j) \/ \E o \in Operators : RetryReads(o, j)
      PROVE  RetriesInv'
  <2>1. j \in 1 .. Len(letters)
    BY LetterFacts DEF RetriesInv
  <2> QED
    BY <1>2, <2>1, AbandonKeeps, RetryReadsKeeps
<1>3. ASSUME NEW o \in Operators,
             \/ RetryMarks(o) \/ RetryStarts(o) \/ RetryPoison(o)
             \/ RetryRejected(o) \/ RetryPutsBack(o) \/ RetryDies(o)
      PROVE  RetriesInv'
  BY <1>3, RetryMarksKeeps, RetryStartsKeeps, RetryPoisonKeeps, RetryRejectedKeeps,
     RetryPutsBackKeeps, RetryDiesKeeps
<1> QED
  BY <1>1, <1>2, <1>3, UploadArrivesKeeps, PoisonArrivesKeeps, TriggerIngestionKeeps,
     RunSucceedsKeeps, RunResolvesKeeps, ResolutionLostKeeps, RunClosesKeeps, RunFailsKeeps
  DEF LettersNext

LEMMA RetriesInvSound ==
    ASSUME RetriesInv
    PROVE  RetriesSound
<1>1. LettersTyped /\ ReplayNeedsRace /\ RepliesTruthful
  BY DEF RetriesInv
<1>2. /\ letters \in [1 .. Len(letters) -> LetterRow] /\ DOMAIN letters = 1 .. Len(letters)
      /\ Len(letters) \in Nat /\ version \in Nat
      /\ \A j \in 1 .. Len(letters) : letters[j].content \in Nat /\ letters[j].content <= version
  BY <1>1, LetterFacts
<1>3. ASSUME NEW j \in DOMAIN letters
      PROVE  /\ letters[j].content \in 0 .. version
             /\ letters[j].status \in Unresolved \cup {"resolved", "abandoned"}
  BY <1>2 DEF LetterRow
<1>4. \A o \in Operators : retries[o].row \in 0 .. Len(letters)
  BY <1>1, <1>2 DEF LettersTyped
<1>5. LettersTypeOK
  BY <1>1, <1>3, <1>4 DEF LettersTyped, LettersTypeOK
<1> QED
  BY <1>1, <1>5 DEF RetriesSound

(* Retried dead letters put older content over a repaired document only    *)
(* when the rows were resolved during a retry or a run that succeeded did  *)
(* not resolve them, and a waiting caller is told what became of its run.  *)
THEOREM RetriesAreSound ==
    LettersSpec => []RetriesSound
  BY InitRetriesInv, StepRetriesInv, RetriesInvSound, PTL DEF LettersSpec

-----------------------------------------------------------------------------
(* Migrations. *)

MigrationSteps == {"off", "schema", "count", "backfill", "look", "execute", "commit", "failed", "done"}

MigrationsTypeOK ==
    /\ tracked \in SUBSET MigrationFiles
    /\ effects \in Seq(Nat)
    /\ provisioned \in 0..FileCount
    /\ migStep \in [Migrators -> MigrationSteps]
    /\ sawSchema \in [Migrators -> BOOLEAN]
    /\ nextFile \in [Migrators -> 1..(FileCount + 1)]
    /\ starts \in Nat

(* The record tells what ran, or all of it ran before there was a record.  *)
RecordIsTrue ==
    /\ \A i \in 1..Len(effects) : effects[i] = i
    /\ IF provisioned = 0 THEN tracked = 1..Len(effects)
       ELSE Len(effects) = provisioned /\ tracked \in {{}, MigrationFiles}

(* What a runner found out about the database is still so. *)
RunnerKnows(p) ==
    /\ sawSchema[p] => effects # <<>>
    /\ migStep[p] \in {"schema", "count", "backfill"} => nextFile[p] = 1
    /\ migStep[p] = "count" /\ provisioned > 0 => sawSchema[p]
    /\ migStep[p] = "backfill" => provisioned > 0
    /\ migStep[p] \in {"look", "execute", "commit", "done"} =>
          /\ provisioned > 0 => tracked = MigrationFiles
          /\ 1..(nextFile[p] - 1) \subseteq tracked
    /\ migStep[p] \in {"execute", "commit"} => nextFile[p] \in MigrationFiles
    /\ migStep[p] = "commit" => nextFile[p] \notin tracked
    /\ migStep[p] = "done" => tracked = MigrationFiles

(* The unique index lets one transaction of a file through. *)
OneAtAFile ==
    \A p, q \in Migrators :
        migStep[p] = "commit" /\ migStep[q] = "commit" /\ p # q => nextFile[p] # nextFile[q]

MigrationsInv ==
    /\ MigrationsTypeOK
    /\ RecordIsTrue
    /\ \A p \in Migrators : RunnerKnows(p)
    /\ OneAtAFile
-----------------------------------------------------------------------------
(* A runner that did not move knows what it knew, if the record only grew  *)
(* and the file it has in its transaction is not the one that was added.   *)
LEMMA OthersKnow ==
    ASSUME NEW q \in Migrators, RunnerKnows(q), MigrationsTypeOK,
           migStep'[q] = migStep[q], nextFile'[q] = nextFile[q], sawSchema'[q] = sawSchema[q],
           provisioned' = provisioned,
           tracked \subseteq tracked', tracked' \subseteq MigrationFiles,
           effects # <<>> => effects' # <<>>,
           migStep[q] = "commit" => nextFile[q] \notin tracked'
    PROVE  RunnerKnows(q)'
  BY DEF RunnerKnows, MigrationsTypeOK, MigrationFiles

(* The record is empty in a fresh database, and true of an old one. *)
LEMMA InitHolds == MigrationsInit => MigrationsInv
  <1> SUFFICES ASSUME MigrationsInit PROVE MigrationsInv
    OBVIOUS
  <1>1. effects \in Seq(Nat) /\ Len(effects) = provisioned /\ \A i \in 1..provisioned : effects[i] = i
    BY MigrationsAssumption DEF MigrationsInit
  <1>2. MigrationsTypeOK
    BY <1>1, MigrationsAssumption DEF MigrationsInit, MigrationsTypeOK, MigrationFiles, MigrationSteps
  <1>3. RecordIsTrue
    BY <1>1, MigrationsAssumption DEF MigrationsInit, RecordIsTrue
  <1>4. ASSUME NEW p \in Migrators PROVE RunnerKnows(p)
    BY DEF MigrationsInit, RunnerKnows
  <1>5. OneAtAFile
    BY DEF MigrationsInit, OneAtAFile
  <1> QED BY <1>2, <1>3, <1>4, <1>5 DEF MigrationsInv

(* A file that is about to be committed is the next one, and the database  *)
(* is one that started empty.                                              *)
LEMMA CommitsTheNext ==
    ASSUME MigrationsInv, NEW p \in Migrators, migStep[p] = "commit"
    PROVE  provisioned = 0 /\ nextFile[p] = Len(effects) + 1
  <1>1. RunnerKnows(p) /\ MigrationsTypeOK /\ RecordIsTrue
    BY DEF MigrationsInv
  <1>2. nextFile[p] \in MigrationFiles /\ nextFile[p] \notin tracked
    BY <1>1 DEF RunnerKnows
  <1>3. provisioned = 0
    BY <1>1, <1>2 DEF RunnerKnows, MigrationsTypeOK
  <1>4. tracked = 1..Len(effects) /\ 1..(nextFile[p] - 1) \subseteq tracked
    BY <1>1, <1>3 DEF RunnerKnows, RecordIsTrue
  <1>5. Len(effects) \in Nat /\ nextFile[p] \in Nat \ {0}
    BY <1>1, <1>2 DEF MigrationsTypeOK, MigrationFiles
  <1>6. nextFile[p] > Len(effects)
    BY <1>2, <1>4, <1>5
  <1>7. nextFile[p] - 1 <= Len(effects)
    BY <1>4, <1>5
  <1> QED BY <1>3, <1>5, <1>6, <1>7

(* Every step of a runner keeps the invariant. *)
LEMMA StepHolds == MigrationsInv /\ [MigrationsNext]_migrationVars => MigrationsInv'
  <1> SUFFICES ASSUME MigrationsInv, [MigrationsNext]_migrationVars PROVE MigrationsInv'
    OBVIOUS
  <1>inv. MigrationsTypeOK /\ RecordIsTrue /\ OneAtAFile /\ \A q \in Migrators : RunnerKnows(q)
    BY DEF MigrationsInv
  <1>1. CASE UNCHANGED migrationVars
    BY <1>1, <1>inv DEF MigrationsInv, MigrationsTypeOK, RecordIsTrue, RunnerKnows, OneAtAFile,
                        migrationVars, MigrationFiles
  <1>2. ASSUME NEW p \in Migrators,
               StartMigrator(p) \/ ReadSchema(p) \/ ReadTrackingCount(p) \/ LookUpFile(p)
               \/ ExecuteFile(p) \/ MigratorFails(p)
        PROVE  MigrationsInv'
    <2>1. UNCHANGED database
      BY <1>2 DEF StartMigrator, ReadSchema, ReadTrackingCount, LookUpFile, ExecuteFile, MigratorFails
    <2>2. MigrationsTypeOK'
      <3>1. migStep' \in [Migrators -> MigrationSteps]
        BY <1>2, <1>inv DEF MigrationsTypeOK, MigrationSteps, MigGoto, StartMigrator, ReadSchema,
           ReadTrackingCount, LookUpFile, ExecuteFile, MigratorFails, InsertOutcome
      <3>2. sawSchema' \in [Migrators -> BOOLEAN]
        <4>1. CASE ReadSchema(p)
          <5> DEFINE seen == (effects # <<>>)
          <5>1. sawSchema' = [sawSchema EXCEPT ![p] = seen] /\ seen \in BOOLEAN
            BY <4>1 DEF ReadSchema
          <5> HIDE DEF seen
          <5> QED BY <5>1, <1>inv DEF MigrationsTypeOK
        <4>2. CASE UNCHANGED sawSchema
          BY <4>2, <1>inv DEF MigrationsTypeOK
        <4> QED BY <4>1, <4>2, <1>2 DEF StartMigrator, ReadTrackingCount, LookUpFile, ExecuteFile,
                   MigratorFails
      <3>3. nextFile' \in [Migrators -> 1..(FileCount + 1)]
        <4>1. CASE LookUpFile(p) /\ nextFile[p] \in tracked
          <5>1. nextFile[p] + 1 \in 1..(FileCount + 1)
            BY <4>1, <1>inv, MigrationsAssumption DEF MigrationsTypeOK, MigrationFiles
          <5>2. nextFile' = [nextFile EXCEPT ![p] = nextFile[p] + 1] \/ UNCHANGED nextFile
            BY <4>1 DEF LookUpFile
          <5> QED BY <5>1, <5>2, <1>inv DEF MigrationsTypeOK
        <4>2. CASE UNCHANGED nextFile
          BY <4>2, <1>inv DEF MigrationsTypeOK
        <4>3. CASE nextFile' = [nextFile EXCEPT ![p] = 1]
          BY <4>3, <1>inv, MigrationsAssumption DEF MigrationsTypeOK
        <4> QED BY <4>1, <4>2, <4>3, <1>2 DEF StartMigrator, ReadSchema, ReadTrackingCount, LookUpFile,
                   ExecuteFile, MigratorFails
      <3>4. starts' \in Nat
        BY <1>2, <1>inv DEF MigrationsTypeOK, StartMigrator, ReadSchema, ReadTrackingCount, LookUpFile,
           ExecuteFile, MigratorFails
      <3> QED BY <2>1, <3>1, <3>2, <3>3, <3>4, <1>inv DEF MigrationsTypeOK, database, MigrationFiles
    <2>3. RecordIsTrue'
      BY <2>1, <1>inv DEF RecordIsTrue, database, MigrationFiles
    <2>4. \A q \in Migrators \ {p} : migStep'[q] = migStep[q] /\ nextFile'[q] = nextFile[q]
                                      /\ sawSchema'[q] = sawSchema[q]
      BY <1>2, <1>inv DEF MigrationsTypeOK, MigGoto, StartMigrator, ReadSchema, ReadTrackingCount,
         LookUpFile, ExecuteFile, MigratorFails
    <2>5. ASSUME NEW q \in Migrators \ {p} PROVE RunnerKnows(q)'
      BY <2>1, <2>4, <1>inv, OthersKnow DEF MigrationsTypeOK, RunnerKnows, database
    <2>6. RunnerKnows(p)'
      <3>1. CASE StartMigrator(p)
        BY <3>1, <1>inv DEF StartMigrator, MigGoto, MigrationsTypeOK, RunnerKnows, database
      <3>2. CASE ReadSchema(p)
        <4>1. migStep'[p] = "count" /\ nextFile'[p] = 1 /\ provisioned' = provisioned
          BY <3>2, <1>inv DEF ReadSchema, MigGoto, MigrationsTypeOK, RunnerKnows, database
        <4>2. (sawSchema'[p] <=> effects # <<>>) /\ effects' = effects
          BY <3>2, <1>inv DEF ReadSchema, MigrationsTypeOK, database
        <4>3. provisioned > 0 => effects # <<>>
          BY <1>inv DEF RecordIsTrue, MigrationsTypeOK
        <4> QED BY <4>1, <4>2, <4>3 DEF RunnerKnows
      <3>3. CASE ReadTrackingCount(p)
        BY <3>3, <1>inv DEF ReadTrackingCount, MigGoto, MigrationsTypeOK, RunnerKnows, RecordIsTrue,
           database, MigrationFiles
      <3>4. CASE LookUpFile(p)
        <4>1. RunnerKnows(p) /\ UNCHANGED <<database, sawSchema>>
          BY <3>4, <1>inv DEF LookUpFile
        <4>2. /\ provisioned > 0 => tracked = MigrationFiles
              /\ 1..(nextFile[p] - 1) \subseteq tracked
              /\ tracked \subseteq MigrationFiles
              /\ nextFile[p] \in 1..(FileCount + 1)
          BY <3>4, <4>1, <1>inv DEF LookUpFile, RunnerKnows, MigrationsTypeOK
        <4>3. CASE nextFile[p] > FileCount /\ MigGoto(p, "done") /\ UNCHANGED nextFile
          <5>1. nextFile[p] = FileCount + 1 /\ FileCount \in Nat
            BY <4>2, <4>3, MigrationsAssumption
          <5>2. 1..FileCount \subseteq tracked
            BY <5>1, <4>2
          <5>3. tracked = MigrationFiles
            BY <5>2, <4>2 DEF MigrationFiles
          <5> QED BY <5>3, <4>1, <4>2, <4>3, <1>inv DEF RunnerKnows, MigGoto, MigrationsTypeOK, database,
                     MigrationFiles
        <4>4. CASE /\ nextFile[p] \in tracked
                   /\ nextFile' = [nextFile EXCEPT ![p] = @ + 1] /\ UNCHANGED migStep
          <5>1. 1..nextFile[p] \subseteq tracked
            BY <4>2, <4>4
          <5>2. nextFile'[p] - 1 = nextFile[p] /\ migStep'[p] = "look"
            BY <4>2, <4>4, <3>4, <1>inv, MigrationsAssumption DEF LookUpFile, MigrationsTypeOK
          <5> QED BY <5>1, <5>2, <4>1, <4>2 DEF RunnerKnows, database, MigrationFiles
        <4>5. CASE /\ nextFile[p] \in MigrationFiles \ tracked
                   /\ MigGoto(p, "execute") /\ UNCHANGED nextFile
          BY <4>1, <4>2, <4>5, <1>inv DEF RunnerKnows, MigGoto, MigrationsTypeOK, database, MigrationFiles
        <4> QED BY <3>4, <4>3, <4>4, <4>5 DEF LookUpFile
      <3>5. CASE ExecuteFile(p)
        BY <3>5, <1>inv DEF ExecuteFile, InsertOutcome, MigGoto, MigrationsTypeOK, RunnerKnows,
           database, MigrationFiles
      <3>6. CASE MigratorFails(p)
        BY <3>6, <1>inv DEF MigratorFails, MigGoto, MigrationsTypeOK, RunnerKnows, database
      <3> QED BY <1>2, <3>1, <3>2, <3>3, <3>4, <3>5, <3>6
    <2>7. OneAtAFile'
      <3>1. CASE ExecuteFile(p)
        BY <3>1, <1>inv, <2>4 DEF ExecuteFile, MigGoto, MigrationsTypeOK, OneAtAFile
      <3>2. CASE ~ExecuteFile(p)
        <4>1. migStep'[p] # "commit"
          BY <3>2, <1>2, <1>inv DEF StartMigrator, ReadSchema, ReadTrackingCount, LookUpFile,
             MigratorFails, MigGoto, MigrationsTypeOK
        <4> QED BY <4>1, <1>inv, <2>4 DEF OneAtAFile
      <3> QED BY <3>1, <3>2
    <2> QED BY <2>2, <2>3, <2>5, <2>6, <2>7 DEF MigrationsInv
  <1>3. ASSUME NEW p \in Migrators, Backfill(p) PROVE MigrationsInv'
    <2>1. provisioned > 0 /\ tracked \subseteq MigrationFiles
      BY <1>3, <1>inv DEF Backfill, RunnerKnows, MigrationsTypeOK
    <2>2. MigrationsTypeOK'
      BY <1>3, <1>inv DEF Backfill, MigGoto, MigrationsTypeOK, MigrationSteps, MigrationFiles
    <2>3. RecordIsTrue'
      BY <1>3, <1>inv, <2>1 DEF Backfill, RecordIsTrue, MigrationFiles
    <2>4. \A q \in Migrators : migStep[q] # "commit"
      BY <2>1, <1>inv, CommitsTheNext
    <2>5. ASSUME NEW q \in Migrators \ {p} PROVE RunnerKnows(q)'
      BY <1>3, <1>inv, <2>1, <2>4, OthersKnow DEF Backfill, MigGoto, MigrationsTypeOK
    <2>6. RunnerKnows(p)'
      BY <1>3, <1>inv, MigrationsAssumption DEF Backfill, MigGoto, MigrationsTypeOK, RunnerKnows, MigrationFiles
    <2>7. OneAtAFile'
      BY <1>3, <1>inv, <2>4 DEF Backfill, MigGoto, MigrationsTypeOK, OneAtAFile
    <2> QED BY <2>2, <2>3, <2>5, <2>6, <2>7 DEF MigrationsInv
  <1>4. ASSUME NEW p \in Migrators, CommitFile(p) PROVE MigrationsInv'
    <2>1. provisioned = 0 /\ nextFile[p] = Len(effects) + 1
      BY <1>4, CommitsTheNext DEF CommitFile
    <2>2. nextFile[p] \in MigrationFiles /\ nextFile[p] \notin tracked
      BY <1>4, <1>inv DEF CommitFile, RunnerKnows
    <2>3. /\ effects' \in Seq(Nat) /\ Len(effects') = Len(effects) + 1
          /\ \A i \in 1..Len(effects') : effects'[i] = i
          /\ effects' # <<>>
      BY <1>4, <1>inv, <2>1, <2>2 DEF CommitFile, MigrationsTypeOK, RecordIsTrue, MigrationFiles
    <2>4. tracked' = tracked \cup {nextFile[p]} /\ UNCHANGED <<provisioned, sawSchema, starts>>
      BY <1>4 DEF CommitFile
    <2>5. MigrationsTypeOK'
      <3>1. nextFile[p] + 1 \in 1..(FileCount + 1)
        BY <2>2, MigrationsAssumption DEF MigrationFiles
      <3>2. nextFile' \in [Migrators -> 1..(FileCount + 1)]
        BY <1>4, <1>inv, <3>1 DEF CommitFile, MigrationsTypeOK
      <3>3. migStep' \in [Migrators -> MigrationSteps]
        BY <1>4, <1>inv DEF CommitFile, MigGoto, MigrationsTypeOK, MigrationSteps
      <3> QED BY <1>inv, <2>2, <2>3, <2>4, <3>2, <3>3 DEF MigrationsTypeOK, MigrationFiles
    <2>6. RecordIsTrue'
      <3>1. tracked = 1..Len(effects) /\ Len(effects) \in Nat
        BY <1>inv, <2>1 DEF RecordIsTrue, MigrationsTypeOK
      <3>2. tracked' = 1..Len(effects')
        BY <3>1, <2>1, <2>3, <2>4
      <3> QED BY <3>2, <2>1, <2>3, <2>4 DEF RecordIsTrue
    <2>7. \A q \in Migrators \ {p} : migStep'[q] = migStep[q] /\ nextFile'[q] = nextFile[q]
      BY <1>4, <1>inv DEF CommitFile, MigGoto, MigrationsTypeOK
    <2>8. ASSUME NEW q \in Migrators \ {p} PROVE RunnerKnows(q)'
      <3>1. migStep[q] = "commit" => nextFile[q] \notin tracked'
        BY <1>4, <1>inv, <2>4 DEF CommitFile, RunnerKnows, OneAtAFile
      <3> QED BY <3>1, <1>inv, <2>2, <2>3, <2>4, <2>7, OthersKnow DEF MigrationsTypeOK
    <2>9. RunnerKnows(p)'
      <3>1. 1..(nextFile[p] - 1) \subseteq tracked
        BY <1>4, <1>inv DEF CommitFile, RunnerKnows
      <3>2. 1..nextFile[p] \subseteq tracked'
        BY <3>1, <2>2, <2>4 DEF MigrationFiles
      <3> QED BY <1>4, <1>inv, <2>1, <2>2, <2>3, <2>4, <3>2 DEF CommitFile, MigGoto, RunnerKnows,
                 MigrationsTypeOK, MigrationFiles
    <2>10. OneAtAFile'
      <3>1. migStep'[p] # "commit"
        BY <1>4, <1>inv DEF CommitFile, MigGoto, MigrationsTypeOK
      <3> QED BY <3>1, <2>7, <1>inv DEF OneAtAFile
    <2> QED BY <2>5, <2>6, <2>8, <2>9, <2>10 DEF MigrationsInv
  <1> QED BY <1>1, <1>2, <1>3, <1>4 DEF MigrationsNext

(* The invariant says what the operator relies on. *)
LEMMA InvIsSound == MigrationsInv => MigrationsSound
  <1> SUFFICES ASSUME MigrationsInv PROVE MigrationsSound
    OBVIOUS
  <1>1. effects \in Seq(Nat) /\ \A i \in 1..Len(effects) : effects[i] = i
    BY DEF MigrationsInv, MigrationsTypeOK, RecordIsTrue
  <1>2. effects = [i \in 1..Len(effects) |-> i]
    BY <1>1
  <1>3. ToSet(effects) = 1..Len(effects)
    BY <1>1 DEF ToSet
  <1> QED BY <1>2, <1>3 DEF MigrationsInv, RecordIsTrue, RunnerKnows, MigrationsSound

(* However many runners of services/migrations.py are started, and wherever *)
(* they fail: each file is committed at most once and in order, and is on   *)
(* record exactly if it ran; a database from before the record is left      *)
(* alone; and a runner that ends well leaves none out.                      *)
THEOREM MigrationsAreSound == MigrationsSpec => []MigrationsSound
  <1>1. MigrationsSpec => []MigrationsInv
    BY InitHolds, StepHolds, PTL DEF MigrationsSpec
  <1> QED BY <1>1, InvIsSound, PTL
-----------------------------------------------------------------------------
(* A non-empty set of ids has a smallest. *)
LEMMA SmallestId ==
    ASSUME NEW S \in SUBSET Nat, S # {}
    PROVE  \E x \in S : \A y \in S : x <= y
  <1>1. PICK x \in S : \A y \in S : ~(<<y, x>> \in OpToRel(<, Nat))
    BY NatLessThanWellFounded, WFMin
  <1>2. ASSUME NEW y \in S, y < x PROVE FALSE
    <2>1. <<y, x>> \in {p \in Nat \X Nat : p[1] < p[2]}
      BY <1>2
    <2>2. <<y, x>> \in OpToRel(<, Nat)
      BY <2>1, Zenon DEF OpToRel
    <2> QED BY <1>1, <2>2
  <1> QED BY <1>2

-----------------------------------------------------------------------------
(* The scan of the index and the re-index.                                 *)

DocStatuses == {"none", "pending", "processing", "processed", "deleted"}
ScanSteps == {"count", "select", "check", "vectors"}

IndexTypeOK ==
    /\ listed \in SUBSET DocIds
    /\ docStatus \in [DocIds -> DocStatuses]
    /\ chunkRows \in [DocIds -> RowSets]
    /\ objects \in [DocIds -> SUBSET Nat]
    /\ scanStep \in ScanSteps \cup {"done", "failed"}
    /\ page \in Nat \ {0}
    /\ total \in Nat
    /\ toCheck \in SUBSET DocIds
    /\ found \in SUBSET DocIds
    /\ repairStep \in {"idle", "load", "clear", "store", "ok", "failed", "skipped"}
    /\ repairStep # "idle" => scanStep = "done" /\ repaired \in DocIds
    /\ loaded \in SUBSET Nat
    /\ cleared \in BOOLEAN
    /\ touched \in SUBSET DocIds
    /\ drifted \in BOOLEAN

(* Documents are numbered as they come. *)
Numbered ==
    /\ \A d \in listed : docStatus[d] # "none"
    /\ \A d, e \in DocIds : docStatus[d] = "none" /\ e > d => docStatus[e] = "none"

Older(d) == Cardinality({e \in listed : e < d})

(* The scan has d before it. *)
ToCome(d) ==
    CASE scanStep \in {"count", "select"} -> Older(d) + (page - 1) * PageSize < Cardinality(listed)
      [] scanStep \in {"check", "vectors"} -> d \in toCheck \/ Older(d) + page * PageSize < total
      [] OTHER -> FALSE

(* What is reported, and what the page at hand holds, is so. *)
ReportIsTrue ==
    repairStep = "idle" =>
        /\ loaded = {}
        /\ \A d \in found \ touched : Orphan(d)
        /\ \A d \in toCheck \ touched : d \in listed /\ docStatus[d] = "processed" /\ chunkRows[d] # {}
        /\ scanStep = "vectors" => toCheck # {}

(* An orphan is found or to come, counted from the oldest document: no      *)
(* upload changes that number.                                              *)
NothingMissed ==
    repairStep = "idle" /\ ~drifted =>
        /\ scanStep = "select" => total = Cardinality(listed)
        /\ scanStep \in {"check", "vectors"} => total <= Cardinality(listed)
        /\ scanStep # "failed" =>
              \A d \in DocIds \ touched : Orphan(d) => d \in found \/ ToCome(d)

(* What is loaded is a prefix of the rows, and all of them at the end. *)
RepairOnCourse ==
    repairStep # "idle" /\ repaired \notin touched =>
        /\ repairStep = "load" => loaded = 0..(Cardinality(loaded) - 1) /\ loaded \subseteq chunkRows[repaired]
        /\ repairStep \in {"clear", "store"} => loaded = chunkRows[repaired]
        /\ repairStep = "store" /\ cleared => objects[repaired] = {}
        /\ repairStep = "ok" => /\ chunkRows[repaired] \subseteq objects[repaired]
                                /\ cleared => objects[repaired] = chunkRows[repaired]

IndexInv == IndexTypeOK /\ Numbered /\ ReportIsTrue /\ NothingMissed /\ RepairOnCourse
(* A non-empty set of documents has a newest and an oldest. *)
LEMMA NewestOldest ==
    ASSUME NEW S \in SUBSET DocIds, S # {}
    PROVE  /\ \E x \in S : \A y \in S : y <= x
           /\ \E x \in S : \A y \in S : x <= y
  <1>0. S \in SUBSET Nat /\ MaxDocuments \in Nat /\ \A y \in S : y <= MaxDocuments
    BY IndexRepairAssumption DEF DocIds
  <1>1. PICK x \in S : \A y \in S : x <= y
    BY <1>0, SmallestId
  <1> DEFINE mirror(y) == MaxDocuments - y
             M == {mirror(y) : y \in S}
  <1>2. M \in SUBSET Nat /\ M # {}
    BY <1>0
  <1>3. PICK m \in M : \A k \in M : m <= k
    <2> HIDE DEF M
    <2> QED BY <1>2, SmallestId
  <1>4. PICK z \in S : m = mirror(z)
    OBVIOUS
  <1>5. ASSUME NEW y \in S PROVE y <= z
    <2>1. mirror(z) <= mirror(y)
      BY <1>3, <1>4
    <2> QED BY <1>0, <2>1
  <1> QED BY <1>1, <1>5

LEMMA DocsFinite ==
    ASSUME NEW S \in SUBSET DocIds
    PROVE  IsFiniteSet(S) /\ Cardinality(S) \in Nat
  <1>1. IsFiniteSet(DocIds)
    BY IndexRepairAssumption, FS_Interval DEF DocIds
  <1>2. IsFiniteSet(S)
    BY <1>1, FS_Subset
  <1> QED BY <1>2, FS_CardinalityType

(* A listed document, those before it and those behind it make the listing. *)
LEMMA ListingSplits ==
    ASSUME IndexTypeOK, NEW d \in listed
    PROVE  /\ Cardinality({e \in listed : e > d}) \in Nat /\ Older(d) \in Nat
           /\ Cardinality(listed) \in Nat
           /\ Cardinality(listed) = Older(d) + 1 + Cardinality({e \in listed : e > d})
  <1> DEFINE New == {e \in listed : e > d}
             Old == {e \in listed : e < d}
  <1>0. listed \in SUBSET DocIds /\ \A e \in listed : e \in Nat
    BY IndexRepairAssumption DEF IndexTypeOK, DocIds
  <1>1. New \in SUBSET DocIds /\ Old \in SUBSET DocIds
    BY <1>0
  <1>2. \A e \in listed : (e < d \/ e = d \/ e > d) /\ (e > d => ~(e < d) /\ e # d) /\ (e < d => e # d)
    BY <1>0
  <1>3. /\ New \subseteq listed /\ Old \subseteq listed
         /\ \A e \in listed : (e \in Old \/ e = d \/ e \in New)
                                /\ (e \in New => e \notin Old /\ e # d) /\ (e \in Old => e # d)
    BY <1>2
  <1> HIDE DEF New, Old
  <1>4. d \notin Old /\ Old \cup {d} \in SUBSET DocIds
    BY <1>0, <1>1, <1>3
  <1>5. (Old \cup {d}) \cap New = {}
    BY <1>3
  <1>6. (Old \cup {d}) \cup New = listed
    BY <1>3
  <1>7. /\ IsFiniteSet(Old) /\ Cardinality(Old) \in Nat
        /\ IsFiniteSet(New) /\ Cardinality(New) \in Nat
        /\ IsFiniteSet(Old \cup {d})
    BY <1>1, <1>4, DocsFinite
  <1>8. Cardinality(Old \cup {d}) = Cardinality(Old) + 1
    BY <1>4, <1>7, FS_AddElement
  <1>9. Cardinality(listed) = Cardinality(Old \cup {d}) + Cardinality(New) - Cardinality((Old \cup {d}) \cap New)
    BY <1>6, <1>7, FS_Union
  <1>10. Cardinality(listed) = Cardinality(Old) + 1 + Cardinality(New)
    BY <1>5, <1>7, <1>8, <1>9, FS_EmptySet
  <1> QED BY <1>0, <1>7, <1>10, DocsFinite DEF New, Old, Older

(* A page of the listing: its rows by their rank, and there is a row on it  *)
(* if there is one at its offset or behind.                                 *)
LEMMA PageIs ==
    ASSUME IndexTypeOK
    PROVE  /\ (page - 1) * PageSize \in Nat /\ PageSize \in Nat \ {0}
           /\ page * PageSize = (page - 1) * PageSize + PageSize
           /\ ListingPage = {d \in listed :
                                /\ (page - 1) * PageSize <= Cardinality({e \in listed : e > d})
                                /\ Cardinality({e \in listed : e > d}) < (page - 1) * PageSize + PageSize}
  <1>1. page \in Nat \ {0} /\ PageSize \in Nat \ {0}
    BY IndexRepairAssumption DEF IndexTypeOK
  <1>2. PICK q \in Nat : page = q + 1
    BY <1>1
  <1>3. q * PageSize \in Nat /\ (q + 1) * PageSize = q * PageSize + PageSize
    BY <1>1
  <1>4. page - 1 = q
    BY <1>2
  <1> QED BY <1>1, <1>2, <1>3, <1>4 DEF ListingPage, LimitOffset

LEMMA PageNotEmpty ==
    ASSUME IndexTypeOK, NEW d \in listed,
           Cardinality({e \in listed : e > d}) >= (page - 1) * PageSize
    PROVE  ListingPage # {}
  <1> DEFINE offset == (page - 1) * PageSize
             Rank(x) == Cardinality({e \in listed : e > x})
             Behind == {x \in listed : Rank(x) >= offset}
  <1>0. listed \in SUBSET DocIds /\ \A e \in listed : e \in Nat
    BY IndexRepairAssumption DEF IndexTypeOK, DocIds
  <1>1. /\ offset \in Nat /\ PageSize \in Nat \ {0}
        /\ ListingPage = {x \in listed : offset <= Rank(x) /\ Rank(x) < offset + PageSize}
    BY PageIs
  <1>2. \A x \in listed : Rank(x) \in Nat
    BY ListingSplits
  <1>3. Behind \in SUBSET DocIds /\ Behind # {}
    BY <1>0
  <1>4. PICK m \in Behind : \A x \in Behind : x <= m
    <2> HIDE DEF Behind
    <2> QED BY <1>3, NewestOldest
  <1> DEFINE New == {e \in listed : e > m}
  <1>5. m \in listed /\ Rank(m) >= offset /\ Rank(m) = Cardinality(New)
    OBVIOUS
  <1>6. CASE New = {}
    <2>1. Rank(m) = 0
      BY <1>5, <1>6, FS_EmptySet
    <2>2. Rank(m) < offset + PageSize
      BY <1>1, <2>1
    <2> HIDE DEF offset, Rank
    <2> QED BY <1>1, <1>5, <2>2
  <1>7. CASE New # {}
    <2>1. New \in SUBSET DocIds
      BY <1>0
    <2>2. PICK n \in New : \A x \in New : n <= x
      <3> HIDE DEF New
      <3> QED BY <1>7, <2>1, NewestOldest
    <2>3. n \in listed /\ n > m /\ n \notin Behind
      <3>1. n \in listed /\ n > m /\ n \in Nat /\ m \in Nat
        BY <1>0, <1>5, <2>2
      <3>2. ~(n <= m)
        BY <3>1
      <3> HIDE DEF Behind
      <3> QED BY <1>4, <3>1, <3>2
    <2>4. Rank(n) < offset
      BY <1>1, <1>2, <2>3
    <2>5. New \ {n} = {e \in listed : e > n}
      <3>1. ASSUME NEW x \in New \ {n} PROVE x > n
        BY <1>0, <2>2, <3>1
      <3>2. ASSUME NEW x \in listed, x > n PROVE x \in New \ {n}
        BY <1>0, <1>5, <2>3, <3>2
      <3> QED BY <3>1, <3>2
    <2>6. Rank(n) = Cardinality(New) - 1
      <3>1. Cardinality(New \ {n}) = Rank(n)
        BY <2>5
      <3>2. IsFiniteSet(New) /\ n \in New
        BY <2>1, <2>2, DocsFinite
      <3> HIDE DEF New, Rank
      <3> QED BY <3>1, <3>2, FS_RemoveElement
    <2>7. Rank(m) < offset + PageSize
      <3>1. Rank(m) \in Nat /\ Rank(n) \in Nat
        BY <1>2, <1>5, <2>3
      <3>2. Rank(m) = Rank(n) + 1
        <4> HIDE DEF New, Rank
        <4> QED BY <1>5, <2>6, <3>1
      <3> HIDE DEF Rank, offset
      <3> QED BY <1>1, <2>4, <3>1, <3>2
    <2> HIDE DEF offset, Rank
    <2> QED BY <1>1, <1>5, <2>7
  <1> QED BY <1>6, <1>7

(* The next document of the page is one of it. *)
LEMMA NextIsOfThePage ==
    ASSUME toCheck \in SUBSET DocIds, toCheck # {}
    PROVE  NextDocument \in toCheck
  BY NewestOldest DEF NextDocument

LEMMA IndexStarts == IndexInit => IndexInv
  <1> SUFFICES ASSUME IndexInit PROVE IndexInv
    OBVIOUS
  <1>1. PICK n \in 0..MaxDocuments : listed = 1..n
    BY DEF IndexInit
  <1>2. listed \in SUBSET DocIds
    BY <1>1, IndexRepairAssumption DEF DocIds
  <1>3. IndexTypeOK
    <2>1. docStatus \in [DocIds -> DocStatuses]
      BY DEF IndexInit, DocStatuses
    <2>2. objects \in [DocIds -> SUBSET Nat]
      <3>1. \A kept \in RowSets : kept \subseteq Nat
        BY IndexRepairAssumption DEF RowSets
      <3> QED BY <3>1 DEF IndexInit
    <2>3. chunkRows \in [DocIds -> RowSets]
      BY DEF IndexInit
    <2>4. /\ scanStep \in ScanSteps \cup {"done", "failed"} /\ page \in Nat \ {0} /\ total \in Nat
          /\ toCheck \in SUBSET DocIds /\ found \in SUBSET DocIds /\ touched \in SUBSET DocIds
      BY DEF IndexInit, ScanSteps
    <2>5. /\ repairStep = "idle" /\ loaded \in SUBSET Nat
          /\ cleared \in BOOLEAN /\ drifted \in BOOLEAN
      BY DEF IndexInit
    <2> QED BY <1>2, <2>1, <2>2, <2>3, <2>4, <2>5 DEF IndexTypeOK
  <1>4. Numbered
    BY <1>1, <1>2, IndexRepairAssumption DEF IndexInit, Numbered, DocIds
  <1>5. ReportIsTrue
    BY DEF IndexInit, ReportIsTrue
  <1>6. NothingMissed
    <2>1. SUFFICES ASSUME NEW d \in DocIds, Orphan(d) PROVE ToCome(d)
      BY DEF IndexInit, NothingMissed
    <2>2. d \in listed
      BY <2>1 DEF Orphan
    <2> DEFINE rank == Cardinality({e \in listed : e > d})
    <2>3. /\ rank \in Nat /\ Older(d) \in Nat /\ Cardinality(listed) \in Nat
          /\ Cardinality(listed) = Older(d) + 1 + rank
      BY <1>3, <2>2, ListingSplits
    <2> HIDE DEF rank
    <2>4. (page - 1) * PageSize = 0
      <3>1. PageSize \in Nat /\ page - 1 = 0
        BY IndexRepairAssumption DEF IndexInit
      <3>2. 0 * PageSize = 0
        BY <3>1
      <3> QED BY <3>1, <3>2
    <2>5. Older(d) + (page - 1) * PageSize < Cardinality(listed)
      BY <2>3, <2>4
    <2> QED BY <2>5 DEF ToCome, IndexInit
  <1>7. RepairOnCourse
    BY DEF IndexInit, RepairOnCourse
  <1> QED BY <1>3, <1>4, <1>5, <1>6, <1>7 DEF IndexInv
-----------------------------------------------------------------------------
(* The steps of the scan.                                                  *)

(* What a step of the scan leaves alone. *)
ScanOnly == UNCHANGED <<store, repairVars, others>>

LEMMA ScanIsFirst ==
    ASSUME IndexInv, scanStep \in ScanSteps, ScanOnly
    PROVE  /\ repairStep = "idle" /\ repairStep' = "idle"
           /\ Numbered' /\ RepairOnCourse'
           /\ \A d \in DocIds : Orphan(d)' = Orphan(d) /\ Older(d)' = Older(d)
  BY DEF IndexInv, IndexTypeOK, ScanSteps, ScanOnly, store, repairVars, others, Numbered, RepairOnCourse,
         Orphan, Older

LEMMA CountKeeps ==
    ASSUME IndexInv, CountDocuments
    PROVE  IndexInv'
  <1>0. /\ scanStep = "count" /\ total' = Cardinality(listed) /\ scanStep' = "select"
        /\ UNCHANGED <<page, toCheck, found>> /\ ScanOnly /\ scanStep \in ScanSteps
    BY DEF CountDocuments, ScanOnly, ScanSteps
  <1>1. /\ repairStep = "idle" /\ repairStep' = "idle" /\ Numbered' /\ RepairOnCourse'
        /\ \A d \in DocIds : Orphan(d)' = Orphan(d) /\ Older(d)' = Older(d)
    BY <1>0, ScanIsFirst
  <1>2. IndexTypeOK'
    <2>1. Cardinality(listed) \in Nat
      BY DocsFinite DEF IndexInv, IndexTypeOK
    <2> QED BY <1>0, <1>1, <2>1 DEF IndexInv, IndexTypeOK, ScanOnly, ScanSteps, store, repairVars, others
  <1>3. ReportIsTrue'
    BY <1>0, <1>1 DEF IndexInv, IndexTypeOK, ReportIsTrue, ScanOnly, store, repairVars, others
  <1>4. NothingMissed'
    BY <1>0, <1>1 DEF IndexInv, NothingMissed, ToCome, ScanOnly, store, repairVars, others
  <1> QED BY <1>1, <1>2, <1>3, <1>4 DEF IndexInv

LEMMA SelectKeeps ==
    ASSUME IndexInv, SelectPage
    PROVE  IndexInv'
  <1>0. /\ scanStep = "select" /\ UNCHANGED <<page, total, found>> /\ ScanOnly /\ scanStep \in ScanSteps
        /\ toCheck' = {d \in ListingPage : docStatus[d] = "processed" /\ chunkRows[d] # {}}
        /\ scanStep' = IF ListingPage = {} THEN "done" ELSE "check"
    BY DEF SelectPage, ScanOnly, ScanSteps
  <1>1. /\ repairStep = "idle" /\ repairStep' = "idle" /\ Numbered' /\ RepairOnCourse'
        /\ \A d \in DocIds : Orphan(d)' = Orphan(d) /\ Older(d)' = Older(d)
    BY <1>0, ScanIsFirst
  <1>2. IndexTypeOK /\ listed \in SUBSET DocIds /\ UNCHANGED <<listed, docStatus, chunkRows, touched, drifted, loaded>>
    BY <1>0 DEF IndexInv, IndexTypeOK, ScanOnly, store, repairVars, others
  <1>3. /\ (page - 1) * PageSize \in Nat /\ PageSize \in Nat \ {0}
        /\ page * PageSize = (page - 1) * PageSize + PageSize
        /\ ListingPage = {d \in listed :
                             /\ (page - 1) * PageSize <= Cardinality({e \in listed : e > d})
                             /\ Cardinality({e \in listed : e > d}) < (page - 1) * PageSize + PageSize}
    BY <1>2, PageIs
  <1>4. ListingPage \in SUBSET listed
    BY <1>3
  <1>5. IndexTypeOK'
    BY <1>0, <1>1, <1>2, <1>4 DEF IndexTypeOK, ScanOnly, ScanSteps, store, repairVars, others
  <1>6. ReportIsTrue'
    BY <1>0, <1>1, <1>2, <1>4 DEF IndexInv, IndexTypeOK, ReportIsTrue
  <1>7. NothingMissed'
    <2>1. SUFFICES ASSUME ~drifted
                   PROVE  /\ total = Cardinality(listed)
                          /\ \A d \in DocIds \ touched : Orphan(d) => d \in found \/ ToCome(d)'
      <3>1. Cardinality(listed) \in Nat
        BY <1>2, DocsFinite
      <3> QED BY <1>0, <1>1, <1>2, <3>1 DEF NothingMissed
    <2>2. total = Cardinality(listed)
      BY <1>0, <1>1, <2>1 DEF IndexInv, NothingMissed
    <2>3. ASSUME NEW d \in DocIds \ touched, Orphan(d), d \notin found PROVE ToCome(d)'
      <3>1. d \in listed /\ docStatus[d] = "processed" /\ chunkRows[d] # {}
        BY <2>3 DEF Orphan
      <3>2. Older(d) + (page - 1) * PageSize < total
        BY <1>0, <1>1, <2>1, <2>2, <2>3 DEF IndexInv, NothingMissed, ToCome
      <3> DEFINE rank == Cardinality({e \in listed : e > d})
      <3>3. rank \in Nat /\ Older(d) \in Nat /\ total = Older(d) + 1 + rank
        BY <1>2, <2>2, <3>1, ListingSplits
      <3> DEFINE offset == (page - 1) * PageSize
      <3>4. offset \in Nat /\ PageSize \in Nat /\ Older(d) + offset < total
        BY <1>3, <3>2
      <3>5. rank >= offset
        <4> HIDE DEF rank, offset
        <4> QED BY <3>3, <3>4
      <3>6. ListingPage # {}
        BY <1>2, <3>1, <3>5, PageNotEmpty
      <3>7. CASE rank < offset + PageSize
        <4>1. d \in ListingPage
          BY <1>3, <3>1, <3>5, <3>7
        <4> QED BY <1>0, <3>1, <3>6, <4>1 DEF ToCome
      <3>8. CASE ~(rank < offset + PageSize)
        <4>1. Older(d) + (offset + PageSize) < total
          <5> HIDE DEF rank, offset
          <5> QED BY <3>3, <3>4, <3>8
        <4>2. Older(d) + page * PageSize < total
          BY <1>3, <4>1
        <4> QED BY <1>0, <1>1, <3>6, <4>2 DEF ToCome
      <3> QED BY <3>7, <3>8
    <2> QED BY <2>2, <2>3
  <1> QED BY <1>1, <1>5, <1>6, <1>7 DEF IndexInv

(* A row of the page is dropped if its document is gone, which is then      *)
(* among those that were touched, or looked up in the vector store.         *)
LEMMA CheckRowKeeps ==
    ASSUME IndexInv, CheckRow
    PROVE  IndexInv'
  <1>0. /\ scanStep = "check" /\ toCheck # {} /\ UNCHANGED <<page, total, found>> /\ ScanOnly
        /\ scanStep \in ScanSteps
        /\ IF NextDocument \in listed THEN scanStep' = "vectors" /\ UNCHANGED toCheck
           ELSE toCheck' = toCheck \ {NextDocument} /\ UNCHANGED scanStep
    BY DEF CheckRow, ScanOnly, ScanSteps
  <1>1. /\ repairStep = "idle" /\ repairStep' = "idle" /\ Numbered' /\ RepairOnCourse'
        /\ \A d \in DocIds : Orphan(d)' = Orphan(d) /\ Older(d)' = Older(d)
    BY <1>0, ScanIsFirst
  <1>2. /\ IndexTypeOK /\ ReportIsTrue /\ NothingMissed
        /\ UNCHANGED <<listed, docStatus, chunkRows, touched, drifted, loaded>>
    BY <1>0 DEF IndexInv, ScanOnly, store, repairVars, others
  <1>3. IndexTypeOK'
    BY <1>0, <1>1, <1>2 DEF IndexTypeOK, ScanOnly, ScanSteps, store, repairVars, others
  <1>4. ReportIsTrue'
    BY <1>0, <1>1, <1>2 DEF IndexTypeOK, ReportIsTrue
  <1>5. NothingMissed'
    BY <1>0, <1>1, <1>2 DEF NothingMissed, ToCome, Orphan
  <1> QED BY <1>1, <1>3, <1>4, <1>5 DEF IndexInv

LEMMA CheckVectorsKeeps ==
    ASSUME IndexInv, CheckVectors
    PROVE  IndexInv'
  <1>0. /\ scanStep = "vectors" /\ UNCHANGED <<page, total>> /\ ScanOnly /\ scanStep \in ScanSteps
        /\ found' = IF objects[NextDocument] = {} THEN found \cup {NextDocument} ELSE found
        /\ toCheck' = toCheck \ {NextDocument} /\ scanStep' = "check"
    BY DEF CheckVectors, ScanOnly, ScanSteps
  <1>1. /\ repairStep = "idle" /\ repairStep' = "idle" /\ Numbered' /\ RepairOnCourse'
        /\ \A d \in DocIds : Orphan(d)' = Orphan(d) /\ Older(d)' = Older(d)
    BY <1>0, ScanIsFirst
  <1>2. /\ IndexTypeOK /\ ReportIsTrue /\ NothingMissed
        /\ UNCHANGED <<listed, docStatus, chunkRows, touched, drifted, loaded>>
    BY <1>0 DEF IndexInv, ScanOnly, store, repairVars, others
  <1>3. NextDocument \in toCheck
    BY <1>0, <1>1, <1>2, NextIsOfThePage DEF IndexTypeOK, ReportIsTrue
  <1>4. IndexTypeOK'
    BY <1>0, <1>1, <1>2, <1>3 DEF IndexTypeOK, ScanOnly, ScanSteps, store, repairVars, others
  <1>5. ReportIsTrue'
    <2>1. ASSUME NEW d \in found' \ touched PROVE Orphan(d)
      BY <1>0, <1>1, <1>2, <1>3, <2>1 DEF ReportIsTrue, Orphan
    <2> QED BY <1>0, <1>1, <1>2, <1>4, <2>1 DEF ReportIsTrue, IndexTypeOK
  <1>6. NothingMissed'
    <2>1. SUFFICES ASSUME ~drifted, NEW d \in DocIds \ touched, Orphan(d)
                   PROVE  d \in found' \/ ToCome(d)'
      BY <1>0, <1>1, <1>2 DEF NothingMissed
    <2>2. d \in found \/ d \in toCheck \/ Older(d) + page * PageSize < total
      BY <1>0, <1>1, <1>2, <2>1 DEF NothingMissed, ToCome
    <2>3. CASE d = NextDocument
      BY <1>0, <2>1, <2>3 DEF Orphan
    <2>4. CASE d # NextDocument
      BY <1>0, <1>1, <2>2, <2>4 DEF ToCome
    <2> QED BY <2>3, <2>4
  <1> QED BY <1>1, <1>4, <1>5, <1>6 DEF IndexInv

LEMMA EndPageKeeps ==
    ASSUME IndexInv, EndPage
    PROVE  IndexInv'
  <1>0. /\ scanStep = "check" /\ toCheck = {} /\ UNCHANGED <<total, toCheck, found>> /\ ScanOnly
        /\ scanStep \in ScanSteps
        /\ IF LastPage(page, total) THEN scanStep' = "done" /\ UNCHANGED page
           ELSE scanStep' = "count" /\ page' = page + 1
    BY DEF EndPage, ScanOnly, ScanSteps
  <1>1. /\ repairStep = "idle" /\ repairStep' = "idle" /\ Numbered' /\ RepairOnCourse'
        /\ \A d \in DocIds : Orphan(d)' = Orphan(d) /\ Older(d)' = Older(d)
    BY <1>0, ScanIsFirst
  <1>2. /\ IndexTypeOK /\ ReportIsTrue /\ NothingMissed /\ listed \in SUBSET DocIds /\ total \in Nat
        /\ UNCHANGED <<listed, docStatus, chunkRows, touched, drifted, loaded>>
    BY <1>0 DEF IndexInv, IndexTypeOK, ScanOnly, store, repairVars, others
  <1>3. IndexTypeOK'
    BY <1>0, <1>1, <1>2 DEF IndexTypeOK, ScanOnly, ScanSteps, store, repairVars, others
  <1>4. ReportIsTrue'
    BY <1>0, <1>1, <1>2 DEF IndexTypeOK, ReportIsTrue
  <1>5. NothingMissed'
    <2>1. SUFFICES ASSUME ~drifted, NEW d \in DocIds \ touched, Orphan(d), d \notin found
                   PROVE  ToCome(d)'
      BY <1>0, <1>1, <1>2 DEF NothingMissed
    <2>2. Older(d) + page * PageSize < total /\ total <= Cardinality(listed)
      BY <1>0, <1>1, <1>2, <2>1 DEF NothingMissed, ToCome
    <2>3. Older(d) \in Nat /\ Cardinality(listed) \in Nat
      BY <1>2, <2>1, ListingSplits DEF Orphan
    <2>4. page * PageSize \in Nat
      <3>1. page \in Nat /\ PageSize \in Nat
        BY <1>2, IndexRepairAssumption DEF IndexTypeOK
      <3> QED BY <3>1
    <2> DEFINE passed == page * PageSize
    <2>5. ~LastPage(page, total)
      <3>1. ~(passed >= total)
        <4>1. Older(d) + passed < total /\ passed \in Nat
          BY <2>2, <2>4
        <4> HIDE DEF passed
        <4> QED BY <1>2, <2>3, <4>1
      <3> QED BY <3>1 DEF LastPage
    <2>6. scanStep' = "count" /\ page' = page + 1
      BY <1>0, <2>5
    <2>7. page' - 1 = page
      BY <1>2, <2>6 DEF IndexTypeOK
    <2>8. Older(d) + passed < Cardinality(listed)
      <3>1. Older(d) + passed < total /\ passed \in Nat
        BY <2>2, <2>4
      <3> HIDE DEF passed
      <3> QED BY <1>2, <2>2, <2>3, <3>1
    <2> QED BY <1>1, <1>2, <2>6, <2>7, <2>8 DEF ToCome
  <1> QED BY <1>1, <1>3, <1>4, <1>5 DEF IndexInv

LEMMA ScanFailsKeeps ==
    ASSUME IndexInv, ScanFails
    PROVE  IndexInv'
  <1>0. /\ scanStep \in ScanSteps /\ scanStep' = "failed" /\ UNCHANGED <<page, total, toCheck, found>> /\ ScanOnly
    BY DEF ScanFails, ScanOnly, ScanSteps
  <1>1. /\ repairStep = "idle" /\ repairStep' = "idle" /\ Numbered' /\ RepairOnCourse'
        /\ \A d \in DocIds : Orphan(d)' = Orphan(d) /\ Older(d)' = Older(d)
    BY <1>0, ScanIsFirst
  <1>2. IndexTypeOK'
    BY <1>0, <1>1 DEF IndexInv, IndexTypeOK, ScanOnly, ScanSteps, store, repairVars, others
  <1>3. ReportIsTrue'
    BY <1>0, <1>1 DEF IndexInv, IndexTypeOK, ReportIsTrue, ScanOnly, store, repairVars, others
  <1>4. NothingMissed'
    BY <1>0 DEF NothingMissed
  <1> QED BY <1>1, <1>2, <1>3, <1>4 DEF IndexInv
-----------------------------------------------------------------------------
(* The steps of the re-index.                                              *)

(* What a step of the re-index leaves alone: nothing is claimed of the      *)
(* report once it has begun.                                                *)
RepairOnly == UNCHANGED <<listed, docStatus, chunkRows, scanVars, drifted>>

LEMMA RepairIsLast ==
    ASSUME IndexInv, repairStep' # "idle", RepairOnly
    PROVE  Numbered' /\ ReportIsTrue' /\ NothingMissed'
  BY DEF IndexInv, RepairOnly, Numbered, ReportIsTrue, NothingMissed

LEMMA StatusKeeps ==
    ASSUME IndexInv, GetDocumentStatus
    PROVE  IndexInv'
  <1>0. /\ scanStep = "done" /\ repairStep = "idle" /\ repaired' \in found
        /\ repairStep' \in {"load", "skipped"} /\ touched' = {} /\ RepairOnly
        /\ UNCHANGED <<objects, loaded, cleared>>
    BY DEF GetDocumentStatus, RepairOnly, store
  <1>1. Numbered' /\ ReportIsTrue' /\ NothingMissed'
    BY <1>0, RepairIsLast
  <1>2. IndexTypeOK'
    BY <1>0 DEF IndexInv, IndexTypeOK, RepairOnly, scanVars
  <1>3. RepairOnCourse'
    <2>1. loaded = {} /\ Cardinality(loaded) = 0
      BY <1>0, FS_EmptySet DEF IndexInv, ReportIsTrue
    <2>2. loaded = 0..(Cardinality(loaded) - 1)
      BY <2>1
    <2> QED BY <1>0, <2>1, <2>2 DEF RepairOnCourse
  <1> QED BY <1>1, <1>2, <1>3 DEF IndexInv

(* The rows of a document are numbered from 0, so that a page of them is an *)
(* interval, and a page that is not full is the last.                       *)
LEMMA ChunkPageIs ==
    ASSUME NEW n \in Nat, NEW c \in Nat, c <= n, ChunkPageSize \in Nat \ {0},
           chunkRows[repaired] = 0..(n - 1), Cardinality(loaded) = c
    PROVE  ChunkPage = IF c + ChunkPageSize <= n THEN c..(c + ChunkPageSize - 1) ELSE c..(n - 1)
  <1> DEFINE rank == [i \in 0..(n - 1) |-> Cardinality({j \in 0..(n - 1) : j < i})]
  <1>1. ASSUME NEW i \in 0..(n - 1) PROVE Cardinality({j \in 0..(n - 1) : j < i}) = i
    <2>1. {j \in 0..(n - 1) : j < i} = 0..(i - 1)
      OBVIOUS
    <2>2. 0 \in Int /\ i - 1 \in Int /\ (IF 0 > i - 1 THEN 0 ELSE (i - 1) - 0 + 1) = i
      OBVIOUS
    <2>3. Cardinality(0..(i - 1)) = i
      BY <2>2, FS_Interval
    <2> QED BY <2>1, <2>3
  <1>2. rank = [i \in 0..(n - 1) |-> i]
    BY <1>1
  <1>3. ChunkPage = {i \in 0..(n - 1) : c <= i /\ i < c + ChunkPageSize}
    BY <1>2 DEF ChunkPage, LimitOffset
  <1> QED BY <1>3

LEMMA LoadKeeps ==
    ASSUME IndexInv, LoadChunks
    PROVE  IndexInv'
  <1>0. /\ repairStep = "load" /\ loaded' = loaded \cup ChunkPage /\ RepairOnly
        /\ repairStep' = IF MorePages(Cardinality(ChunkPage)) THEN "load"
                         ELSE IF loaded' = {} THEN "skipped" ELSE "clear"
        /\ UNCHANGED <<objects, repaired, cleared, touched>>
    BY DEF LoadChunks, RepairOnly, store, others
  <1>1. Numbered' /\ ReportIsTrue' /\ NothingMissed'
    BY <1>0, RepairIsLast
  <1>2. IndexTypeOK /\ repaired \in DocIds /\ ChunkPageSize \in Nat \ {0}
    BY <1>0, IndexRepairAssumption DEF IndexInv, IndexTypeOK
  <1>3. PICK n \in Nat : chunkRows[repaired] = 0..(n - 1)
    BY <1>2, IndexRepairAssumption DEF IndexTypeOK, RowSets
  <1>4. IndexTypeOK'
    <2>1. ChunkPage \subseteq Nat
      BY <1>3 DEF ChunkPage, LimitOffset
    <2> QED BY <1>0, <1>2, <2>1 DEF IndexTypeOK, RepairOnly, scanVars
  <1>5. RepairOnCourse'
    <2>1. SUFFICES ASSUME repaired \notin touched
                   PROVE  /\ repairStep' = "load" => /\ loaded' = 0..(Cardinality(loaded') - 1)
                                                     /\ loaded' \subseteq chunkRows[repaired]
                          /\ repairStep' = "clear" => loaded' = chunkRows[repaired]
      BY <1>0 DEF RepairOnCourse, RepairOnly
    <2> DEFINE c == Cardinality(loaded)
    <2>2. loaded = 0..(c - 1) /\ loaded \subseteq 0..(n - 1)
      BY <1>0, <1>3, <2>1 DEF IndexInv, RepairOnCourse
    <2>3. c \in Nat
      <3>1. IsFiniteSet(0..(n - 1))
        BY FS_Interval
      <3>2. IsFiniteSet(loaded)
        BY <2>2, <3>1, FS_Subset
      <3> QED BY <3>2, FS_CardinalityType
    <2>4. PICK k \in Nat : k = c
      BY <2>3
    <2> HIDE DEF c
    <2>5. k <= n
      <3>1. k > 0 => k - 1 \in 0..(k - 1)
        BY <2>4
      <3>2. k > 0 => k - 1 \in 0..(n - 1)
        BY <2>2, <2>4, <3>1
      <3> QED BY <3>2
    <2>6. ChunkPage = IF k + ChunkPageSize <= n THEN k..(k + ChunkPageSize - 1) ELSE k..(n - 1)
      BY <1>2, <1>3, <2>4, <2>5, ChunkPageIs DEF c
    <2>7. CASE k + ChunkPageSize <= n
      <3>1. loaded' = 0..(k + ChunkPageSize - 1)
        BY <1>0, <1>2, <2>2, <2>4, <2>6, <2>7
      <3>2. Cardinality(loaded') = k + ChunkPageSize
        <4>1. /\ 0 \in Int /\ k + ChunkPageSize - 1 \in Int
              /\ (IF 0 > k + ChunkPageSize - 1 THEN 0 ELSE (k + ChunkPageSize - 1) - 0 + 1) = k + ChunkPageSize
          BY <1>2
        <4> QED BY <3>1, <4>1, FS_Interval
      <3>3. Cardinality(ChunkPage) = ChunkPageSize
        <4>1. /\ k \in Int /\ k + ChunkPageSize - 1 \in Int
              /\ (IF k > k + ChunkPageSize - 1 THEN 0 ELSE (k + ChunkPageSize - 1) - k + 1) = ChunkPageSize
          BY <1>2
        <4> QED BY <2>6, <2>7, <4>1, FS_Interval
      <3>4. repairStep' = "load"
        BY <1>0, <3>3 DEF MorePages
      <3> QED BY <1>2, <1>3, <2>7, <3>1, <3>2, <3>4
    <2>8. CASE ~(k + ChunkPageSize <= n)
      <3>1. loaded' = 0..(n - 1)
        BY <1>0, <1>2, <2>2, <2>4, <2>5, <2>6, <2>8
      <3>2. Cardinality(ChunkPage) < ChunkPageSize /\ Cardinality(ChunkPage) \in Nat
        <4>1. /\ k \in Int /\ n - 1 \in Int
              /\ (IF k > n - 1 THEN 0 ELSE (n - 1) - k + 1) = n - k
              /\ n - k < ChunkPageSize /\ n - k \in Nat
          BY <1>2, <2>5, <2>8
        <4> QED BY <2>6, <2>8, <4>1, FS_Interval
      <3>3. repairStep' # "load"
        BY <1>0, <1>2, <3>2 DEF MorePages
      <3> QED BY <1>3, <3>1, <3>3
    <2> QED BY <2>7, <2>8
  <1> QED BY <1>1, <1>4, <1>5 DEF IndexInv

LEMMA ClearKeeps ==
    ASSUME IndexInv, ClearObjects
    PROVE  IndexInv'
  <1>0. /\ repairStep = "clear" /\ repairStep' = "store" /\ RepairOnly
        /\ \/ cleared' = TRUE /\ objects' = [objects EXCEPT ![repaired] = {}]
           \/ cleared' = FALSE /\ UNCHANGED objects
        /\ UNCHANGED <<repaired, loaded, touched>>
    BY DEF ClearObjects, RepairOnly, others
  <1>1. Numbered' /\ ReportIsTrue' /\ NothingMissed'
    BY <1>0, RepairIsLast
  <1>2. IndexTypeOK /\ repaired \in DocIds
    BY <1>0 DEF IndexInv, IndexTypeOK
  <1>3. IndexTypeOK'
    <2>1. objects' \in [DocIds -> SUBSET Nat]
      BY <1>0, <1>2 DEF IndexTypeOK
    <2> QED BY <1>0, <1>2, <2>1 DEF IndexTypeOK, RepairOnly, scanVars
  <1>4. RepairOnCourse'
    BY <1>0, <1>2 DEF IndexInv, IndexTypeOK, RepairOnCourse, RepairOnly
  <1> QED BY <1>1, <1>3, <1>4 DEF IndexInv

LEMMA StoreKeeps ==
    ASSUME IndexInv, StoreObjects
    PROVE  IndexInv'
  <1>0. PICK written \in SUBSET loaded :
            /\ objects' = [objects EXCEPT ![repaired] = @ \cup written]
            /\ repairStep' = IF written = loaded THEN "ok" ELSE "failed"
    BY DEF StoreObjects
  <1>1. repairStep = "store" /\ RepairOnly /\ UNCHANGED <<repaired, loaded, cleared, touched>>
    BY DEF StoreObjects, RepairOnly, others
  <1>2. Numbered' /\ ReportIsTrue' /\ NothingMissed'
    BY <1>0, <1>1, RepairIsLast
  <1>3. IndexTypeOK /\ repaired \in DocIds
    BY <1>1 DEF IndexInv, IndexTypeOK
  <1>4. objects'[repaired] = objects[repaired] \cup written
    BY <1>0, <1>3 DEF IndexTypeOK
  <1>5. IndexTypeOK'
    <2>1. objects' \in [DocIds -> SUBSET Nat]
      BY <1>0, <1>3 DEF IndexTypeOK
    <2> QED BY <1>0, <1>1, <1>3, <2>1 DEF IndexTypeOK, RepairOnly, scanVars
  <1>6. RepairOnCourse'
    BY <1>0, <1>1, <1>4 DEF IndexInv, RepairOnCourse, RepairOnly
  <1> QED BY <1>2, <1>5, <1>6 DEF IndexInv
-----------------------------------------------------------------------------
(* What others do to a document meanwhile.                                 *)

LEMMA OutsideKeeps ==
    ASSUME IndexInv, NEW d \in DocIds, Touch(d), UNCHANGED <<scanVars, repairVars>>,
           listed' \in SUBSET DocIds, docStatus' \in [DocIds -> DocStatuses],
           chunkRows' \in [DocIds -> RowSets], objects' \in [DocIds -> SUBSET Nat],
           drifted' \in BOOLEAN, Numbered',
           \A x \in DocIds \ {d} : /\ x \in listed' <=> x \in listed
                                   /\ docStatus'[x] = docStatus[x] /\ chunkRows'[x] = chunkRows[x]
                                   /\ objects'[x] = objects[x],
           ~drifted' /\ scanStep \in ScanSteps =>
               /\ ~drifted
               /\ \A x \in listed \ {d} : Older(x)' = Older(x)
               /\ Cardinality(listed) <= Cardinality(listed')
               /\ scanStep = "select" => listed' = listed
    PROVE  IndexInv'
  <1>0. /\ IndexTypeOK /\ ReportIsTrue /\ NothingMissed /\ RepairOnCourse
        /\ UNCHANGED <<scanStep, page, total, toCheck, found, repairStep, repaired, loaded, cleared>>
        /\ touched' = touched \cup {d}
        /\ scanStep \in ScanSteps \/ repairStep \in {"load", "clear", "store"}
    BY DEF IndexInv, scanVars, repairVars, Touch, Scanning, ScanSteps
  <1>1. IndexTypeOK'
    BY <1>0 DEF IndexTypeOK
  <1>2. ReportIsTrue'
    BY <1>0 DEF IndexTypeOK, ReportIsTrue, Orphan
  <1>3. NothingMissed'
    <2>1. SUFFICES ASSUME repairStep = "idle", ~drifted'
                   PROVE  /\ scanStep = "select" => total = Cardinality(listed')
                          /\ scanStep \in {"check", "vectors"} => total <= Cardinality(listed')
                          /\ \A x \in DocIds \ touched' : Orphan(x)' => x \in found \/ ToCome(x)'
      BY <1>0 DEF NothingMissed
    <2>2. /\ ~drifted /\ scanStep \in ScanSteps
          /\ \A x \in listed \ {d} : Older(x)' = Older(x)
          /\ Cardinality(listed) <= Cardinality(listed')
          /\ scanStep = "select" => listed' = listed
      BY <1>0, <2>1
    <2>3. /\ Cardinality(listed) \in Nat /\ Cardinality(listed') \in Nat /\ total \in Nat
      BY <1>0, <1>1, DocsFinite DEF IndexTypeOK
    <2>4. scanStep = "select" => total = Cardinality(listed')
      BY <1>0, <2>1, <2>2 DEF NothingMissed
    <2>5. scanStep \in {"check", "vectors"} => total <= Cardinality(listed')
      BY <1>0, <2>1, <2>2, <2>3 DEF NothingMissed
    <2>6. ASSUME NEW x \in DocIds \ touched', Orphan(x)', x \notin found PROVE ToCome(x)'
      <3>1. x # d /\ x \in DocIds \ touched /\ x \in listed
        BY <1>0, <2>6 DEF Orphan
      <3>2. Orphan(x)
        BY <2>6, <3>1 DEF Orphan
      <3>3. ToCome(x)
        BY <1>0, <2>1, <2>2, <2>6, <3>1, <3>2 DEF NothingMissed, ScanSteps
      <3>4. Older(x)' = Older(x) /\ Older(x) \in Nat
        BY <1>0, <2>2, <3>1, ListingSplits
      <3>5. (page - 1) * PageSize \in Nat
        BY <1>0, PageIs
      <3> DEFINE offset == (page - 1) * PageSize
      <3>6. CASE scanStep \in {"count", "select"}
        <4>1. Older(x) + offset < Cardinality(listed)
          BY <3>3, <3>6 DEF ToCome
        <4>2. Older(x) + offset < Cardinality(listed')
          <5> offset \in Nat
            BY <3>5
          <5> HIDE DEF offset
          <5> QED BY <2>2, <2>3, <3>4, <4>1
        <4> QED BY <1>0, <3>4, <3>6, <4>2 DEF ToCome
      <3>7. CASE scanStep \in {"check", "vectors"}
        BY <1>0, <3>3, <3>4, <3>7 DEF ToCome
      <3> QED BY <2>2, <3>6, <3>7 DEF ScanSteps
    <2> QED BY <2>4, <2>5, <2>6
  <1>4. RepairOnCourse'
    BY <1>0 DEF IndexTypeOK, RepairOnCourse
  <1> QED BY <1>1, <1>2, <1>3, <1>4 DEF IndexInv

(* An upload comes after all there are: it moves no rank. *)
LEMMA LabelUploadKeeps ==
    ASSUME IndexInv, UploadDocument
    PROVE  IndexInv'
  <1>0. PICK d \in DocIds :
            /\ docStatus[d] = "none" /\ \A e \in 1..(d - 1) : docStatus[e] # "none"
            /\ Touch(d)
            /\ listed' = listed \cup {d} /\ docStatus' = [docStatus EXCEPT ![d] = "pending"]
            /\ drifted' = (drifted \/ scanStep = "select")
            /\ UNCHANGED <<chunkRows, objects, scanVars, repairVars>>
    BY DEF UploadDocument
  <1>1. /\ IndexTypeOK /\ Numbered /\ listed \in SUBSET DocIds
        /\ \A x \in DocIds : x \in Nat \ {0}
    BY IndexRepairAssumption DEF IndexInv, IndexTypeOK, DocIds
  <1>2. /\ docStatus' \in [DocIds -> DocStatuses] /\ docStatus'[d] = "pending"
        /\ \A x \in DocIds \ {d} : docStatus'[x] = docStatus[x]
    BY <1>0, <1>1 DEF IndexTypeOK, DocStatuses
  <1>3. ASSUME NEW x \in DocIds, x < d PROVE docStatus[x] # "none"
    <2>1. x \in 1..(d - 1)
      BY <1>1, <1>3
    <2> QED BY <1>0, <2>1
  <1>4. Numbered'
    <2>1. \A x \in listed' : docStatus'[x] # "none"
      BY <1>0, <1>1, <1>2 DEF Numbered
    <2>2. ASSUME NEW x \in DocIds, NEW y \in DocIds, docStatus'[x] = "none", y > x
          PROVE  docStatus'[y] = "none"
      <3>1. x # d /\ docStatus[x] = "none"
        BY <1>2, <2>2
      <3>2. docStatus[y] = "none"
        BY <1>1, <2>2, <3>1 DEF Numbered
      <3>3. y # d
        BY <1>3, <1>1, <2>2, <3>1
      <3> QED BY <1>2, <3>2, <3>3
    <2> QED BY <2>1, <2>2 DEF Numbered
  <1>5. \A x \in listed : x < d
    BY <1>0, <1>1 DEF Numbered
  <1>6. \A x \in listed \ {d} : Older(x)' = Older(x)
    <2>1. ASSUME NEW x \in listed PROVE {e \in listed \cup {d} : e < x} = {e \in listed : e < x}
      <3>1. ~(d < x)
        BY <1>1, <1>5
      <3> QED BY <3>1
    <2> QED BY <1>0, <2>1 DEF Older
  <1>7. Cardinality(listed) <= Cardinality(listed')
    <2>1. listed' \in SUBSET DocIds
      BY <1>0, <1>1
    <2>2. IsFiniteSet(listed') /\ listed \in SUBSET listed'
      BY <1>0, <2>1, DocsFinite
    <2> QED BY <2>2, FS_Subset
  <1>8. drifted' \in BOOLEAN
    BY <1>0, <1>1 DEF IndexTypeOK
  <1> QED BY <1>0, <1>1, <1>2, <1>4, <1>6, <1>7, <1>8, OutsideKeeps DEF IndexTypeOK

LEMMA RunKeeps ==
    ASSUME IndexInv, IngestDocument
    PROVE  IndexInv'
  <1>0. PICK d \in listed :
            /\ Touch(d)
            /\ \/ /\ docStatus[d] # "processing"
                  /\ docStatus' = [docStatus EXCEPT ![d] = "processing"]
                  /\ objects' = [objects EXCEPT ![d] = {}] /\ UNCHANGED chunkRows
               \/ /\ docStatus[d] = "processing"
                  /\ docStatus' = [docStatus EXCEPT ![d] = "processed"]
                  /\ \E kept \in RowSets \ {{}} :
                        /\ chunkRows' = [chunkRows EXCEPT ![d] = kept]
                        /\ objects' = [objects EXCEPT ![d] = kept]
            /\ UNCHANGED <<listed, scanVars, repairVars, drifted>>
    BY DEF IngestDocument
  <1>1. IndexTypeOK /\ Numbered /\ d \in DocIds /\ listed \in SUBSET DocIds
    BY DEF IndexInv, IndexTypeOK
  <1>2. \A kept \in RowSets : kept \subseteq Nat
    BY IndexRepairAssumption DEF RowSets
  <1>3. /\ docStatus' \in [DocIds -> DocStatuses] /\ docStatus'[d] # "none"
        /\ chunkRows' \in [DocIds -> RowSets]
        /\ objects' \in [DocIds -> SUBSET Nat]
        /\ \A x \in DocIds \ {d} : /\ docStatus'[x] = docStatus[x] /\ chunkRows'[x] = chunkRows[x]
                                   /\ objects'[x] = objects[x]
    BY <1>0, <1>1, <1>2 DEF IndexTypeOK, DocStatuses
  <1>4. Numbered'
    BY <1>0, <1>1, <1>3 DEF Numbered
  <1>5. \A x \in listed : Older(x)' = Older(x)
    BY <1>0 DEF Older
  <1>6. Cardinality(listed) <= Cardinality(listed')
    BY <1>0, <1>1, DocsFinite
  <1> QED BY <1>0, <1>1, <1>3, <1>4, <1>5, <1>6, OutsideKeeps DEF IndexTypeOK

(* A delete during the scan is what drifting means. *)
LEMMA DeleteKeeps ==
    ASSUME IndexInv, DeleteDocument
    PROVE  IndexInv'
  <1>0. PICK d \in listed :
            /\ Touch(d)
            /\ listed' = listed \ {d} /\ docStatus' = [docStatus EXCEPT ![d] = "deleted"]
            /\ chunkRows' = [chunkRows EXCEPT ![d] = {}] /\ objects' = [objects EXCEPT ![d] = {}]
            /\ drifted' = (drifted \/ Scanning)
            /\ UNCHANGED <<scanVars, repairVars>>
    BY DEF DeleteDocument
  <1>1. IndexTypeOK /\ Numbered /\ d \in DocIds /\ listed \in SUBSET DocIds
    BY DEF IndexInv, IndexTypeOK
  <1>2. {} \in RowSets
    BY IndexRepairAssumption DEF RowSets
  <1>3. /\ docStatus' \in [DocIds -> DocStatuses] /\ docStatus'[d] = "deleted"
        /\ chunkRows' \in [DocIds -> RowSets]
        /\ objects' \in [DocIds -> SUBSET Nat]
        /\ \A x \in DocIds \ {d} : /\ docStatus'[x] = docStatus[x] /\ chunkRows'[x] = chunkRows[x]
                                   /\ objects'[x] = objects[x]
    BY <1>0, <1>1, <1>2 DEF IndexTypeOK, DocStatuses
  <1>4. Numbered'
    BY <1>0, <1>1, <1>3 DEF Numbered
  <1>5. drifted' \in BOOLEAN /\ (scanStep \in ScanSteps => drifted')
    BY <1>0, <1>1 DEF IndexTypeOK, Scanning, ScanSteps
  <1> QED BY <1>0, <1>1, <1>3, <1>4, <1>5, OutsideKeeps
-----------------------------------------------------------------------------
(* Every step of the tools and of the others keeps the invariant. *)
LEMMA IndexStep == IndexInv /\ [IndexNext]_indexVars => IndexInv'
  <1> SUFFICES ASSUME IndexInv, [IndexNext]_indexVars PROVE IndexInv'
    OBVIOUS
  <1>1. CASE UNCHANGED indexVars
    <2>1. UNCHANGED <<listed, docStatus, chunkRows, objects, scanStep, page, total, toCheck, found,
                      repairStep, repaired, loaded, cleared, touched, drifted>>
      BY <1>1 DEF indexVars, store, scanVars, repairVars, others
    <2>2. IndexTypeOK' /\ Numbered'
      BY <2>1 DEF IndexInv, IndexTypeOK, Numbered
    <2>3. ReportIsTrue' /\ NothingMissed' /\ RepairOnCourse'
      BY <2>1 DEF IndexInv, ReportIsTrue, NothingMissed, RepairOnCourse, Orphan, ToCome, Older
    <2> QED BY <2>2, <2>3 DEF IndexInv
  <1>2. CASE CountDocuments \/ SelectPage \/ CheckRow \/ CheckVectors \/ EndPage \/ ScanFails
    BY <1>2, CountKeeps, SelectKeeps, CheckRowKeeps, CheckVectorsKeeps, EndPageKeeps, ScanFailsKeeps
  <1>3. CASE GetDocumentStatus \/ LoadChunks \/ ClearObjects \/ StoreObjects
    BY <1>3, StatusKeeps, LoadKeeps, ClearKeeps, StoreKeeps
  <1>4. CASE UploadDocument \/ IngestDocument \/ DeleteDocument
    BY <1>4, LabelUploadKeeps, RunKeeps, DeleteKeeps
  <1> QED BY <1>1, <1>2, <1>3, <1>4 DEF IndexNext

LEMMA InvIndexSound == IndexInv => IndexRepairSound
  <1> SUFFICES ASSUME IndexInv PROVE IndexRepairSound
    OBVIOUS
  <1>1. ScanComplete
    BY DEF IndexInv, ReportIsTrue, NothingMissed, ToCome, ScanComplete
  <1>2. ReindexExact
    BY DEF IndexInv, RepairOnCourse, ReindexExact
  <1> QED BY <1>1, <1>2 DEF IndexRepairSound

(* For any number of documents and chunks and any page sizes: the scan      *)
(* misses no orphan unless the listing shifted under it and reports nothing *)
(* else, and a re-index that ends well leaves every chunk in the index.     *)
THEOREM IndexToolsAreSound == IndexSpec => []IndexRepairSound
  <1>1. IndexSpec => []IndexInv
    BY IndexStarts, IndexStep, PTL DEF IndexSpec
  <1> QED BY <1>1, InvIndexSound, PTL
-----------------------------------------------------------------------------
(* The backfill of content types.                                          *)

Names == {"code", "md", "bare"}

LabelsTypeOK ==
    /\ filename \in [LabelledDocuments -> Names]
    /\ rowLabel \in [LabelledDocuments -> {Stale, Other}]
    /\ objectLabel \in [LabelledDocuments -> {Stale, Other}]
    /\ uploadedLabel \in [LabelledDocuments -> {Stale, Other}]
    /\ eventLabel \in [LabelledDocuments -> {Stale, Other, Undetermined}]
    /\ scriptStep \in {"off", "page", "row", "sync", "crashed", "done"}
    /\ dryRun \in BOOLEAN
    /\ cursor \in Nat
    /\ DOMAIN batchRows \subseteq LabelledDocuments
    /\ batchRows \in [DOMAIN batchRows -> Names]

(* The rows of the page come behind the cursor; while the objects of a row  *)
(* are updated it is still in the page, as the first of it.                 *)
PageInHand ==
    /\ scriptStep \in {"row", "sync"} => DOMAIN batchRows # {}
    /\ scriptStep = "row" => \A d \in DOMAIN batchRows : d > cursor
    /\ scriptStep = "sync" => cursor \in DOMAIN batchRows /\ \A d \in DOMAIN batchRows : cursor <= d

(* A row that was not uploaded again is as it was read. *)
RowsAsRead ==
    scriptStep \in {"row", "sync"} =>
        \A d \in DOMAIN batchRows \ overtaken :
            /\ batchRows[d] = filename[d]
            /\ rowLabel[d] = Stale \/ (scriptStep = "sync" /\ cursor = d)

(* The run has d before it: in the page, or behind it. *)
Ahead(d) ==
    CASE scriptStep = "page" -> d > cursor
      [] scriptStep = "row" -> d \in DOMAIN batchRows \/ \A b \in DOMAIN batchRows : b < d
      [] scriptStep = "sync" -> \/ d \in DOMAIN batchRows \ {cursor}
                                \/ \A b \in DOMAIN batchRows : b < d
      [] OTHER -> FALSE

(* What the run could decide is decided or ahead. *)
NothingPassedOver ==
    scriptStep \in {"page", "row", "sync", "done"} /\ ~dryRun =>
        \A d \in LabelledDocuments \ overtaken :
            PlanContentTypeUpdate(rowLabel[d], filename[d]) = Undetermined \/ Ahead(d)

(* The operator is told of d, or will be, or the run died over it. *)
OnRecord(d) == \/ d \in reported \cup cut
               \/ scriptStep = "sync" /\ ~dryRun /\ cursor = d

(* Where an upload is on its way, it brings the label of the row. *)
DisagreementOnRecord ==
    \A d \in LabelledDocuments :
        /\ rowLabel[d] # objectLabel[d] => OnRecord(d) \/ eventLabel[d] # Undetermined
        /\ eventLabel[d] \notin {Undetermined, rowLabel[d]} => OnRecord(d)

LabelsInv ==
    LabelsTypeOK /\ PageInHand /\ RowsAsRead /\ NothingPassedOver /\ LabelIsProven /\ DisagreementOnRecord
-----------------------------------------------------------------------------
(* The row at hand is in the page, before the others. *)
LEMMA FirstRowIsFirst ==
    ASSUME DOMAIN batchRows \subseteq Nat, DOMAIN batchRows # {}
    PROVE  FirstRow \in DOMAIN batchRows /\ \A d \in DOMAIN batchRows : FirstRow <= d
  BY SmallestId DEF FirstRow

(* The ids before one of a set of ids are finitely many, none before the    *)
(* smallest, and fewer than those before a greater one.                     *)
LEMMA IdsBefore ==
    ASSUME NEW S \in SUBSET Nat, NEW before, before = [d \in S |-> {e \in S : e < d}]
    PROVE  \A d \in S :
              /\ IsFiniteSet(before[d]) /\ Cardinality(before[d]) \in Nat
              /\ (\A e \in S : d <= e) => Cardinality(before[d]) = 0
              /\ \A b \in S : ~(b < d) => before[d] \in SUBSET before[b]
  <1> SUFFICES ASSUME NEW d \in S
               PROVE  /\ IsFiniteSet(before[d]) /\ Cardinality(before[d]) \in Nat
                      /\ (\A e \in S : d <= e) => Cardinality(before[d]) = 0
                      /\ \A b \in S : ~(b < d) => before[d] \in SUBSET before[b]
    OBVIOUS
  <1>1. \A e \in before[d] : e \in S /\ e \in Nat /\ d \in Nat /\ e < d
    OBVIOUS
  <1>2. before[d] \in SUBSET Nat /\ d \in Nat
    BY <1>1
  <1>3. \A e \in before[d] : e <= d
    BY <1>1
  <1>4. IsFiniteSet(before[d])
    BY <1>2, <1>3, FS_BoundedSetOfNaturals
  <1>5. ASSUME \A e \in S : d <= e PROVE before[d] = {}
    <2>1. \A e \in S : d <= e /\ e \in Nat /\ d \in Nat
      BY <1>5
    <2>2. \A e \in S : ~(e < d)
      BY <2>1
    <2> QED BY <1>1, <2>2
  <1>6. ASSUME NEW b \in S, ~(b < d) PROVE before[d] \in SUBSET before[b]
    <2>1. d <= b /\ b \in Nat /\ d \in Nat
      BY <1>6
    <2>2. \A e \in S : e \in Nat /\ (e < d => e < b)
      BY <2>1
    <2>3. before[b] = {e \in S : e < b}
      OBVIOUS
    <2> QED BY <1>1, <2>2, <2>3
  <1> QED BY <1>4, <1>5, <1>6, FS_CardinalityType, FS_EmptySet

(* The first few of a set of ids: what is left out comes after them, and    *)
(* they are none only if there are none.                                    *)
LEMMA FirstFew ==
    ASSUME NEW S \in SUBSET Nat, NEW n \in Nat \ {0}
    PROVE  LET T == {d \in S : Cardinality({e \in S : e < d}) < n} IN
           /\ \A d \in S \ T, b \in T : b < d
           /\ T = {} => S = {}
  <1> DEFINE T == {d \in S : Cardinality({e \in S : e < d}) < n}
  <1>1. PICK before : before = [d \in S |-> {e \in S : e < d}]
    OBVIOUS
  <1>2. T = {d \in S : Cardinality(before[d]) < n}
    BY <1>1
  <1>3. \A d \in S :
           /\ IsFiniteSet(before[d]) /\ Cardinality(before[d]) \in Nat
           /\ (\A e \in S : d <= e) => Cardinality(before[d]) = 0
           /\ \A b \in S : ~(b < d) => before[d] \in SUBSET before[b]
    BY <1>1, IdsBefore
  <1> HIDE DEF T
  <1>4. ASSUME NEW d \in S \ T, NEW b \in T, ~(b < d) PROVE FALSE
    <2>1. b \in S /\ before[d] \in SUBSET before[b]
      BY <1>2, <1>3, <1>4
    <2>2. Cardinality(before[d]) <= Cardinality(before[b])
      BY <1>3, <2>1, FS_Subset
    <2>3. /\ Cardinality(before[d]) \in Nat /\ Cardinality(before[b]) \in Nat
          /\ Cardinality(before[b]) < n
      BY <1>2, <1>3, <2>1
    <2> DEFINE fewer == Cardinality(before[d])
               few == Cardinality(before[b])
    <2>4. fewer < n
      <3>1. fewer \in Nat /\ few \in Nat /\ few < n /\ fewer <= few /\ n \in Nat
        BY <2>2, <2>3
      <3> HIDE DEF fewer, few
      <3> QED BY <3>1
    <2> QED BY <1>2, <1>4, <2>4
  <1>5. ASSUME S # {} PROVE T # {}
    <2>1. PICK d \in S : \A e \in S : d <= e
      BY <1>5, SmallestId
    <2>2. Cardinality(before[d]) = 0
      BY <1>3, <2>1
    <2>3. 0 < n
      OBVIOUS
    <2> QED BY <1>2, <2>1, <2>2, <2>3
  <1> QED BY <1>4, <1>5 DEF T

(* A page holds stale rows behind the cursor; a stale row behind the cursor *)
(* that is not in the page comes after all of it; and a page is empty only  *)
(* if there is no such row.                                                 *)
LEMMA PageIsAPrefix ==
    ASSUME NEW after \in Nat
    PROVE  LET matching == {d \in LabelledDocuments : rowLabel[d] = Stale /\ d > after} IN
           /\ NextPage(after) \subseteq matching
           /\ \A d \in matching \ NextPage(after), b \in NextPage(after) : b < d
           /\ NextPage(after) = {} => matching = {}
  <1> DEFINE matching == {d \in LabelledDocuments : rowLabel[d] = Stale /\ d > after}
  <1>1. NextPage(after) = {d \in matching : Cardinality({e \in matching : e < d}) < BatchSize}
    BY DEF NextPage
  <1>2. matching \in SUBSET Nat /\ BatchSize \in Nat \ {0}
    BY LabelBackfillAssumption
  <1> HIDE DEF matching
  <1>3. /\ \A d \in matching \ NextPage(after), b \in NextPage(after) : b < d
        /\ NextPage(after) = {} => matching = {}
    BY <1>1, <1>2, FirstFew
  <1>4. NextPage(after) \subseteq matching
    BY <1>1
  <1> QED BY <1>3, <1>4 DEF matching

(* Nothing is read, written or uploaded before the script starts. *)
LEMMA LabelsStart == LabelsInit => LabelsInv
  <1> SUFFICES ASSUME LabelsInit PROVE LabelsInv
    OBVIOUS
  <1>1. LabelsTypeOK
    BY DEF LabelsInit, LabelsTypeOK, Names, NoRows
  <1>2. PageInHand /\ RowsAsRead /\ NothingPassedOver
    BY DEF LabelsInit, PageInHand, RowsAsRead, NothingPassedOver
  <1>3. LabelIsProven /\ DisagreementOnRecord
    BY DEF LabelsInit, LabelIsProven, DisagreementOnRecord
  <1> QED BY <1>1, <1>2, <1>3 DEF LabelsInv

(* A run that starts has every row before it. *)
LEMMA StartKeeps ==
    ASSUME LabelsInv, NEW dry \in BOOLEAN, StartScript(dry)
    PROVE  LabelsInv'
  <1>1. LabelsTypeOK'
    BY DEF LabelsInv, LabelsTypeOK, StartScript, labels, NoRows
  <1>2. PageInHand' /\ RowsAsRead'
    BY DEF StartScript, PageInHand, RowsAsRead
  <1>3. NothingPassedOver'
    BY LabelBackfillAssumption DEF StartScript, NothingPassedOver, Ahead
  <1>4. LabelIsProven' /\ DisagreementOnRecord'
    BY DEF LabelsInv, StartScript, labels, LabelIsProven, DisagreementOnRecord, OnRecord
  <1> QED BY <1>1, <1>2, <1>3, <1>4 DEF LabelsInv

(* A page is a prefix of what is left, and an empty one leaves nothing. *)
LEMMA ReadKeeps ==
    ASSUME LabelsInv, ReadStaleRows
    PROVE  LabelsInv'
  <1> DEFINE read == NextPage(cursor)
             matching == {d \in LabelledDocuments : rowLabel[d] = Stale /\ d > cursor}
  <1>0. cursor \in Nat /\ scriptStep = "page" /\ UNCHANGED <<labels, dryRun, cursor, labelHistory>>
    BY DEF LabelsInv, LabelsTypeOK, ReadStaleRows
  <1>1. /\ read \subseteq matching
        /\ \A d \in matching \ read, b \in read : b < d
        /\ read = {} => matching = {}
    BY <1>0, PageIsAPrefix
  <1>2. /\ DOMAIN batchRows' = read
        /\ \A d \in read : batchRows'[d] = filename[d]
        /\ scriptStep' = IF read = {} THEN "done" ELSE "row"
    BY DEF ReadStaleRows
  <1> HIDE DEF read
  <1>3. LabelsTypeOK'
    <2>1. batchRows' \in [read -> Names]
      BY <1>1 DEF LabelsInv, LabelsTypeOK, ReadStaleRows, read
    <2> QED BY <1>0, <1>1, <1>2, <2>1 DEF LabelsInv, LabelsTypeOK, labels, labelHistory
  <1>4. PageInHand'
    BY <1>0, <1>1, <1>2 DEF PageInHand
  <1>5. RowsAsRead'
    BY <1>0, <1>1, <1>2 DEF RowsAsRead, labels, labelHistory
  <1>6. NothingPassedOver'
    <2>1. SUFFICES ASSUME ~dryRun, NEW d \in LabelledDocuments \ overtaken,
                          PlanContentTypeUpdate(rowLabel[d], filename[d]) # Undetermined
                   PROVE  read # {} /\ (d \in read \/ \A b \in read : b < d)
      BY <1>0, <1>2 DEF NothingPassedOver, Ahead, labels, labelHistory
    <2>2. d > cursor
      BY <1>0, <2>1 DEF LabelsInv, NothingPassedOver, Ahead
    <2>3. rowLabel[d] = Stale
      BY <2>1 DEF PlanContentTypeUpdate
    <2> QED BY <1>1, <2>2, <2>3
  <1>7. LabelIsProven' /\ DisagreementOnRecord'
    BY <1>0, <1>2 DEF LabelsInv, labels, labelHistory, LabelIsProven, DisagreementOnRecord, OnRecord
  <1> QED BY <1>3, <1>4, <1>5, <1>6, <1>7 DEF LabelsInv

(* After the first row come those that are left of the page, or the next    *)
(* page behind it.                                                          *)
LEMMA NextRowMoves ==
    ASSUME LabelsTypeOK, DOMAIN batchRows # {}, NextRow, cursor' = FirstRow, UNCHANGED overtaken,
           \A d \in DOMAIN batchRows \ (overtaken \cup {FirstRow}) :
               batchRows[d] = filename'[d] /\ rowLabel'[d] = Stale
    PROVE  /\ cursor' \in Nat
           /\ DOMAIN batchRows' \subseteq LabelledDocuments
           /\ batchRows' \in [DOMAIN batchRows' -> Names]
           /\ scriptStep' \in {"page", "row"}
           /\ PageInHand' /\ RowsAsRead'
           /\ \A d \in LabelledDocuments :
                 d \in DOMAIN batchRows \ {FirstRow} \/ (\A b \in DOMAIN batchRows : b < d) => Ahead(d)'
  <1> DEFINE left == DOMAIN batchRows \ {FirstRow}
  <1>1. DOMAIN batchRows \subseteq LabelledDocuments /\ LabelledDocuments \subseteq Nat
    BY LabelBackfillAssumption DEF LabelsTypeOK
  <1>2. FirstRow \in DOMAIN batchRows /\ \A d \in DOMAIN batchRows : FirstRow <= d
    BY <1>1, FirstRowIsFirst
  <1>3. /\ DOMAIN batchRows' = left
        /\ \A d \in left : batchRows'[d] = batchRows[d]
        /\ scriptStep' = IF left = {} THEN "page" ELSE "row"
    BY DEF NextRow
  <1>4. batchRows' \in [left -> Names]
    BY DEF NextRow, LabelsTypeOK
  <1>5. PageInHand'
    <2>1. \A d \in left : d \in Nat /\ FirstRow \in Nat /\ FirstRow <= d /\ d # FirstRow
      BY <1>1, <1>2
    <2>2. \A d \in left : d > FirstRow
      BY <2>1
    <2> QED BY <1>3, <2>2 DEF PageInHand
  <1>6. RowsAsRead'
    BY <1>3 DEF RowsAsRead
  <1>7. ASSUME NEW d \in LabelledDocuments, d \in left \/ \A b \in DOMAIN batchRows : b < d
        PROVE  Ahead(d)'
    <2>1. CASE left = {}
      BY <1>1, <1>2, <1>3, <1>7, <2>1 DEF Ahead
    <2>2. CASE left # {}
      BY <1>1, <1>2, <1>3, <1>7, <2>2 DEF Ahead
    <2> QED BY <2>1, <2>2
  <1> QED BY <1>1, <1>2, <1>3, <1>4, <1>5, <1>6, <1>7

(* A row is skipped when its name decides nothing. *)
LEMMA SkipKeeps ==
    ASSUME LabelsInv, SkipStaleRow
    PROVE  LabelsInv'
  <1>0. /\ LabelsTypeOK /\ PageInHand /\ RowsAsRead /\ NothingPassedOver
        /\ scriptStep = "row" /\ Planned = Undetermined /\ cursor' = FirstRow /\ NextRow
        /\ UNCHANGED <<labels, dryRun, labelHistory>>
    BY DEF LabelsInv, SkipStaleRow
  <1>1. DOMAIN batchRows # {}
    BY <1>0 DEF PageInHand
  <1>2. /\ cursor' \in Nat
        /\ DOMAIN batchRows' \subseteq LabelledDocuments
        /\ batchRows' \in [DOMAIN batchRows' -> Names]
        /\ scriptStep' \in {"page", "row"}
        /\ PageInHand' /\ RowsAsRead'
        /\ \A d \in LabelledDocuments :
              d \in DOMAIN batchRows \ {FirstRow} \/ (\A b \in DOMAIN batchRows : b < d) => Ahead(d)'
    BY <1>0, <1>1, NextRowMoves DEF RowsAsRead, labels, labelHistory
  <1>3. LabelsTypeOK'
    BY <1>0, <1>2 DEF LabelsTypeOK, labels, labelHistory
  <1>4. NothingPassedOver'
    <2>1. SUFFICES ASSUME ~dryRun, NEW d \in LabelledDocuments \ overtaken,
                          PlanContentTypeUpdate(rowLabel[d], filename[d]) # Undetermined
                   PROVE  Ahead(d)'
      BY <1>0 DEF NothingPassedOver, labels, labelHistory
    <2>2. d \in DOMAIN batchRows \/ \A b \in DOMAIN batchRows : b < d
      BY <1>0, <2>1 DEF NothingPassedOver, Ahead
    <2>3. ASSUME d \in DOMAIN batchRows PROVE d # FirstRow
      BY <1>0, <2>1, <2>3 DEF RowsAsRead, Planned
    <2> QED BY <1>2, <2>2, <2>3
  <1>5. LabelIsProven' /\ DisagreementOnRecord'
    BY <1>0, <1>2 DEF LabelsInv, labels, labelHistory, LabelIsProven, DisagreementOnRecord, OnRecord
  <1> QED BY <1>2, <1>3, <1>4, <1>5 DEF LabelsInv

(* A row that was not overtaken is written what its name proves; the other  *)
(* store is behind from then on.                                            *)
LEMMA UpdateKeeps ==
    ASSUME LabelsInv, UpdateStaleRow
    PROVE  LabelsInv'
  <1>0. /\ LabelsTypeOK /\ PageInHand /\ RowsAsRead /\ NothingPassedOver
        /\ LabelIsProven /\ DisagreementOnRecord
        /\ scriptStep = "row" /\ Planned # Undetermined /\ cursor' = FirstRow /\ scriptStep' = "sync"
        /\ rowLabel' = IF dryRun THEN rowLabel ELSE [rowLabel EXCEPT ![FirstRow] = Planned]
        /\ overwritten' = IF dryRun THEN overwritten ELSE overwritten \cup ({FirstRow} \cap overtaken)
        /\ UNCHANGED <<filename, objectLabel, eventLabel, dryRun, batchRows, uploadedLabel,
                       reported, cut, overtaken>>
    BY DEF LabelsInv, UpdateStaleRow
  <1>1. DOMAIN batchRows \subseteq LabelledDocuments /\ LabelledDocuments \subseteq Nat
    BY <1>0, LabelBackfillAssumption DEF LabelsTypeOK
  <1>2. FirstRow \in DOMAIN batchRows /\ \A d \in DOMAIN batchRows : FirstRow <= d
    BY <1>0, <1>1, FirstRowIsFirst DEF PageInHand
  <1>3. /\ Planned = Other
        /\ FirstRow \notin overtaken =>
              rowLabel[FirstRow] = Stale /\ DeriveConfidentContentType(filename[FirstRow]) = Other
    <2>1. batchRows[FirstRow] \in Names
      BY <1>0, <1>2 DEF LabelsTypeOK
    <2>2. batchRows[FirstRow] = "code"
      BY <1>0, <2>1 DEF Planned, PlanContentTypeUpdate, DeriveConfidentContentType, Names
    <2>3. Planned = Other
      BY <2>2 DEF Planned, PlanContentTypeUpdate, DeriveConfidentContentType, Stale, Other
    <2>4. FirstRow \notin overtaken => filename[FirstRow] = "code" /\ rowLabel[FirstRow] = Stale
      BY <1>0, <1>2, <2>2 DEF RowsAsRead
    <2> QED BY <2>3, <2>4 DEF DeriveConfidentContentType
  <1>4. /\ \A d \in LabelledDocuments \ {FirstRow} : rowLabel'[d] = rowLabel[d]
        /\ ~dryRun => rowLabel'[FirstRow] = Other
        /\ rowLabel' \in [LabelledDocuments -> {Stale, Other}]
    BY <1>0, <1>1, <1>2, <1>3 DEF LabelsTypeOK
  <1>5. LabelsTypeOK'
    BY <1>0, <1>1, <1>2, <1>4 DEF LabelsTypeOK
  <1>6. PageInHand'
    BY <1>0, <1>2 DEF PageInHand
  <1>7. RowsAsRead'
    BY <1>0, <1>1, <1>4 DEF RowsAsRead
  <1>8. NothingPassedOver'
    <2>1. SUFFICES ASSUME ~dryRun, NEW d \in LabelledDocuments \ overtaken,
                          PlanContentTypeUpdate(rowLabel'[d], filename[d]) # Undetermined
                   PROVE  Ahead(d)'
      BY <1>0 DEF NothingPassedOver
    <2>2. d # FirstRow
      BY <1>4, <2>1 DEF PlanContentTypeUpdate, Stale, Other
    <2>3. d \in DOMAIN batchRows \/ \A b \in DOMAIN batchRows : b < d
      BY <1>0, <1>4, <2>1, <2>2 DEF NothingPassedOver, Ahead
    <2> QED BY <1>0, <2>2, <2>3 DEF Ahead
  <1>9. LabelIsProven'
    <2>1. SUFFICES ASSUME NEW d \in LabelledDocuments \ overwritten', rowLabel'[d] # uploadedLabel[d]
                   PROVE  uploadedLabel[d] = Stale /\ rowLabel'[d] = DeriveConfidentContentType(filename[d])
      BY <1>0 DEF LabelIsProven
    <2>2. d \notin overwritten
      BY <1>0, <2>1
    <2>3. CASE d # FirstRow \/ dryRun
      BY <1>0, <1>4, <2>1, <2>2, <2>3 DEF LabelIsProven
    <2>4. CASE d = FirstRow /\ ~dryRun
      <3>1. d \notin overtaken
        BY <1>0, <2>1, <2>4
      <3> QED BY <1>0, <1>3, <1>4, <2>1, <2>2, <2>4, <3>1 DEF LabelIsProven, LabelsTypeOK
    <2> QED BY <2>3, <2>4
  <1>10. DisagreementOnRecord'
    BY <1>0, <1>4 DEF DisagreementOnRecord, OnRecord
  <1> QED BY <1>5, <1>6, <1>7, <1>8, <1>9, <1>10 DEF LabelsInv

(* A document whose objects were not updated is reported. *)
LEMMA SyncKeeps ==
    ASSUME LabelsInv, SyncObjects
    PROVE  LabelsInv'
  <1>0. /\ LabelsTypeOK /\ PageInHand /\ RowsAsRead /\ NothingPassedOver
        /\ LabelIsProven /\ DisagreementOnRecord
        /\ scriptStep = "sync"
        /\ UNCHANGED <<labels, dryRun, cursor, uploadedLabel, cut, overtaken, overwritten>>
    BY DEF LabelsInv, SyncObjects
  <1>1. LabelIsProven'
    BY <1>0 DEF LabelIsProven, labels
  <1>2. CASE dryRun
    <2>1. scriptStep' = "crashed" /\ UNCHANGED <<batchRows, reported>>
      BY <1>2 DEF SyncObjects
    <2>2. LabelsTypeOK'
      BY <1>0, <2>1 DEF LabelsTypeOK, labels
    <2>3. PageInHand' /\ RowsAsRead' /\ NothingPassedOver'
      BY <2>1 DEF PageInHand, RowsAsRead, NothingPassedOver
    <2>4. DisagreementOnRecord'
      BY <1>0, <1>2, <2>1 DEF DisagreementOnRecord, OnRecord, labels
    <2> QED BY <1>1, <2>2, <2>3, <2>4 DEF LabelsInv
  <1>3. CASE ~dryRun
    <2>1. reported' = reported \cup {cursor} /\ NextRow
      BY <1>3 DEF SyncObjects
    <2>2. DOMAIN batchRows \subseteq Nat
      BY <1>0, LabelBackfillAssumption DEF LabelsTypeOK
    <2>3. DOMAIN batchRows # {} /\ FirstRow = cursor
      <3>1. cursor \in DOMAIN batchRows /\ \A d \in DOMAIN batchRows : cursor <= d
        BY <1>0 DEF PageInHand
      <3>2. FirstRow \in DOMAIN batchRows /\ \A d \in DOMAIN batchRows : FirstRow <= d
        BY <2>2, <3>1, FirstRowIsFirst
      <3> QED BY <2>2, <3>1, <3>2
    <2>4. \A d \in DOMAIN batchRows \ (overtaken \cup {FirstRow}) :
              batchRows[d] = filename'[d] /\ rowLabel'[d] = Stale
      BY <1>0, <2>3 DEF RowsAsRead, labels
    <2>5. /\ DOMAIN batchRows' \subseteq LabelledDocuments
          /\ batchRows' \in [DOMAIN batchRows' -> Names]
          /\ scriptStep' \in {"page", "row"}
          /\ PageInHand' /\ RowsAsRead'
          /\ \A d \in LabelledDocuments :
                d \in DOMAIN batchRows \ {FirstRow} \/ (\A b \in DOMAIN batchRows : b < d) => Ahead(d)'
      BY <1>0, <2>1, <2>3, <2>4, NextRowMoves
    <2>6. LabelsTypeOK'
      BY <1>0, <2>5 DEF LabelsTypeOK, labels
    <2>7. NothingPassedOver'
      BY <1>0, <1>3, <2>3, <2>5 DEF NothingPassedOver, Ahead, labels
    <2>8. DisagreementOnRecord'
      BY <1>0, <2>1, <2>5 DEF DisagreementOnRecord, OnRecord, labels
    <2> QED BY <1>1, <2>5, <2>6, <2>7, <2>8 DEF LabelsInv
  <1> QED BY <1>0, <1>2, <1>3 DEF LabelsTypeOK

(* A script that dies between the two stores leaves its document in cut. *)
LEMMA DeathKeeps ==
    ASSUME LabelsInv, ScriptDies
    PROVE  LabelsInv'
  <1>1. LabelsTypeOK'
    BY DEF LabelsInv, LabelsTypeOK, ScriptDies, labels
  <1>2. PageInHand' /\ RowsAsRead' /\ NothingPassedOver'
    BY DEF ScriptDies, PageInHand, RowsAsRead, NothingPassedOver
  <1>3. LabelIsProven' /\ DisagreementOnRecord'
    BY DEF LabelsInv, ScriptDies, labels, LabelIsProven, DisagreementOnRecord, OnRecord
  <1> QED BY <1>1, <1>2, <1>3 DEF LabelsInv

(* An upload overtakes the script, whose later writes to it are counted. *)
LEMMA ReuploadKeeps ==
    ASSUME LabelsInv, ReuploadDocument
    PROVE  LabelsInv'
  <1>0. /\ LabelsTypeOK /\ PageInHand /\ RowsAsRead /\ NothingPassedOver
        /\ LabelIsProven /\ DisagreementOnRecord
    BY DEF LabelsInv
  <1>1. PICK d \in LabelledDocuments, name \in Names, label \in {Stale, Other} :
            /\ filename' = [filename EXCEPT ![d] = name]
            /\ rowLabel' = [rowLabel EXCEPT ![d] = label]
            /\ eventLabel' = [eventLabel EXCEPT ![d] = label]
            /\ uploadedLabel' = [uploadedLabel EXCEPT ![d] = label]
            /\ overtaken' = overtaken \cup {d}
            /\ reported' = reported \ {d} /\ cut' = cut \ {d} /\ overwritten' = overwritten \ {d}
    BY DEF ReuploadDocument, Names
  <1>2. UNCHANGED <<objectLabel, scriptStep, dryRun, cursor, batchRows>>
    BY DEF ReuploadDocument, script
  <1>3. \A e \in LabelledDocuments \ {d} :
            /\ filename'[e] = filename[e] /\ rowLabel'[e] = rowLabel[e]
            /\ eventLabel'[e] = eventLabel[e] /\ uploadedLabel'[e] = uploadedLabel[e]
    BY <1>0, <1>1 DEF LabelsTypeOK
  <1>4. rowLabel'[d] = label /\ eventLabel'[d] = label /\ uploadedLabel'[d] = label
    BY <1>0, <1>1 DEF LabelsTypeOK
  <1>5. LabelsTypeOK'
    BY <1>0, <1>1, <1>2 DEF LabelsTypeOK
  <1>6. PageInHand'
    BY <1>0, <1>2 DEF PageInHand
  <1>7. RowsAsRead'
    BY <1>0, <1>1, <1>2, <1>3 DEF RowsAsRead, LabelsTypeOK
  <1>8. NothingPassedOver'
    BY <1>0, <1>1, <1>2, <1>3 DEF NothingPassedOver, Ahead
  <1>9. LabelIsProven'
    BY <1>0, <1>1, <1>3, <1>4 DEF LabelIsProven
  <1>10. DisagreementOnRecord'
    <2>1. SUFFICES ASSUME NEW e \in LabelledDocuments
                   PROVE  /\ rowLabel'[e] # objectLabel[e] => OnRecord(e)' \/ eventLabel'[e] # Undetermined
                          /\ eventLabel'[e] \notin {Undetermined, rowLabel'[e]} => OnRecord(e)'
      BY <1>2 DEF DisagreementOnRecord
    <2>2. CASE e = d
      BY <1>4, <2>2 DEF Stale, Other, Undetermined
    <2>3. CASE e # d
      BY <1>0, <1>1, <1>2, <1>3, <2>1, <2>3 DEF DisagreementOnRecord, OnRecord
    <2> QED BY <2>2, <2>3
  <1> QED BY <1>5, <1>6, <1>7, <1>8, <1>9, <1>10 DEF LabelsInv

(* A run of the workflow stores the label of its event. *)
LEMMA IngestKeeps ==
    ASSUME LabelsInv, IngestUpload
    PROVE  LabelsInv'
  <1>0. /\ LabelsTypeOK /\ PageInHand /\ RowsAsRead /\ NothingPassedOver
        /\ LabelIsProven /\ DisagreementOnRecord
        /\ UNCHANGED <<filename, rowLabel, script, labelHistory>>
    BY DEF LabelsInv, IngestUpload
  <1>1. PICK d \in LabelledDocuments :
            /\ eventLabel[d] # Undetermined
            /\ objectLabel' = [objectLabel EXCEPT ![d] = eventLabel[d]]
            /\ eventLabel' = [eventLabel EXCEPT ![d] = Undetermined]
    BY DEF IngestUpload
  <1>2. LabelsTypeOK'
    BY <1>0, <1>1 DEF LabelsTypeOK, script, labelHistory
  <1>3. PageInHand' /\ RowsAsRead' /\ NothingPassedOver' /\ LabelIsProven'
    BY <1>0 DEF PageInHand, RowsAsRead, NothingPassedOver, Ahead, LabelIsProven, script, labelHistory
  <1>4. DisagreementOnRecord'
    BY <1>0, <1>1 DEF DisagreementOnRecord, OnRecord, LabelsTypeOK, script, labelHistory
  <1> QED BY <1>2, <1>3, <1>4 DEF LabelsInv

(* Every step of the script and of the uploads keeps the invariant. *)
LEMMA LabelsStep == LabelsInv /\ [LabelsNext]_labelVars => LabelsInv'
  <1> SUFFICES ASSUME LabelsInv, [LabelsNext]_labelVars PROVE LabelsInv'
    OBVIOUS
  <1>1. CASE UNCHANGED labelVars
    BY <1>1 DEF LabelsInv, labelVars, labels, script, labelHistory, LabelsTypeOK, PageInHand, RowsAsRead,
                NothingPassedOver, Ahead, LabelIsProven, DisagreementOnRecord, OnRecord
  <1> QED BY <1>1, StartKeeps, ReadKeeps, SkipKeeps, UpdateKeeps, SyncKeeps, DeathKeeps, ReuploadKeeps,
             IngestKeeps DEF LabelsNext

(* What was not passed over is decided when the script is done. *)
LEMMA InvLabelsSound == LabelsInv => LabelsSound
  <1> SUFFICES ASSUME LabelsInv PROVE LabelsSound
    OBVIOUS
  <1>1. BackfillComplete
    BY DEF LabelsInv, NothingPassedOver, Ahead, BackfillComplete
  <1>2. DisagreementShown
    BY DEF LabelsInv, DisagreementOnRecord, OnRecord, DisagreementShown
  <1> QED BY <1>1, <1>2 DEF LabelsInv, LabelsSound

(* Whatever is uploaded while the backfill runs, and wherever it dies: a    *)
(* run that ends passed over no row it could decide, a label is the one of  *)
(* the upload or one its name proves, and stores that disagree are on       *)
(* record.                                                                  *)
THEOREM BackfillIsSound == LabelsSpec => []LabelsSound
  <1>1. LabelsSpec => []LabelsInv
    BY LabelsStart, LabelsStep, PTL DEF LabelsSpec
  <1> QED BY <1>1, InvLabelsSound, PTL
=============================================================================
