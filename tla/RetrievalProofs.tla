--------------------------- MODULE RetrievalProofs ---------------------------
(***************************************************************************)
(* Proofs about the way of a document's text: Extraction, for files of any *)
(* length, any caps and any number of attempts; ContextPages, for          *)
(* documents of any number and sizes of chunks and any page size;          *)
(* SearchFlow, for any workspaces, scores and number of requests; and      *)
(* Ranking, for any chunks and rows, limits, boosts and windows.           *)
(***************************************************************************)
EXTENDS Extraction, ContextPages, Ranking, SearchFlow, SequenceTheorems,
        FiniteSetTheorems, WellFoundedInduction, TLAPS

(* A non-empty set of naturals has a least element. *)
LEMMA LeastOf ==
    ASSUME NEW S \in SUBSET Nat, S # {}
    PROVE  \E x \in S : \A y \in S : x <= y
<1>1. PICK x \in S : \A y \in S : ~(<<y, x>> \in OpToRel(<, Nat))
  BY NatLessThanWellFounded, WFMin
<1>2. ASSUME NEW y \in S, y < x
      PROVE  FALSE
  <2>1. <<y, x>> \in {p \in Nat \X Nat : p[1] < p[2]}
    BY <1>2
  <2>2. <<y, x>> \in OpToRel(<, Nat)
    BY <2>1, Zenon DEF OpToRel
  <2> QED
    BY <1>1, <2>2
<1> QED
  BY <1>2

(* What holds of 0 and of each number after one of which it holds.          *)
LEMMA UpTo ==
    ASSUME NEW N \in Nat, NEW S \in SUBSET (0..N), 0 \in S,
           \A n \in 1..N : n - 1 \in S => n \in S
    PROVE  \A n \in 0..N : n \in S
<1> DEFINE missing == (0..N) \ S
<1>1. ASSUME missing # {}
      PROVE  FALSE
  <2>1. missing \in SUBSET Nat
    OBVIOUS
  <2>2. PICK n \in missing : \A m \in missing : n <= m
    BY <1>1, <2>1, LeastOf
  <2>3. n \in 1..N /\ n \notin S
    BY <2>2
  <2>4. n - 1 \in 0..N /\ ~(n <= n - 1)
    BY <2>3
  <2>5. n - 1 \in S
    BY <2>2, <2>4
  <2> QED
    BY <2>3, <2>5
<1> QED
  BY <1>1

(* A definition by steps, each from the value before it, defines a function. *)
FollowsSteps(k, N, V, first, step) ==
    k \in [0..N -> V] /\ k[0] = first /\ \A n \in 1..N : k[n] = step[<<n, k[n - 1]>>]

LEMMA StepsDefine ==
    ASSUME NEW N \in Nat, NEW V, NEW first \in V, NEW step \in [(1..N) \X V -> V]
    PROVE  \E k : FollowsSteps(k, N, V, first, step)
<1> DEFINE Defined(n) == \E k \in [0..n -> V] : /\ k[0] = first
                                                /\ \A m \in 1..n : k[m] = step[<<m, k[m - 1]>>]
<1>1. Defined(0)
  <2> DEFINE j == [m \in 0..0 |-> first]
  <2>1. j \in [0..0 -> V] /\ j[0] = first
    OBVIOUS
  <2>2. \A m \in 1..0 : j[m] = step[<<m, j[m - 1]>>]
    OBVIOUS
  <2> HIDE DEF j
  <2> QED
    BY <2>1, <2>2
<1>2. ASSUME NEW n \in 1..N, Defined(n - 1)
      PROVE  Defined(n)
  <2>1. PICK k \in [0..(n - 1) -> V] : /\ k[0] = first
                                       /\ \A m \in 1..(n - 1) : k[m] = step[<<m, k[m - 1]>>]
    BY <1>2
  <2> DEFINE j == [m \in 0..n |-> IF m = n THEN step[<<n, k[n - 1]>>] ELSE k[m]]
  <2>2. j \in [0..n -> V] /\ j[0] = first
    BY <2>1
  <2>3. ASSUME NEW m \in 1..n
        PROVE  j[m] = step[<<m, j[m - 1]>>]
    <3>1. m - 1 \in 0..n /\ m - 1 # n /\ j[m - 1] = k[m - 1]
      OBVIOUS
    <3>2. CASE m = n
      BY <3>1, <3>2
    <3>3. CASE m # n
      BY <2>1, <3>1, <3>3
    <3> QED
      BY <3>2, <3>3
  <2> HIDE DEF j
  <2> QED
    BY <2>2, <2>3
<1> HIDE DEF Defined
<1> DEFINE S == { n \in 0..N : Defined(n) }
<1>3. S \in SUBSET (0..N) /\ 0 \in S
  BY <1>1
<1>4. ASSUME NEW n \in 1..N, n - 1 \in S
      PROVE  n \in S
  BY <1>2, <1>4
<1>5. \A n \in 0..N : n \in S
  <2> HIDE DEF S
  <2> QED
    BY <1>3, <1>4, UpTo
<1>6. Defined(N)
  BY <1>5
<1> QED
  BY <1>6 DEF Defined, FollowsSteps

-----------------------------------------------------------------------------
(* The extraction: what its state looks like.                              *)

FailureKinds == {"storage", "unregistered", "corrupt", "cap", "unit", "no_text", "empty"}
Failure == [kind : FailureKinds, permanent : BOOLEAN]

FileShape ==
    [format : Formats, declared : ContentTypes, extension : Extensions, intact : BOOLEAN,
     gated : BOOLEAN, items : Seq(ItemKinds)]

ExtractionShape ==
    /\ ExtractionTypeOK
    /\ file \in FileShape
    /\ texts \in Seq(Nat) /\ charTotal \in Nat /\ unchecked \in Nat
    /\ failures \in Seq(Failure)

(* The failures that do not end the activity at once. *)
Passing == {"storage", "unit", "empty"}

(* Only a file that was checked is stored and read. *)
GateFirst ==
    /\ exStep = "gate" <=> gate = "none"
    /\ exStep = "rejected" <=> gate = "rejected"
    /\ exStep \in {"gate", "rejected"} =>
          attempt = 0 /\ extractor = NoSpec /\ texts = <<>> /\ failures = <<>> /\ staged = <<>>
    /\ gate = "accepted" =>
          /\ storedType = ResolveUploadSpec(file.declared, file.extension)
          /\ storedType \in Formats /\ SniffAccepts(file.format, storedType)

(* The extractor is the one of the type as it was stored. *)
ExtractorOfType ==
    /\ extractor # NoSpec => extractor = ResolveUploadSpec(storedType, file.extension)
    /\ exStep \in {"opening", "reading", "staged"} => extractor # NoSpec

(* An attempt follows only on failures that may pass, and only so often. *)
AttemptsExplained ==
    /\ \A i \in DOMAIN failures :
          /\ failures[i].kind \notin Passing => i = Len(failures) /\ exStep = "failed"
          /\ gate = "accepted" => failures[i].kind # "unregistered"
    /\ exStep = "failed" =>
          failures # <<>> /\ (attempt = MaxAttempts \/ failures[Len(failures)].permanent)
    /\ exStep = "queued" => attempt < MaxAttempts

FailureInv == ExtractionShape /\ GateFirst /\ ExtractorOfType /\ AttemptsExplained

(* The specification and name of every type. *)
LEMMA TypesResolve ==
    ASSUME NEW type \in ContentTypes, NEW extension \in Extensions
    PROVE  /\ ResolveUploadSpec(type, extension) \in Formats \cup {NoSpec}
           /\ type \in Formats => ResolveUploadSpec(type, extension) = type
<1>1. NoSpec \notin Formats
  BY DEF NoSpec, Formats
<1> QED
  BY <1>1 DEF ResolveUploadSpec, GetSpecForMime

(* The table of the extractors. *)
LEMMA ExtractorRows ==
    ASSUME NEW f \in Formats
    PROVE  /\ Extractors[f].cap \in {"none", "cells", "slides"}
           /\ Extractors[f].empty \in {"retried", "placeholder", "final"}
           /\ Extractors[f].empty = "placeholder" <=> f = "png"
BY DEF Formats, Extractors, Behaviour, DecodeText, ExtractHtml, ExtractEml, ExtractImage,
       ExtractJson, ExtractPdf, ExtractDocx, ExtractXlsx, ExtractPptx, ExtractEpub, ExtractRtf,
       ExtractOdt, ExtractSubtitle

LEMMA InitFile ==
    ASSUME ExtractionInit
    PROVE  file \in FileShape
<1>1. ItemLists \subseteq Seq(ItemKinds)
  <2>1. ASSUME NEW s \in ItemLists
        PROVE  s \in Seq(ItemKinds)
    <3>1. PICK n \in 0..FileItems : s \in [1..n -> ItemKinds]
      BY <2>1, Zenon DEF ItemLists, SeqOf
    <3>2. n \in Nat
      BY ExtractionAssumption
    <3> QED
      BY <3>1, <3>2
  <2> QED
    BY <2>1
<1>2. <<"heading", "short">> \in Seq(ItemKinds)
  BY DEF ItemKinds, UnitKinds
<1>3. Formats \subseteq ContentTypes /\ Formats \subseteq Extensions
  BY DEF ContentTypes, Extensions
<1>4. Agreeing \subseteq FileShape
  <2>1. ASSUME NEW a \in Agreeing
        PROVE  a \in FileShape
    <3>1. PICK f \in Formats, ok \in BOOLEAN, s \in ItemLists :
            a = [format |-> f, declared |-> f, extension |-> f, intact |-> ok, gated |-> TRUE,
                 items |-> s]
      BY <2>1 DEF Agreeing
    <3> QED
      BY <1>1, <1>3, <3>1 DEF FileShape
  <2> QED
    BY <2>1
<1>5. Disagreeing \subseteq FileShape
  BY <1>2 DEF Disagreeing, FileShape
<1> QED
  BY <1>4, <1>5 DEF ExtractionInit

LEMMA InitFailureInv ==
    ASSUME ExtractionInit
    PROVE  FailureInv
<1>1. /\ gate = "none" /\ storedType = "unknown" /\ exStep = "gate" /\ attempt = 0
      /\ extractor = NoSpec /\ position = 0 /\ texts = <<>> /\ charTotal = 0 /\ unchecked = 0
      /\ failures = <<>> /\ staged = <<>>
  BY DEF ExtractionInit
<1>2. file \in FileShape /\ Len(file.items) \in Nat
  BY InitFile DEF FileShape
<1>3. ExtractionShape
  BY <1>1, <1>2, ExtractionAssumption DEF ExtractionShape, ExtractionTypeOK, ContentTypes
<1>4. GateFirst /\ ExtractorOfType /\ AttemptsExplained
  BY <1>1 DEF GateFirst, ExtractorOfType, AttemptsExplained, NoSpec
<1> QED
  BY <1>3, <1>4 DEF FailureInv

LEMMA CheckUploadExplains ==
    ASSUME FailureInv, CheckUpload
    PROVE  FailureInv'
<1> DEFINE spec == ResolveUploadSpec(file.declared, file.extension)
<1>1. /\ exStep = "gate" /\ UNCHANGED <<file, attempt, extractor, position, texts, charTotal,
                                        unchecked, failures, staged>>
      /\ gate' \in {"bypassed", "accepted", "rejected"}
      /\ gate' = "accepted" => spec # NoSpec /\ SniffAccepts(file.format, spec)
      /\ storedType' = IF gate' = "accepted" THEN spec ELSE file.declared
      /\ exStep' = IF gate' = "rejected" THEN "rejected" ELSE "queued"
  BY DEF CheckUpload, activityVars
<1>2. file.declared \in ContentTypes /\ file.extension \in Extensions
  BY DEF FailureInv, ExtractionShape, FileShape
<1>3. spec \in Formats \cup {NoSpec} /\ Formats \subseteq ContentTypes
  BY <1>2, TypesResolve DEF ContentTypes
<1> HIDE DEF spec
<1>4. attempt = 0 /\ extractor = NoSpec /\ texts = <<>> /\ failures = <<>> /\ staged = <<>>
  BY <1>1 DEF FailureInv, GateFirst
<1>5. ExtractionShape'
  BY <1>1, <1>2, <1>3 DEF FailureInv, ExtractionShape, ExtractionTypeOK
<1>6. GateFirst'
  BY <1>1, <1>3, <1>4 DEF GateFirst, spec
<1>7. ExtractorOfType'
  BY <1>1, <1>4 DEF ExtractorOfType
<1>8. AttemptsExplained'
  <2>1. attempt < MaxAttempts
    BY <1>4, ExtractionAssumption
  <2> QED
    BY <1>1, <1>4, <2>1 DEF AttemptsExplained
<1> QED
  BY <1>5, <1>6, <1>7, <1>8 DEF FailureInv

(* An attempt that fails is the last, or is followed by another. *)
LEMMA FailExplains ==
    ASSUME FailureInv, NEW kind \in FailureKinds, NEW permanent \in BOOLEAN,
           Fail(kind, permanent), exStep \in {"fetching", "opening", "reading"},
           kind \notin Passing => permanent,
           gate = "accepted" => kind # "unregistered"
    PROVE  FailureInv'
<1> DEFINE failure == [kind |-> kind, permanent |-> permanent]
           n == Len(failures)
<1>1. /\ failures' = Append(failures, failure)
      /\ exStep' = IF permanent \/ attempt = MaxAttempts THEN "failed" ELSE "queued"
      /\ UNCHANGED <<file, gate, storedType, attempt, extractor, position, texts, charTotal,
                     unchecked, staged>>
  BY DEF Fail
<1>2. failure \in Failure /\ failure.kind = kind /\ failure.permanent = permanent
  BY DEF Failure
<1> HIDE DEF failure
<1>3. failures \in Seq(Failure) /\ n \in Nat
  BY DEF FailureInv, ExtractionShape
<1>4. /\ failures' \in Seq(Failure) /\ failures' # <<>> /\ Len(failures') = n + 1
      /\ \A i \in 1..n : failures'[i] = failures[i]
      /\ failures'[n + 1] = failure
  BY <1>1, <1>2, <1>3, AppendProperties
<1>5. ExtractionShape'
  BY <1>1, <1>4 DEF FailureInv, ExtractionShape, ExtractionTypeOK
<1>6. GateFirst' /\ ExtractorOfType'
  BY <1>1 DEF FailureInv, GateFirst, ExtractorOfType
<1>7. \A i \in 1..n : failures[i].kind \in Passing
                      /\ (gate = "accepted" => failures[i].kind # "unregistered")
  BY <1>3 DEF FailureInv, AttemptsExplained
<1>8. attempt < MaxAttempts \/ attempt = MaxAttempts
  BY ExtractionAssumption DEF FailureInv, ExtractionShape, ExtractionTypeOK
<1>9. AttemptsExplained'
  <2> HIDE DEF n
  <2>1. DOMAIN failures' = 1..(n + 1)
    BY <1>3, <1>4
  <2>2. ASSUME NEW i \in 1..(n + 1)
        PROVE  /\ failures'[i].kind \notin Passing => i = n + 1 /\ permanent
               /\ gate = "accepted" => failures'[i].kind # "unregistered"
    <3>1. i \in 1..n \/ i = n + 1
      BY <1>3
    <3> QED
      BY <1>2, <1>4, <1>7, <3>1
  <2> QED
    BY <1>1, <1>2, <1>4, <1>8, <2>1, <2>2 DEF AttemptsExplained
<1> QED
  BY <1>5, <1>6, <1>9 DEF FailureInv

LEMMA UploadFailuresExplain ==
    ASSUME FailureInv, StorageFails \/ Unregistered \/ OpenFails \/ CapExceeded \/ UnitRaises
    PROVE  FailureInv'
<1>1. CASE StorageFails
  BY <1>1, FailExplains DEF StorageFails, FailureKinds, Passing
<1>2. CASE Unregistered
  <2>1. ResolveUploadSpec(storedType, file.extension) = NoSpec
    BY <1>2 DEF Unregistered
  <2>2. gate # "accepted"
    <3>1. file.extension \in Extensions /\ storedType \in ContentTypes
      BY DEF FailureInv, ExtractionShape, ExtractionTypeOK, FileShape
    <3>2. NoSpec \notin Formats
      BY DEF NoSpec, Formats
    <3> QED
      BY <2>1, <3>1, <3>2, TypesResolve DEF FailureInv, GateFirst
  <2> QED
    BY <1>2, <2>2, FailExplains DEF Unregistered, FailureKinds, Passing
<1>3. CASE OpenFails
  BY <1>3, FailExplains DEF OpenFails, FailureKinds, Passing
<1>4. CASE CapExceeded
  BY <1>4, FailExplains DEF CapExceeded, MoreItems, FailureKinds, Passing
<1>5. CASE UnitRaises
  BY <1>5, FailExplains DEF UnitRaises, MoreItems, FailureKinds, Passing
<1> QED
  BY <1>1, <1>2, <1>3, <1>4, <1>5

(* A step of the activity that fails in nothing. *)
LEMMA StepExplains ==
    ASSUME FailureInv, exStep' \in {"queued", "fetching", "opening", "reading", "staged"},
           exStep \notin {"gate", "rejected", "failed"},
           UNCHANGED <<file, gate, storedType, failures>>,
           attempt' \in 0..MaxAttempts, exStep' = "queued" => attempt' < MaxAttempts,
           position' \in 0..Len(file.items),
           extractor' \in Formats \cup {NoSpec},
           extractor' # NoSpec => extractor' = ResolveUploadSpec(storedType, file.extension),
           exStep' \in {"opening", "reading", "staged"} => extractor' # NoSpec,
           texts' \in Seq(Nat), charTotal' \in Nat, unchecked' \in Nat
    PROVE  FailureInv'
<1>1. ExtractionShape'
  BY DEF FailureInv, ExtractionShape, ExtractionTypeOK
<1>2. GateFirst' /\ ExtractorOfType' /\ AttemptsExplained'
  BY DEF FailureInv, GateFirst, ExtractorOfType, AttemptsExplained
<1> QED
  BY <1>1, <1>2 DEF FailureInv

LEMMA AttemptExplains ==
    ASSUME FailureInv, BeginAttempt \/ Resolve \/ Open \/ ReportLost
    PROVE  FailureInv'
<1>1. /\ attempt \in 0..MaxAttempts /\ MaxAttempts \in Nat /\ position \in 0..Len(file.items)
      /\ extractor \in Formats \cup {NoSpec} /\ texts \in Seq(Nat) /\ Len(file.items) \in Nat
      /\ charTotal \in Nat /\ unchecked \in Nat
      /\ storedType \in ContentTypes /\ file.extension \in Extensions
  BY ExtractionAssumption DEF FailureInv, ExtractionShape, ExtractionTypeOK, FileShape
<1>2. extractor # NoSpec => extractor = ResolveUploadSpec(storedType, file.extension)
  BY DEF FailureInv, ExtractorOfType
<1>3. exStep \in {"opening", "reading", "staged"} => extractor # NoSpec
  BY DEF FailureInv, ExtractorOfType
<1>4. exStep = "queued" => attempt < MaxAttempts
  BY DEF FailureInv, AttemptsExplained
<1>5. CASE BeginAttempt
  BY <1>1, <1>4, <1>5, StepExplains DEF BeginAttempt
<1>6. CASE Resolve
  BY <1>1, <1>6, StepExplains, TypesResolve DEF Resolve
<1>7. CASE Open
  BY <1>1, <1>2, <1>3, <1>7, StepExplains DEF Open, activityVars
<1>8. CASE ReportLost
  BY <1>1, <1>2, <1>8, StepExplains DEF ReportLost, activityVars
<1> QED
  BY <1>5, <1>6, <1>7, <1>8

(* The item at hand is one of the file. *)
LEMMA ItemAtHand ==
    ASSUME file \in FileShape, position \in 0..Len(file.items), position < Len(file.items)
    PROVE  /\ Item \in ItemKinds /\ position + 1 \in 1..Len(file.items)
           /\ Item # "heading" => Size(Item) \in Nat
<1>1. file.items \in Seq(ItemKinds)
  BY DEF FileShape
<1>2. Item \in ItemKinds /\ position + 1 \in 1..Len(file.items)
  BY <1>1 DEF Item
<1>3. \A u \in UnitKinds : Size(u) \in Nat
  BY DEF UnitKinds, Size
<1> QED
  BY <1>2, <1>3 DEF ItemKinds

LEMMA ReadExplains ==
    ASSUME FailureInv, ReadHeading \/ ReadUnit
    PROVE  FailureInv'
<1>1. /\ attempt \in 0..MaxAttempts /\ extractor \in Formats \cup {NoSpec} /\ texts \in Seq(Nat)
      /\ charTotal \in Nat /\ unchecked \in Nat /\ position \in 0..Len(file.items)
      /\ file \in FileShape
  BY DEF FailureInv, ExtractionShape, ExtractionTypeOK
<1>2. /\ exStep = "reading" /\ position < Len(file.items)
      /\ UNCHANGED <<file, gate, storedType, exStep, attempt, extractor, failures, staged>>
      /\ position' = position + 1
  BY DEF ReadHeading, ReadUnit, MoreItems
<1> DEFINE longer == Append(texts, position + 1)
<1>4. longer \in Seq(Nat)
  BY <1>1
<1> HIDE DEF longer
<1>5. texts' \in Seq(Nat) /\ charTotal' \in Nat /\ unchecked' \in Nat
  <2>1. CASE ReadHeading
    <3>1. \/ /\ texts' = longer
             /\ charTotal' = charTotal + HeadingSize /\ unchecked' = unchecked + HeadingSize
          \/ texts' = texts /\ charTotal' = charTotal /\ unchecked' = unchecked
      BY <2>1 DEF ReadHeading, longer
    <3> QED
      BY <1>1, <1>4, <3>1 DEF HeadingSize
  <2>2. CASE ReadUnit
    <3>1. /\ Item # "heading"
          /\ \/ /\ texts' = longer
                /\ charTotal' = charTotal + Size(Item) /\ unchecked' = 0
             \/ texts' = texts /\ charTotal' = charTotal /\ unchecked' = unchecked
      BY <2>2 DEF ReadUnit, longer
    <3>2. Size(Item) \in Nat
      BY <1>1, <1>2, <3>1, ItemAtHand
    <3> QED
      BY <1>1, <1>4, <3>1, <3>2
  <2> QED
    BY <2>1, <2>2
<1>6. /\ extractor # NoSpec
      /\ extractor = ResolveUploadSpec(storedType, file.extension)
  BY <1>2 DEF FailureInv, ExtractorOfType
<1>7. position' \in 0..Len(file.items)
  BY <1>1, <1>2
<1> QED
  BY <1>1, <1>2, <1>5, <1>6, <1>7, StepExplains

LEMMA FinishExplains ==
    ASSUME FailureInv, Finish
    PROVE  FailureInv'
<1>1. exStep = "reading"
  BY DEF Finish
<1>2. \/ Fail("no_text", TRUE) \/ Fail("empty", FALSE)
      \/ /\ exStep' = "staged"
         /\ UNCHANGED <<file, gate, storedType, attempt, extractor, position, texts,
                        charTotal, unchecked, failures>>
  BY DEF Finish
<1>3. CASE Fail("no_text", TRUE) \/ Fail("empty", FALSE)
  BY <1>1, <1>3, FailExplains DEF FailureKinds, Passing
<1>4. CASE /\ exStep' = "staged"
           /\ UNCHANGED <<file, gate, storedType, attempt, extractor, position, texts,
                          charTotal, unchecked, failures>>
  <2>1. /\ attempt \in 0..MaxAttempts /\ extractor \in Formats \cup {NoSpec}
        /\ position \in 0..Len(file.items)
        /\ texts \in Seq(Nat) /\ charTotal \in Nat /\ unchecked \in Nat
    BY DEF FailureInv, ExtractionShape, ExtractionTypeOK
  <2>2. extractor # NoSpec /\ extractor = ResolveUploadSpec(storedType, file.extension)
    BY <1>1 DEF FailureInv, ExtractorOfType
  <2> QED
    BY <1>1, <1>4, <2>1, <2>2, StepExplains
<1> QED
  BY <1>2, <1>3, <1>4

LEMMA FailureInvAlways ==
    ExtractionSpec => []FailureInv
<1>1. FailureInv /\ [ExtractionNext]_extractionVars => FailureInv'
  <2>1. ASSUME FailureInv, UNCHANGED extractionVars
        PROVE  FailureInv'
    BY <2>1 DEF extractionVars, FailureInv, ExtractionShape, ExtractionTypeOK, GateFirst,
                ExtractorOfType, AttemptsExplained
  <2> QED
    BY <2>1, CheckUploadExplains, UploadFailuresExplain, AttemptExplains, ReadExplains,
       FinishExplains
    DEF ExtractionNext
<1> QED
  BY <1>1, InitFailureInv, PTL DEF ExtractionSpec

(* A failure that the bytes decide costs one attempt, one that may pass is *)
(* tried as often as the retry policy allows, and a file that the API      *)
(* accepted finds the extractor of the type it was checked as              *)
(* (extract_text, _resolve_extractor), whatever fails in between.          *)
THEOREM FailuresAreExplained ==
    ExtractionSpec => []FailuresExplained
<1>1. ASSUME FailureInv
      PROVE  FailuresExplained
  <2>1. FailuresClassified
    <3>1. \A i \in DOMAIN failures :
             failures[i].kind \in {"corrupt", "cap", "unregistered", "no_text"}
                => i = Len(failures) /\ exStep = "failed"
      BY <1>1 DEF FailureInv, AttemptsExplained, Passing
    <3> QED
      BY <1>1, <3>1 DEF FailureInv, AttemptsExplained, FailuresClassified, Last
  <2>2. ASSUME gate = "accepted", extractor # NoSpec
        PROVE  extractor = ResolveUploadSpec(file.declared, file.extension)
    <3>1. file.extension \in Extensions /\ storedType \in ContentTypes
      BY <1>1 DEF FailureInv, ExtractionShape, ExtractionTypeOK, FileShape
    <3> QED
      BY <1>1, <2>2, <3>1, TypesResolve DEF FailureInv, GateFirst, ExtractorOfType
  <2> QED
    BY <1>1, <2>1, <2>2
    DEF FailureInv, AttemptsExplained, AcceptedHasExtractor, FailuresExplained
<1> QED
  BY <1>1, FailureInvAlways, PTL

-----------------------------------------------------------------------------
(* The text of an attempt.                                                 *)

Ascending(s) == \A i, j \in DOMAIN s : i < j => s[i] < s[j]

Has(s, p) == \E i \in DOMAIN s : s[i] = p

(* An element that is greater than the others is added at the end. *)
LEMMA AppendAscends ==
    ASSUME NEW s \in Seq(Nat), Ascending(s), NEW x \in Nat, \A i \in DOMAIN s : s[i] < x
    PROVE  /\ Append(s, x) \in Seq(Nat) /\ Ascending(Append(s, x))
           /\ \A p : Has(Append(s, x), p) <=> Has(s, p) \/ p = x
<1> DEFINE longer == Append(s, x)
           n == Len(s)
<1>1. /\ longer \in Seq(Nat) /\ n \in Nat /\ DOMAIN s = 1..n /\ DOMAIN longer = 1..(n + 1)
      /\ \A i \in 1..n : longer[i] = s[i] /\ s[i] \in Nat
      /\ longer[n + 1] = x
  OBVIOUS
<1> HIDE DEF longer, n
<1>2. Ascending(longer)
  <2>1. ASSUME NEW i \in 1..(n + 1), NEW j \in 1..(n + 1), i < j
        PROVE  longer[i] < longer[j]
    <3>1. i \in 1..n /\ (j \in 1..n \/ j = n + 1)
      BY <1>1, <2>1
    <3> QED
      BY <1>1, <2>1, <3>1 DEF Ascending
  <2> QED
    BY <1>1, <2>1 DEF Ascending
<1>3. ASSUME NEW p
      PROVE  Has(longer, p) <=> Has(s, p) \/ p = x
  <2>1. 1..(n + 1) = (1..n) \cup {n + 1}
    BY <1>1
  <2> QED
    BY <1>1, <2>1 DEF Has
<1> QED
  BY <1>1, <1>2, <1>3 DEF longer

(* Removing the NULs removes nothing else and keeps the order. *)
LEMMA StrippedKeeps ==
    ASSUME NEW t \in Seq(Nat), Ascending(t)
    PROVE  /\ Stripped(t) \in Seq(Nat) /\ Ascending(Stripped(t))
           /\ \A p : Has(Stripped(t), p) <=> Has(t, p) /\ PieceKind(p) # "nul"
<1> DEFINE N == Len(t)
           After(k, n) == IF n = 0 THEN <<>>
                          ELSE IF PieceKind(t[n]) = "nul" THEN k[n - 1] ELSE Append(k[n - 1], t[n])
           Is(k) == k = [n \in 0..N |-> After(k, n)]
           K == CHOOSE k : Is(k)
<1>1. Stripped(t) = K[N]
  BY DEF Stripped
<1>2. N \in Nat /\ DOMAIN t = 1..N /\ \A n \in 1..N : t[n] \in Nat
  OBVIOUS
<1> HIDE DEF N
<1>3. \E k : Is(k)
  <2> DEFINE step == [q \in (1..N) \X Seq(Nat) |->
                        IF PieceKind(t[q[1]]) = "nul" THEN q[2] ELSE Append(q[2], t[q[1]])]
  <2>1. step \in [(1..N) \X Seq(Nat) -> Seq(Nat)]
    <3>1. ASSUME NEW q \in (1..N) \X Seq(Nat)
          PROVE  (IF PieceKind(t[q[1]]) = "nul" THEN q[2] ELSE Append(q[2], t[q[1]])) \in Seq(Nat)
      <4>1. q[2] \in Seq(Nat) /\ t[q[1]] \in Nat
        BY <1>2, <3>1
      <4> QED
        BY <4>1
    <3> QED
      BY <3>1
  <2>2. \A n \in 1..N, s \in Seq(Nat) :
           step[<<n, s>>] = IF PieceKind(t[n]) = "nul" THEN s ELSE Append(s, t[n])
    OBVIOUS
  <2> HIDE DEF step
  <2> DEFINE V == Seq(Nat)
             none == <<>>
  <2>3. none \in V
    OBVIOUS
  <2> HIDE DEF V, none
  <2>4. N \in Nat /\ step \in [(1..N) \X V -> V]
    BY <1>2, <2>1 DEF V
  <2>5. PICK k : FollowsSteps(k, N, V, none, step)
    BY <2>3, <2>4, StepsDefine
  <2> USE DEF V, none
  <2>6. /\ k \in [0..N -> Seq(Nat)] /\ k[0] = <<>>
        /\ \A n \in 1..N : k[n] = step[<<n, k[n - 1]>>]
    BY <2>5 DEF FollowsSteps
  <2>7. ASSUME NEW n \in 0..N
        PROVE  k[n] = After(k, n)
    <3>1. CASE n = 0
      BY <2>6, <3>1
    <3>2. CASE n # 0
      <4>1. n \in 1..N /\ n - 1 \in 0..N
        BY <1>2, <3>2
      <4>2. k[n - 1] \in Seq(Nat)
        BY <2>6, <4>1
      <4> QED
        BY <2>2, <2>6, <3>2, <4>1, <4>2
    <3> QED
      BY <3>1, <3>2
  <2> HIDE DEF After
  <2>8. k = [n \in 0..N |-> k[n]]
    BY <2>6
  <2>9. Is(k)
    BY <2>7, <2>8
  <2> QED
    BY <2>9
<1>4. Is(K)
  <2> HIDE DEF Is
  <2> QED
    BY <1>3
<1> HIDE DEF K
<1>5. /\ K[0] = <<>>
      /\ \A n \in 1..N : K[n] = IF PieceKind(t[n]) = "nul" THEN K[n - 1] ELSE Append(K[n - 1], t[n])
  <2> HIDE DEF After
  <2>1. \A n \in 0..N : K[n] = After(K, n)
    BY <1>4
  <2> USE DEF After
  <2> QED
    BY <1>2, <2>1
<1> DEFINE Good(n) == /\ K[n] \in Seq(Nat) /\ Ascending(K[n])
                      /\ \A p : Has(K[n], p) <=> (\E i \in 1..n : t[i] = p) /\ PieceKind(p) # "nul"
           S == { n \in 0..N : Good(n) }
<1>6. Good(0)
  BY <1>5 DEF Ascending, Has
<1>7. ASSUME NEW n \in 1..N, Good(n - 1)
      PROVE  Good(n)
  <2>1. 1..n = (1..(n - 1)) \cup {n} /\ t[n] \in Nat
    BY <1>2
  <2>2. CASE PieceKind(t[n]) = "nul"
    BY <1>5, <1>7, <2>1, <2>2
  <2>3. CASE PieceKind(t[n]) # "nul"
    <3>1. \A i \in DOMAIN K[n - 1] : K[n - 1][i] < t[n]
      <4>1. ASSUME NEW i \in DOMAIN K[n - 1]
            PROVE  K[n - 1][i] < t[n]
        <5>1. Has(K[n - 1], K[n - 1][i])
          BY DEF Has
        <5>2. PICK j \in 1..(n - 1) : t[j] = K[n - 1][i]
          BY <1>7, <5>1
        <5>3. j \in DOMAIN t /\ n \in DOMAIN t /\ j < n
          BY <1>2, <5>2
        <5> QED
          BY <5>2, <5>3 DEF Ascending
      <4> QED
        BY <4>1
    <3>2. K[n] = Append(K[n - 1], t[n])
      BY <1>5, <2>3
    <3>3. /\ K[n] \in Seq(Nat) /\ Ascending(K[n])
          /\ \A p : Has(K[n], p) <=> Has(K[n - 1], p) \/ p = t[n]
      <4> DEFINE s == K[n - 1]
                 x == t[n]
      <4>1. /\ s \in Seq(Nat) /\ Ascending(s) /\ x \in Nat /\ \A i \in DOMAIN s : s[i] < x
            /\ K[n] = Append(s, x)
        BY <1>7, <2>1, <3>1, <3>2
      <4> HIDE DEF s, x
      <4>2. /\ Append(s, x) \in Seq(Nat) /\ Ascending(Append(s, x))
            /\ \A p : Has(Append(s, x), p) <=> Has(s, p) \/ p = x
        BY <4>1, AppendAscends
      <4> QED
        BY <4>1, <4>2 DEF s, x
    <3> QED
      BY <1>7, <2>1, <2>3, <3>3
  <2> QED
    BY <2>2, <2>3
<1> HIDE DEF Good
<1>8. S \in SUBSET (0..N) /\ 0 \in S /\ \A n \in 1..N : n - 1 \in S => n \in S
  BY <1>2, <1>6, <1>7
<1>9. \A n \in 0..N : n \in S
  <2> HIDE DEF S
  <2> QED
    BY <1>2, <1>8, UpTo
<1>10. Good(N)
  BY <1>2, <1>9
<1> QED
  BY <1>1, <1>2, <1>10 DEF Good, Has

(* What an attempt has read of the file so far: each item with a text, once *)
(* and in order.                                                           *)
Collected ==
    /\ exStep \in {"fetching", "opening"} =>
          position = 0 /\ texts = <<>> /\ charTotal = 0 /\ unchecked = 0
    /\ Ascending(texts)
    /\ \A p : Has(texts, p) => p \in 1..position /\ file.items[p] # "blank"
    /\ \A p \in 1..position : file.items[p] \notin {"heading", "blank"} => Has(texts, p)

TextInv == FailureInv /\ Collected /\ CapHolds /\ StagedIsWhole

LEMMA InitTextInv ==
    ASSUME ExtractionInit
    PROVE  TextInv
<1>1. gate = "none" /\ extractor = NoSpec /\ position = 0 /\ texts = <<>> /\ charTotal = 0
      /\ unchecked = 0 /\ staged = <<>>
  BY DEF ExtractionInit
<1>2. Collected /\ CapHolds /\ StagedIsWhole
  BY <1>1 DEF Collected, Ascending, Has, CapHolds, StagedIsWhole
<1> QED
  BY <1>2, InitFailureInv DEF TextInv

(* The same text of the same file is as whole as before. *)
LEMMA StagedUnmoved ==
    ASSUME StagedIsWhole, UNCHANGED <<file, gate, staged>>
    PROVE  StagedIsWhole'
BY DEF StagedIsWhole, PieceKind, Placeholder

(* A step that reads nothing. *)
LEMMA NothingRead ==
    ASSUME TextInv, UNCHANGED <<file, extractor, position, texts, charTotal, unchecked>>,
           exStep' \in {"fetching", "opening"} => exStep \in {"fetching", "opening"}
    PROVE  Collected' /\ CapHolds'
<1>1. Collected'
  BY DEF TextInv, Collected, Has, Ascending
<1> QED
  BY <1>1 DEF TextInv, CapHolds, Cap

LEMMA FailKeepsText ==
    ASSUME TextInv, NEW kind, NEW permanent, Fail(kind, permanent)
    PROVE  Collected' /\ CapHolds' /\ StagedIsWhole'
<1>1. UNCHANGED <<file, gate, extractor, position, texts, charTotal, unchecked, staged>>
      /\ exStep' \in {"failed", "queued"}
  BY DEF Fail
<1> QED
  BY <1>1, NothingRead, StagedUnmoved DEF TextInv

LEMMA AttemptKeepsText ==
    ASSUME TextInv, CheckUpload \/ BeginAttempt \/ Resolve \/ Open \/ ReportLost
    PROVE  Collected' /\ CapHolds' /\ StagedIsWhole'
<1>1. CASE CheckUpload
  <2>1. /\ UNCHANGED <<file, extractor, position, texts, charTotal, unchecked, staged>>
        /\ exStep = "gate" /\ exStep' \in {"rejected", "queued"}
    BY <1>1 DEF CheckUpload, activityVars
  <2>2. staged = <<>>
    BY <2>1 DEF TextInv, FailureInv, GateFirst
  <2>3. StagedIsWhole'
    BY <2>1, <2>2 DEF StagedIsWhole
  <2> QED
    BY <2>1, <2>3, NothingRead
<1>2. CASE BeginAttempt
  <2>1. /\ extractor' = NoSpec /\ position' = 0 /\ texts' = <<>> /\ charTotal' = 0
        /\ unchecked' = 0 /\ UNCHANGED <<file, gate, staged>>
    BY <1>2 DEF BeginAttempt
  <2>2. Collected' /\ CapHolds'
    BY <2>1 DEF Collected, CapHolds, Ascending, Has
  <2> QED
    BY <2>1, <2>2, StagedUnmoved DEF TextInv
<1>3. CASE Resolve
  <2>1. /\ exStep = "fetching" /\ exStep' = "opening"
        /\ UNCHANGED <<file, gate, position, texts, charTotal, unchecked, staged>>
    BY <1>3 DEF Resolve
  <2>2. Collected' /\ charTotal = 0 /\ unchecked = 0
    BY <2>1 DEF TextInv, Collected, Ascending, Has
  <2>3. CapHolds'
    BY <2>1, <2>2, ExtractionAssumption DEF CapHolds
  <2> QED
    BY <2>1, <2>2, <2>3, StagedUnmoved DEF TextInv
<1>4. CASE Open \/ ReportLost
  <2>1. /\ UNCHANGED <<file, gate, extractor, position, texts, charTotal, unchecked, staged>>
        /\ exStep' \in {"reading", "queued"}
    BY <1>4 DEF Open, ReportLost, activityVars
  <2> QED
    BY <2>1, NothingRead, StagedUnmoved DEF TextInv
<1> QED
  BY <1>1, <1>2, <1>3, <1>4

LEMMA ReadKeepsText ==
    ASSUME TextInv, ReadHeading \/ ReadUnit
    PROVE  Collected' /\ CapHolds' /\ StagedIsWhole'
<1> DEFINE next == position + 1
           longer == Append(texts, next)
<1>1. /\ texts \in Seq(Nat) /\ charTotal \in Nat /\ unchecked \in Nat
      /\ position \in Nat /\ file \in FileShape /\ position \in 0..Len(file.items)
      /\ Ascending(texts) /\ Collected /\ CapHolds /\ extractor \in Formats \cup {NoSpec}
  BY DEF TextInv, FailureInv, ExtractionShape, ExtractionTypeOK, Collected
<1>2. /\ exStep = "reading" /\ position < Len(file.items) /\ position' = next
      /\ UNCHANGED <<file, gate, exStep, extractor, staged>>
  BY DEF ReadHeading, ReadUnit, MoreItems
<1>3. /\ next \in Nat /\ 1..next = (1..position) \cup {next} /\ next \notin 1..position
      /\ Item = file.items[next]
  BY <1>1 DEF Item
<1>4. \A i \in DOMAIN texts : texts[i] < next
  <2>1. \A i \in DOMAIN texts : texts[i] \in 1..position
    BY <1>1 DEF Collected, Has
  <2> QED
    BY <1>1, <2>1
<1>5. \/ texts' = texts /\ Item \in {"heading", "blank"}
      \/ texts' = longer /\ Item # "blank"
  BY DEF ReadHeading, ReadUnit
<1> HIDE DEF next
<1>6. Ascending(longer) /\ \A p : Has(longer, p) <=> Has(texts, p) \/ p = next
  BY <1>1, <1>3, <1>4, AppendAscends
<1> HIDE DEF longer
<1>7. Collected'
  <2>1. \A p : Has(texts, p) => p \in 1..position /\ file.items[p] # "blank"
    BY <1>1 DEF Collected
  <2>2. \A p \in 1..position : file.items[p] \notin {"heading", "blank"} => Has(texts, p)
    BY <1>1 DEF Collected
  <2>3. Ascending(texts') /\ exStep' = "reading"
    BY <1>1, <1>2, <1>5, <1>6
  <2>4. ASSUME NEW p, Has(texts', p)
        PROVE  p \in 1..next /\ file.items[p] # "blank"
    BY <1>3, <1>5, <1>6, <2>1, <2>4
  <2>5. ASSUME NEW p \in 1..next, file.items[p] \notin {"heading", "blank"}
        PROVE  Has(texts', p)
    BY <1>3, <1>5, <1>6, <2>2, <2>5
  <2>6. /\ \A p : Has(texts', p) => p \in 1..next /\ file.items[p] # "blank"
        /\ \A p \in 1..next : file.items[p] \notin {"heading", "blank"} => Has(texts', p)
    BY <2>4, <2>5
  <2> QED
    BY <1>2, <2>3, <2>6 DEF Collected, Has, Ascending
<1>8. CapHolds'
  <2>1. SUFFICES ASSUME extractor # NoSpec, Cap # "none"
                 PROVE  charTotal' - unchecked' <= TextCap
    BY <1>2 DEF CapHolds, Cap
  <2>2. charTotal - unchecked <= TextCap /\ Cap \in {"cells", "slides"}
    BY <1>1, <2>1, ExtractorRows DEF CapHolds, Cap
  <2>3. CASE ReadHeading
    <3>1. \/ charTotal' = charTotal + 1 /\ unchecked' = unchecked + 1
          \/ charTotal' = charTotal /\ unchecked' = unchecked
      BY <2>3 DEF ReadHeading, HeadingSize
    <3> QED
      BY <1>1, <2>2, <3>1
  <2>4. CASE ReadUnit
    <3>1. /\ Item # "heading" /\ (Compared => charTotal + Size(Item) <= TextCap)
          /\ \/ Item = "blank" /\ charTotal' = charTotal /\ unchecked' = unchecked
             \/ Item # "blank" /\ charTotal' = charTotal + Size(Item) /\ unchecked' = 0
      BY <2>4 DEF ReadUnit
    <3>2. Item # "blank" => Compared
      BY <2>2, <3>1 DEF Compared
    <3>3. Size(Item) \in Nat
      BY <1>1, <1>2, <3>1, ItemAtHand
    <3>4. CASE Item = "blank"
      BY <1>1, <2>2, <3>1, <3>4
    <3>5. CASE Item # "blank"
      <4>1. charTotal' = charTotal + Size(Item) /\ unchecked' = 0
        BY <3>1, <3>5
      <4>2. charTotal + Size(Item) <= TextCap
        BY <3>1, <3>2, <3>5
      <4> QED
        BY <1>1, <2>2, <3>3, <4>1, <4>2
    <3> QED
      BY <3>4, <3>5
  <2> QED
    BY <2>3, <2>4
<1> QED
  BY <1>2, <1>7, <1>8, StagedUnmoved DEF TextInv

(* What is staged of a checked upload is its whole text. *)
LEMMA FinishStagesAll ==
    ASSUME TextInv, Finish, exStep' = "staged", gate = "accepted",
           staged' = Stripped(texts)
    PROVE  StagedIsWhole'
<1>1. /\ texts \in Seq(Nat) /\ Ascending(texts) /\ Collected /\ file \in FileShape
      /\ position = Len(file.items) /\ file' = file /\ gate' = gate
  BY DEF TextInv, FailureInv, ExtractionShape, Collected, Finish, Fail
<1>2. /\ staged' \in Seq(Nat) /\ Ascending(staged')
      /\ \A p : Has(staged', p) <=> Has(texts, p) /\ PieceKind(p) # "nul"
  BY <1>1, StrippedKeeps
<1>3. DOMAIN file.items = 1..position /\ \A p \in 1..position : file.items[p] \in ItemKinds
  BY <1>1 DEF FileShape
<1>4. \A p \in 1..position : PieceKind(p) = file.items[p]
  BY DEF PieceKind
<1>5. ASSUME NEW p
      PROVE  p \in ToSet(staged') /\ PieceKind(p) # "heading"
                <=> p \in DOMAIN file.items /\ Readable(file.items[p])
  <2>1. p \in ToSet(staged') <=> Has(staged', p)
    BY DEF ToSet, Has
  <2>2. Has(texts, p) => p \in 1..position /\ file.items[p] # "blank"
    BY <1>1 DEF Collected
  <2>3. p \in 1..position /\ file.items[p] \notin {"heading", "blank"} => Has(texts, p)
    BY <1>1 DEF Collected
  <2> QED
    BY <1>2, <1>3, <1>4, <2>1, <2>2, <2>3 DEF Readable, ItemKinds, UnitKinds
<1>6. { p \in ToSet(staged') : PieceKind(p) # "heading" }
         = { p \in DOMAIN file.items : Readable(file.items[p]) }
  BY <1>5
<1> QED
  BY <1>1, <1>2, <1>6 DEF StagedIsWhole, Ascending, PieceKind

(* Only an image is answered for with the placeholder. *)
LEMMA FinishStagesPlaceholder ==
    ASSUME TextInv, exStep = "reading", gate = "accepted",
           Extractors[extractor].empty = "placeholder"
    PROVE  file.format = "png" /\ Stripped(Placeholder) = Placeholder
<1>1. extractor \in Formats
  BY DEF TextInv, FailureInv, ExtractionShape, ExtractionTypeOK, ExtractorOfType
<1>2. extractor = "png"
  BY <1>1, ExtractorRows
<1>3. storedType = "png" /\ SniffAccepts(file.format, "png") /\ file.format \in Formats
  <2>1. file \in FileShape /\ storedType \in ContentTypes
    BY DEF TextInv, FailureInv, ExtractionShape, ExtractionTypeOK
  <2>2. extractor = ResolveUploadSpec(storedType, file.extension) /\ storedType \in Formats
        /\ SniffAccepts(file.format, storedType)
    BY <1>1, <1>2 DEF TextInv, FailureInv, ExtractorOfType, GateFirst, NoSpec
  <2>3. file.extension \in Extensions /\ file.format \in Formats
    BY <2>1 DEF FileShape
  <2> QED
    BY <1>2, <2>1, <2>2, <2>3, TypesResolve
<1>4. file.format = "png"
  BY <1>3 DEF SniffAccepts, Magic, Formats, ZipBased
<1>5. Placeholder \in Seq(Nat) /\ Ascending(Placeholder)
  BY DEF Placeholder, Ascending
<1>6. \A p : Has(Placeholder, p) <=> p = 0
  BY DEF Has, Placeholder
<1>7. PieceKind(0) # "nul"
  BY DEF PieceKind
<1>8. /\ Stripped(Placeholder) \in Seq(Nat) /\ Ascending(Stripped(Placeholder))
      /\ \A p : Has(Stripped(Placeholder), p) <=> p = 0
  BY <1>5, <1>6, <1>7, StrippedKeeps
<1>9. ASSUME NEW s \in Seq(Nat), Ascending(s), \A p : Has(s, p) <=> p = 0
      PROVE  s = <<0>>
  <2>1. \A i \in DOMAIN s : Has(s, s[i])
    BY DEF Has
  <2>2. \A i \in DOMAIN s : s[i] = 0
    BY <1>9, <2>1
  <2>3. Has(s, 0)
    BY <1>9
  <2>4. PICK i \in DOMAIN s : s[i] = 0
    BY <2>3 DEF Has
  <2>5. DOMAIN s = 1..Len(s) /\ Len(s) \in Nat
    BY <1>9
  <2>6. Len(s) >= 1
    BY <2>4, <2>5
  <2>7. ~(Len(s) >= 2)
    <3>1. SUFFICES ASSUME Len(s) >= 2
                   PROVE  FALSE
      OBVIOUS
    <3>2. 1 \in DOMAIN s /\ 2 \in DOMAIN s
      BY <2>5, <3>1
    <3>3. s[1] < s[2]
      BY <1>9, <3>2 DEF Ascending
    <3> QED
      BY <2>2, <3>2, <3>3
  <2>8. Len(s) = 1
    BY <2>5, <2>6, <2>7
  <2> QED
    BY <1>9, <2>2, <2>5, <2>8
<1> QED
  BY <1>4, <1>8, <1>9 DEF Placeholder

LEMMA FinishKeepsText ==
    ASSUME TextInv, Finish
    PROVE  Collected' /\ CapHolds' /\ StagedIsWhole'
<1>1. CASE \/ Fail("no_text", TRUE) \/ Fail("empty", FALSE)
  BY <1>1, FailKeepsText
<1>2. CASE ~(\/ Fail("no_text", TRUE) \/ Fail("empty", FALSE))
  <2> DEFINE empty == Extractors[extractor].empty
             text == IF empty = "placeholder" /\ texts = <<>> THEN Placeholder ELSE texts
  <2>1. /\ exStep = "reading" /\ exStep' = "staged" /\ staged' = Stripped(text)
        /\ UNCHANGED <<file, gate, extractor, position, texts, charTotal, unchecked>>
    BY <1>2 DEF Finish
  <2>2. Collected' /\ CapHolds'
    BY <2>1, NothingRead
  <2>3. CASE gate = "accepted" /\ empty = "placeholder" /\ texts = <<>>
    <3>1. file.format = "png" /\ staged' = Placeholder
      BY <2>1, <2>3, FinishStagesPlaceholder
    <3> QED
      BY <2>1, <2>2, <3>1 DEF StagedIsWhole, Placeholder
  <2>4. CASE gate = "accepted" /\ ~(empty = "placeholder" /\ texts = <<>>)
    <3>1. staged' = Stripped(texts)
      BY <2>1, <2>4
    <3> QED
      BY <2>1, <2>2, <2>4, <3>1, FinishStagesAll
  <2>5. CASE gate # "accepted"
    BY <2>1, <2>2, <2>5 DEF StagedIsWhole
  <2> QED
    BY <2>3, <2>4, <2>5
<1> QED
  BY <1>1, <1>2

LEMMA TextInvAlways ==
    ExtractionSpec => []TextInv
<1>1. TextInv /\ [ExtractionNext]_extractionVars => (Collected /\ CapHolds /\ StagedIsWhole)'
  <2>1. ASSUME TextInv, UNCHANGED extractionVars
        PROVE  Collected' /\ CapHolds' /\ StagedIsWhole'
    BY <2>1, NothingRead, StagedUnmoved DEF extractionVars, TextInv
  <2>2. ASSUME TextInv, StorageFails \/ Unregistered \/ OpenFails \/ CapExceeded \/ UnitRaises
        PROVE  Collected' /\ CapHolds' /\ StagedIsWhole'
    BY <2>2, FailKeepsText DEF StorageFails, Unregistered, OpenFails, CapExceeded, UnitRaises
  <2> QED
    BY <2>1, <2>2, AttemptKeepsText, ReadKeepsText, FinishKeepsText DEF ExtractionNext
<1>2. TextInv <=> FailureInv /\ Collected /\ CapHolds /\ StagedIsWhole
  BY DEF TextInv
<1> QED
  BY <1>1, <1>2, InitTextInv, FailureInvAlways, PTL DEF ExtractionSpec

(* What the activity stages of a checked upload is the whole text of the   *)
(* file, each readable unit once and in order, and within its format's cap *)
(* (extract_text and the extractors), at whichever item earlier attempts   *)
(* failed and however long the file is.                                    *)
THEOREM TextIsWhole ==
    ExtractionSpec => []ExtractedText
<1>1. TextInv => ExtractedText
  BY DEF TextInv, FailureInv, ExtractionShape, ExtractedText
<1> QED
  BY <1>1, TextInvAlways, PTL

-----------------------------------------------------------------------------
(* A document read page by page.                                           *)

LEMMA LesserOf ==
    ASSUME NEW a \in Nat, NEW b \in Nat
    PROVE  Min({a, b}) = IF a <= b THEN a ELSE b
<1> DEFINE m == IF a <= b THEN a ELSE b
<1>1. m \in {a, b} /\ \A y \in {a, b} : m <= y
  OBVIOUS
<1>2. \A x \in {a, b} : (\A y \in {a, b} : x <= y) => x = m
  OBVIOUS
<1> HIDE DEF m
<1>3. Min({a, b}) = m
  BY <1>1, <1>2 DEF Min
<1> QED
  BY <1>3 DEF m

(* The first chunk starts the text, each other two characters after the    *)
(* end of the one before.                                                  *)
LEMMA ChunkStarts ==
    ASSUME NEW s \in Seq(Nat)
    PROVE  /\ s # <<>> => ChunkStart(s, 1) = 0
           /\ \A i \in 2..Len(s) : ChunkStart(s, i) = ChunkStart(s, i - 1) + s[i - 1] + JoinGap
<1> DEFINE N == Len(s)
           After(k, j) == IF j = 1 THEN 0 ELSE k[j - 1] + s[j - 1] + JoinGap
           Is(k) == k = [j \in 1..N |-> After(k, j)]
           K == CHOOSE k : Is(k)
<1>1. \A i : ChunkStart(s, i) = K[i]
  BY DEF ChunkStart
<1>2. N \in Nat /\ DOMAIN s = 1..N /\ \A n \in 1..N : s[n] \in Nat
  OBVIOUS
<1>3. s # <<>> => 1 \in 1..N
  OBVIOUS
<1> HIDE DEF N
<1>4. \E k : Is(k)
  <2> DEFINE step == [q \in (1..N) \X Nat |-> q[2] + s[q[1]] + JoinGap]
  <2>1. step \in [(1..N) \X Nat -> Nat]
    <3>1. \A q \in (1..N) \X Nat : q[2] \in Nat /\ s[q[1]] \in Nat
      BY <1>2
    <3> QED
      BY <3>1 DEF JoinGap
  <2>2. \A n \in 1..N, v \in Nat : step[<<n, v>>] = v + s[n] + JoinGap
    OBVIOUS
  <2> HIDE DEF step
  <2>3. PICK k : FollowsSteps(k, N, Nat, 0, step)
    BY <1>2, <2>1, StepsDefine
  <2>4. k \in [0..N -> Nat] /\ k[0] = 0 /\ \A n \in 1..N : k[n] = step[<<n, k[n - 1]>>]
    BY <2>3 DEF FollowsSteps
  <2> DEFINE j == [i \in 1..N |-> k[i - 1]]
  <2>5. ASSUME NEW i \in 1..N
        PROVE  j[i] = After(j, i)
    <3>1. CASE i = 1
      BY <2>4, <3>1
    <3>2. CASE i # 1
      <4>1. i - 1 \in 1..N /\ (i - 1) - 1 \in 0..N
        BY <1>2, <3>2
      <4>2. k[(i - 1) - 1] \in Nat /\ j[i] = k[i - 1] /\ j[i - 1] = k[(i - 1) - 1]
        BY <2>4, <4>1
      <4>3. k[i - 1] = k[(i - 1) - 1] + s[i - 1] + JoinGap
        BY <2>2, <2>4, <4>1, <4>2
      <4> QED
        BY <3>2, <4>2, <4>3
    <3> QED
      BY <3>1, <3>2
  <2>6. j = [i \in 1..N |-> j[i]]
    OBVIOUS
  <2> HIDE DEF j, After
  <2>7. Is(j)
    BY <2>5, <2>6
  <2> QED
    BY <2>7
<1>5. Is(K)
  <2> HIDE DEF Is
  <2> QED
    BY <1>4
<1> HIDE DEF K
<1>6. \A i \in 1..N : K[i] = After(K, i)
  <2> HIDE DEF After
  <2> QED
    BY <1>5
<1>7. \A i \in 2..N : i \in 1..N /\ i # 1
  BY <1>2
<1> QED
  BY <1>1, <1>2, <1>3, <1>6, <1>7 DEF N

(* Every chunk lies in the text. *)
LEMMA ChunksInText ==
    ASSUME NEW s \in Seq(Nat)
    PROVE  /\ TotalChars(s) \in Nat
           /\ \A i \in 1..Len(s) : /\ ChunkStart(s, i) \in Nat /\ ChunkEnd(s, i) \in Nat
                                   /\ ChunkEnd(s, i) = ChunkStart(s, i) + s[i]
                                   /\ ChunkEnd(s, i) <= TotalChars(s)
<1> DEFINE N == Len(s)
           start(i) == ChunkStart(s, i)
           end(i) == ChunkEnd(s, i)
           Good(n) == \A i \in 1..n : start(i) \in Nat /\ end(i) <= end(n)
           S == { n \in 0..N : Good(n) }
<1>1. N \in Nat /\ \A n \in 1..N : s[n] \in Nat
  OBVIOUS
<1>2. \A i : end(i) = start(i) + s[i]
  BY DEF ChunkEnd
<1>3. N > 0 => start(1) = 0
  BY <1>1, ChunkStarts
<1>4. \A i \in 2..N : start(i) = start(i - 1) + s[i - 1] + 2
  BY ChunkStarts DEF JoinGap
<1>5. s = <<>> <=> N = 0
  OBVIOUS
<1>6. TotalChars(s) = IF N = 0 THEN 0 ELSE end(N)
  BY <1>5 DEF TotalChars
<1> HIDE DEF N, start, end
<1>7. Good(0)
  OBVIOUS
<1>8. ASSUME NEW n \in 1..N, Good(n - 1)
      PROVE  Good(n)
  <2>1. CASE n = 1
    BY <1>1, <1>2, <1>3, <2>1
  <2>2. CASE n # 1
    <3>1. /\ n \in 2..N /\ n - 1 \in 1..(n - 1) /\ n - 1 \in 1..N /\ n \in 1..N
          /\ 1..n = (1..(n - 1)) \cup {n}
      BY <1>1, <2>2
    <3>2. start(n - 1) \in Nat /\ s[n - 1] \in Nat /\ s[n] \in Nat
      BY <1>1, <1>8, <3>1
    <3>3. start(n) = start(n - 1) + s[n - 1] + 2
      BY <1>4, <3>1
    <3>4. end(n - 1) = start(n - 1) + s[n - 1] /\ end(n) = start(n) + s[n]
      BY <1>2
    <3>5. start(n) \in Nat /\ end(n - 1) \in Nat /\ end(n) \in Nat /\ end(n - 1) <= end(n)
      <4> DEFINE a == start(n - 1)
                 b == s[n - 1]
                 c == s[n]
                 d == start(n)
                 e == end(n - 1)
                 f == end(n)
      <4>1. a \in Nat /\ b \in Nat /\ c \in Nat /\ d = a + b + 2 /\ e = a + b /\ f = d + c
        BY <3>2, <3>3, <3>4
      <4> HIDE DEF a, b, c, d, e, f
      <4>2. d \in Nat /\ e \in Nat /\ f \in Nat /\ e <= f
        BY <4>1
      <4> QED
        BY <4>2 DEF d, e, f
    <3>6. ASSUME NEW i \in 1..(n - 1)
          PROVE  start(i) \in Nat /\ end(i) <= end(n)
      <4>1. start(i) \in Nat /\ s[i] \in Nat /\ end(i) = start(i) + s[i] /\ end(i) <= end(n - 1)
        BY <1>1, <1>2, <1>8
      <4>2. end(i) \in Nat
        BY <4>1
      <4> QED
        BY <3>5, <4>1, <4>2
    <3> QED
      BY <3>1, <3>5, <3>6
  <2> QED
    BY <2>1, <2>2
<1> HIDE DEF Good
<1>9. S \in SUBSET (0..N) /\ 0 \in S /\ \A n \in 1..N : n - 1 \in S => n \in S
  BY <1>1, <1>7, <1>8
<1>10. \A n \in 0..N : n \in S
  <2> HIDE DEF S
  <2> QED
    BY <1>1, <1>9, UpTo
<1>11. Good(N)
  BY <1>1, <1>10
<1>12. ASSUME NEW i \in 1..N
       PROVE  /\ start(i) \in Nat /\ end(i) \in Nat /\ end(i) = start(i) + s[i]
              /\ end(i) <= TotalChars(s)
  BY <1>1, <1>2, <1>6, <1>11, <1>12 DEF Good
<1>13. TotalChars(s) \in Nat
  <2>1. CASE N = 0
    BY <1>6, <2>1
  <2>2. CASE N # 0
    BY <1>1, <1>6, <1>12, <2>2
  <2> QED
    BY <2>1, <2>2
<1> QED
  BY <1>12, <1>13 DEF N, start, end

PagesShape ==
    /\ PagesTypeOK
    /\ reads \in Seq(Nat \X Nat)

(* Where the reader of an unchanged document is: behind the last page, with *)
(* every chunk up to there.                                                *)
ReaderInv ==
    /\ PagesShape
    /\ PagesTile
    /\ nextOffset = Finished => reads # <<>>
    /\ ~edited /\ reads # <<>> =>
          /\ nextOffset # Finished =>
                nextOffset = reads[Len(reads)][2] /\ nextOffset < TotalChars(sizes)
          /\ \A i \in DOMAIN sizes :
                sizes[i] > 0 /\ ChunkEnd(sizes, i) > reads[1][1]
                /\ ChunkStart(sizes, i) < reads[Len(reads)][2] => i \in seenChunks

LEMMA InitReaderInv ==
    ASSUME PagesInit
    PROVE  ReaderInv
<1>1. sizes \in Seq(ChunkSizes)
  <2>1. PICK n \in 0..MostChunks : sizes \in [1..n -> ChunkSizes]
    BY Zenon DEF PagesInit, SeqOf
  <2> QED
    BY <2>1
<1>2. PagesShape
  <2>1. nextOffset \in Nat /\ pageSize \in PageSizes /\ edited = FALSE /\ reads = <<>>
    BY ContextPagesAssumption DEF PagesInit
  <2>2. <<>> \in Seq(Nat \X Nat) /\ DOMAIN <<>> = {}
    OBVIOUS
  <2> QED
    BY <1>1, <2>1, <2>2 DEF PagesShape, PagesTypeOK
<1>3. nextOffset # Finished
  BY ContextPagesAssumption DEF PagesInit, Finished
<1> QED
  BY <1>2, <1>3 DEF PagesInit, ReaderInv, PagesTile

(* The text is typed as its chunks are. *)
LEMMA TextTyped ==
    ASSUME PagesShape
    PROVE  /\ sizes \in Seq(Nat) /\ TotalChars(sizes) \in Nat /\ pageSize \in Nat \ {0}
           /\ \A i \in DOMAIN sizes :
                 /\ ChunkStart(sizes, i) \in Nat /\ ChunkEnd(sizes, i) \in Nat
                 /\ ChunkEnd(sizes, i) = ChunkStart(sizes, i) + sizes[i] /\ sizes[i] \in Nat
                 /\ ChunkEnd(sizes, i) <= TotalChars(sizes)
<1>1. sizes \in Seq(Nat) /\ pageSize \in Nat \ {0}
  <2>1. sizes \in Seq(ChunkSizes) /\ pageSize \in PageSizes
    BY DEF PagesShape, PagesTypeOK
  <2>2. ChunkSizes \subseteq Nat /\ PageSizes \subseteq Nat \ {0}
    BY ContextPagesAssumption
  <2>3. sizes \in [1..Len(sizes) -> ChunkSizes] /\ Len(sizes) \in Nat
    BY <2>1
  <2>4. sizes \in [1..Len(sizes) -> Nat]
    BY <2>2, <2>3
  <2> QED
    BY <2>1, <2>2, <2>3, <2>4
<1>2. DOMAIN sizes = 1..Len(sizes) /\ \A i \in DOMAIN sizes : sizes[i] \in Nat
  BY <1>1
<1> QED
  BY <1>1, <1>2, ChunksInText

(* The page that is read next. *)
LEMMA PageBounds ==
    ASSUME PagesShape, nextOffset # Finished
    PROVE  LET T == TotalChars(sizes)
               offset == Min({nextOffset, T})
               end == WindowEnd(sizes, offset, pageSize) IN
           /\ offset \in Nat /\ end \in Nat /\ offset <= end /\ end <= T
           /\ end - offset \in 0..pageSize
           /\ nextOffset < T => offset = nextOffset
           /\ Following(sizes, end) = IF end < T THEN end ELSE Finished
           /\ ~(end < T) => end = T
<1> DEFINE T == TotalChars(sizes)
           offset == Min({nextOffset, T})
           end == WindowEnd(sizes, offset, pageSize)
<1>1. T \in Nat /\ pageSize \in Nat \ {0}
  BY TextTyped
<1>2. nextOffset \in Nat
  BY DEF PagesShape, PagesTypeOK
<1> HIDE DEF T
<1>3. offset = IF nextOffset <= T THEN nextOffset ELSE T
  BY <1>1, <1>2, LesserOf
<1> HIDE DEF offset
<1>4. offset \in Nat /\ offset <= T /\ (nextOffset < T => offset = nextOffset)
  BY <1>1, <1>2, <1>3
<1>5. end = Min({offset + pageSize, T})
  BY DEF WindowEnd, T
<1>6. offset + pageSize \in Nat
  BY <1>1, <1>4
<1>7. end = IF offset + pageSize <= T THEN offset + pageSize ELSE T
  BY <1>1, <1>5, <1>6, LesserOf
<1> HIDE DEF end
<1>8. /\ end \in Nat /\ offset <= end /\ end <= T /\ end - offset \in 0..pageSize
      /\ ~(end < T) => end = T
  BY <1>1, <1>4, <1>7
<1>9. Following(sizes, end) = IF end < T THEN end ELSE Finished
  BY DEF Following, T
<1> QED
  BY <1>4, <1>8, <1>9 DEF T, offset, end

LEMMA ReadPageKeeps ==
    ASSUME ReaderInv, ReadPage
    PROVE  ReaderInv'
<1> DEFINE T == TotalChars(sizes)
           offset == Min({nextOffset, T})
           end == WindowEnd(sizes, offset, pageSize)
           n == Len(reads)
<1>1. /\ nextOffset # Finished /\ nextOffset' = Following(sizes, end)
      /\ reads' = Append(reads, <<offset, end>>)
      /\ seenChunks' = seenChunks \cup { i \in DOMAIN sizes : Overlaps(sizes, i, offset, end) }
      /\ UNCHANGED <<sizes, pageSize, edited>>
  BY DEF ReadPage
<1>2. /\ offset \in Nat /\ end \in Nat /\ offset <= end /\ end <= T /\ T \in Nat
      /\ end - offset \in 0..pageSize
      /\ nextOffset < T => offset = nextOffset
      /\ nextOffset' = IF end < T THEN end ELSE Finished
      /\ ~(end < T) => end = T
  BY <1>1, PageBounds, TextTyped DEF ReaderInv
<1>3. T' = T
  BY <1>1
<1> HIDE DEF T, offset, end
<1>4. /\ reads \in Seq(Nat \X Nat) /\ n \in Nat /\ n = Len(reads)
      /\ <<offset, end>> \in Nat \X Nat
  BY <1>2 DEF ReaderInv, PagesShape
<1>5. /\ reads' \in Seq(Nat \X Nat) /\ Len(reads') = n + 1 /\ reads' # <<>>
      /\ \A i \in 1..n : reads'[i] = reads[i]
      /\ reads'[n + 1] = <<offset, end>>
  <2>1. reads' = Append(reads, <<offset, end>>)
    BY <1>1
  <2> DEFINE P == Nat \X Nat
             page == <<offset, end>>
  <2>2. reads \in Seq(P) /\ page \in P /\ reads' = Append(reads, page)
    BY <1>4, <2>1
  <2> HIDE DEF P, page
  <2>3. /\ Append(reads, page) \in Seq(P) /\ Append(reads, page) # <<>>
        /\ Len(Append(reads, page)) = n + 1
        /\ \A i \in 1..n : Append(reads, page)[i] = reads[i]
        /\ Append(reads, page)[n + 1] = page
    BY <2>2, AppendProperties
  <2> QED
    BY <2>2, <2>3 DEF P, page
<1>6. PagesShape'
  <2>1. nextOffset' \in Nat \cup {Finished}
    BY <1>2
  <2>2. \A i \in DOMAIN reads : reads[i][2] - reads[i][1] \in 0..pageSize
    BY DEF ReaderInv, PagesShape, PagesTypeOK
  <2>3. \A i \in 1..(n + 1) : reads'[i][2] - reads'[i][1] \in 0..pageSize
    <3>1. ASSUME NEW i \in 1..(n + 1)
          PROVE  reads'[i][2] - reads'[i][1] \in 0..pageSize
      <4>1. i \in 1..n \/ i = n + 1
        BY <1>4
      <4>2. CASE i \in 1..n
        <5>1. DOMAIN reads = 1..n
          BY <1>4
        <5>2. reads'[i] = reads[i]
          BY <1>5, <4>2
        <5> QED
          BY <2>2, <4>2, <5>1, <5>2
      <4>3. CASE i = n + 1
        <5>1. reads'[i] = <<offset, end>>
          BY <1>5, <4>3
        <5> QED
          BY <1>2, <5>1
      <4> QED
        BY <4>1, <4>2, <4>3
    <3> QED
      BY <3>1
  <2>4. DOMAIN reads' = 1..(n + 1)
    BY <1>4, <1>5
  <2> QED
    BY <1>1, <1>5, <2>1, <2>3, <2>4 DEF ReaderInv, PagesShape, PagesTypeOK
<1>7. ASSUME ~edited, n > 0
      PROVE  reads[n][2] = offset
  <2>1. /\ nextOffset = reads[n][2] /\ nextOffset < T
    BY <1>1, <1>4, <1>7 DEF ReaderInv, T
  <2> QED
    BY <1>2, <2>1
<1>8. PagesTile'
  <2>1. SUFFICES ASSUME ~edited
                 PROVE  PagesTile'
    BY <1>1 DEF PagesTile
  <2>2. ASSUME NEW i \in 1..n
        PROVE  reads'[i + 1][1] = reads'[i][2]
    <3>1. CASE i = n
      <4>1. reads'[i + 1] = <<offset, end>> /\ reads'[i] = reads[n]
        BY <1>5, <3>1
      <4> QED
        BY <1>4, <1>7, <2>1, <3>1, <4>1
    <3>2. CASE i # n
      <4>1. i \in 1..(n - 1) /\ i + 1 \in 1..n /\ reads # <<>>
        BY <1>4, <3>2
      <4>2. reads[i + 1][1] = reads[i][2]
        BY <2>1, <4>1 DEF ReaderInv, PagesTile
      <4> QED
        BY <1>5, <4>1, <4>2
    <3> QED
      BY <3>1, <3>2
  <2>3. nextOffset' = Finished => reads'[n + 1][2] = T
    BY <1>2, <1>5 DEF Finished
  <2>4. Len(reads') - 1 = n /\ Last(reads') = reads'[n + 1]
    BY <1>4, <1>5 DEF Last
  <2> QED
    BY <1>3, <2>2, <2>3, <2>4 DEF PagesTile, T
<1>9. ASSUME ~edited
      PROVE  nextOffset' # Finished => nextOffset' = reads'[n + 1][2] /\ nextOffset' < T
  BY <1>2, <1>5
<1>10. ASSUME ~edited, NEW i \in DOMAIN sizes, sizes[i] > 0,
              ChunkEnd(sizes, i) > reads'[1][1], ChunkStart(sizes, i) < reads'[n + 1][2]
       PROVE  i \in seenChunks'
  <2>1. /\ ChunkStart(sizes, i) \in Nat /\ ChunkEnd(sizes, i) \in Nat /\ sizes[i] \in Nat
        /\ ChunkEnd(sizes, i) = ChunkStart(sizes, i) + sizes[i]
    BY TextTyped DEF ReaderInv
  <2>2. ChunkStart(sizes, i) < end
    BY <1>5, <1>10
  <2>3. CASE ChunkEnd(sizes, i) > offset
    BY <1>1, <2>2, <2>3 DEF Overlaps
  <2>4. CASE ~(ChunkEnd(sizes, i) > offset)
    <3>1. ChunkStart(sizes, i) < offset
      BY <1>2, <1>10, <2>1, <2>4
    <3>2. n > 0
      BY <1>4, <1>5, <1>10, <2>4
    <3>3. reads # <<>> /\ reads[n][2] = offset /\ reads'[1] = reads[1]
      BY <1>4, <1>5, <1>7, <1>10, <3>2
    <3> QED
      BY <1>1, <1>10, <3>1, <3>3 DEF ReaderInv
  <2> QED
    BY <2>3, <2>4
<1> QED
  BY <1>1, <1>3, <1>5, <1>6, <1>8, <1>9, <1>10 DEF ReaderInv, T

(* After an edit nothing is promised but the pages' sizes. *)
LEMMA EditKeeps ==
    ASSUME ReaderInv, EditBetweenPages
    PROVE  ReaderInv'
<1>1. edited' = TRUE /\ UNCHANGED <<pageSize, nextOffset, reads, seenChunks>>
  BY DEF EditBetweenPages
<1>2. sizes \in Seq(ChunkSizes)
  BY DEF ReaderInv, PagesShape, PagesTypeOK
<1>3. sizes' \in Seq(ChunkSizes)
  <2>1. CASE \E i \in DOMAIN sizes, n \in ChunkSizes : sizes' = [sizes EXCEPT ![i] = n]
    BY <1>2, <2>1
  <2>2. CASE \E n \in ChunkSizes : sizes' = Append(sizes, n)
    BY <1>2, <2>2
  <2> QED
    BY <2>1, <2>2 DEF EditBetweenPages
<1>4. PagesShape'
  BY <1>1, <1>3 DEF ReaderInv, PagesShape, PagesTypeOK
<1> QED
  BY <1>1, <1>4 DEF ReaderInv, PagesTile

LEMMA ReaderInvAlways ==
    PagesSpec => []ReaderInv
<1>1. ReaderInv /\ [PagesNext]_pageVars => ReaderInv'
  <2>1. ASSUME ReaderInv, UNCHANGED pageVars
        PROVE  ReaderInv'
    BY <2>1 DEF pageVars, ReaderInv, PagesShape, PagesTypeOK, PagesTile
  <2> QED
    BY <2>1, ReadPageKeeps, EditKeeps DEF PagesNext
<1> QED
  BY <1>1, InitReaderInv, PTL DEF PagesSpec

(* A reader who follows next_offset through a document that does not       *)
(* change is given every character from where it began once and every      *)
(* chunk (windowed_document_context), whatever the sizes of the chunks and *)
(* of the page, and no page is longer than it asked for even if it does.   *)
THEOREM PagesAreComplete ==
    PagesSpec => []PagesComplete
<1>1. ASSUME ReaderInv
      PROVE  PagesComplete
  <2>1. PagesTypeOK /\ PagesTile
    BY <1>1 DEF ReaderInv, PagesShape
  <2>2. ASSUME ~edited, nextOffset = Finished, reads # <<>>, NEW i \in DOMAIN sizes,
               sizes[i] > 0, ChunkEnd(sizes, i) > Head(reads)[1]
        PROVE  i \in seenChunks
    <3>1. reads[Len(reads)][2] = TotalChars(sizes)
      BY <2>1, <2>2 DEF PagesTile, Last
    <3>2. /\ TotalChars(sizes) \in Nat /\ ChunkStart(sizes, i) \in Nat
          /\ ChunkEnd(sizes, i) \in Nat /\ sizes[i] \in Nat
          /\ ChunkEnd(sizes, i) = ChunkStart(sizes, i) + sizes[i]
          /\ ChunkEnd(sizes, i) <= TotalChars(sizes)
      BY <1>1, TextTyped DEF ReaderInv
    <3>3. ChunkStart(sizes, i) < TotalChars(sizes)
      BY <2>2, <3>2
    <3>4. Head(reads) = reads[1]
      BY <1>1, <2>2 DEF ReaderInv, PagesShape
    <3> QED
      BY <1>1, <2>2, <3>1, <3>3, <3>4 DEF ReaderInv
  <2>3. nextOffset = Finished => reads # <<>>
    BY <1>1 DEF ReaderInv
  <2> QED
    BY <2>1, <2>2, <2>3 DEF ChunksOfEveryPage, PagesComplete
<1> QED
  BY <1>1, ReaderInvAlways, PTL

-----------------------------------------------------------------------------
(* A search and the models that its collections were built with.           *)

TaskStates == {"none", "waiting", "checking", "querying", "answered", "failed"}

FlowShape ==
    /\ tasks \in [SearchWorkspaces -> TaskStates]
    /\ DOMAIN found = SearchWorkspaces /\ found = [w \in SearchWorkspaces |-> found[w]]
    /\ stamp \in [SearchWorkspaces -> {"none", "same", "other"}]
    /\ DOMAIN response = DOMAIN NoResponse
    /\ identityChecked \subseteq SearchWorkspaces

(* Only the collections that were asked for are searched. *)
TasksInScope == \A w \in SearchWorkspaces : tasks[w] # "none" => w \in wanted.scope

(* The collection was built with the model of the API, or the code let it  *)
(* through with a warning.                                                 *)
Vetted(w) == stamp[w] = "same" \/ w \in unguarded

(* Each step of a vector search works on vetted collections only: a check  *)
(* that is remembered, a query under way, its results and the response.    *)
SearchesVetted ==
    /\ \A w \in identityChecked : Vetted(w)
    /\ current.mode # "keyword" =>
          \A w \in SearchWorkspaces :
              tasks[w] \in {"querying", "answered"} \/ found[w] # <<>> => Vetted(w)
    /\ response.status = "ok" /\ response.mode # "keyword" =>
          \A w \in SearchWorkspaces : response.sources[w] # <<>> => Vetted(w)

FlowInv == FlowShape /\ TasksInScope /\ SearchesVetted

LEMMA InitFlowInv ==
    ASSUME FlowInit
    PROVE  FlowInv
<1>1. /\ tasks = NoTasks /\ found = NothingFound /\ response = NoResponse
      /\ identityChecked = {}
      /\ stamp \in [SearchWorkspaces -> {"none", "same", "other"}]
  BY DEF FlowInit
<1>2. FlowShape
  BY <1>1 DEF FlowShape, NoTasks, TaskStates, NothingFound
<1>3. \A w \in SearchWorkspaces : tasks[w] = "none" /\ found[w] = <<>>
  BY <1>1 DEF NoTasks, NothingFound
<1>4. response.status = "none"
  BY <1>1 DEF NoResponse
<1> QED
  BY <1>1, <1>2, <1>3, <1>4 DEF FlowInv, TasksInScope, SearchesVetted

(* A failed retrieval serves nothing that was not served before. *)
LEMMA RaiseServesNothing ==
    ASSUME FlowShape, Raise
    PROVE  /\ DOMAIN response' = DOMAIN response
           /\ response'.status = "ok" => response' = response
<1>1. "status" \in DOMAIN response
  BY DEF FlowShape, NoResponse
<1> QED
  BY <1>1 DEF Raise

(* A step of the search of w, which moves on to at.                        *)
LEMMA TaskMoves ==
    ASSUME FlowInv, NEW w \in SearchWorkspaces, NEW at \in TaskStates, tasks[w] # "none",
           tasks' = [tasks EXCEPT ![w] = at], UNCHANGED <<wanted, current, found, stamp>>,
           unguarded \subseteq unguarded',
           \/ identityChecked' = identityChecked
           \/ identityChecked' = identityChecked \cup {w} /\ Vetted(w)',
           at \in {"querying", "answered"} /\ current.mode # "keyword" => Vetted(w)',
           DOMAIN response' = DOMAIN response,
           response'.status = "ok" => response' = response
    PROVE  FlowInv'
<1>1. /\ tasks' \in [SearchWorkspaces -> TaskStates] /\ tasks'[w] = at
      /\ \A v \in SearchWorkspaces : v # w => tasks'[v] = tasks[v]
  BY DEF FlowInv, FlowShape
<1>2. FlowShape'
  BY <1>1 DEF FlowInv, FlowShape, NoResponse
<1>3. TasksInScope'
  BY <1>1 DEF FlowInv, TasksInScope
<1>4. \A v : Vetted(v) => Vetted(v)'
  BY DEF Vetted
<1>5. \A v \in identityChecked' : Vetted(v)'
  BY <1>4 DEF FlowInv, SearchesVetted
<1>6. ASSUME current'.mode # "keyword", NEW v \in SearchWorkspaces,
             tasks'[v] \in {"querying", "answered"} \/ found'[v] # <<>>
      PROVE  Vetted(v)'
  <2>1. tasks[v] \in {"querying", "answered"} \/ found[v] # <<>> => Vetted(v)
    BY <1>6 DEF FlowInv, SearchesVetted
  <2> QED
    BY <1>1, <1>4, <1>6, <2>1
<1>7. ASSUME response'.status = "ok", response'.mode # "keyword", NEW v \in SearchWorkspaces,
             response'.sources[v] # <<>>
      PROVE  Vetted(v)'
  BY <1>4, <1>7 DEF FlowInv, SearchesVetted
<1>8. SearchesVetted'
  BY <1>5, <1>6, <1>7 DEF SearchesVetted
<1> QED
  BY <1>2, <1>3, <1>8 DEF FlowInv

LEMMA BeginSearchKeeps ==
    ASSUME FlowInv, BeginSearch
    PROVE  FlowInv'
<1>1. PICK r \in FlowRequests :
         /\ wanted' = r /\ current' = r
         /\ tasks' = [w \in SearchWorkspaces |-> IF w \in r.scope THEN "waiting" ELSE "none"]
  BY DEF BeginSearch
<1>2. /\ found' = NothingFound /\ response' = NoResponse
      /\ UNCHANGED <<identityChecked, stamp, unguarded>>
  BY DEF BeginSearch
<1>3. FlowShape'
  BY <1>1, <1>2 DEF FlowInv, FlowShape, TaskStates, NothingFound
<1>4. \A w \in SearchWorkspaces : /\ tasks'[w] \in {"waiting", "none"} /\ found'[w] = <<>>
                                  /\ tasks'[w] # "none" => w \in wanted'.scope
  BY <1>1, <1>2 DEF NothingFound
<1>5. response'.status = "none"
  BY <1>2 DEF NoResponse
<1>6. TasksInScope' /\ SearchesVetted'
  BY <1>2, <1>4, <1>5 DEF FlowInv, TasksInScope, SearchesVetted, Vetted
<1> QED
  BY <1>3, <1>6 DEF FlowInv

LEMMA StampCollectionKeeps ==
    ASSUME FlowInv, NEW w \in SearchWorkspaces, StampCollection(w)
    PROVE  FlowInv'
<1>1. PICK s \in {"same", "other"} : stamp' = [stamp EXCEPT ![w] = s]
  BY DEF StampCollection
<1>2. /\ stamp[w] = "none"
      /\ UNCHANGED <<wanted, current, tasks, found, response, identityChecked, unguarded>>
  BY DEF StampCollection
<1>3. /\ stamp' \in [SearchWorkspaces -> {"none", "same", "other"}]
      /\ \A v \in SearchWorkspaces : stamp[v] = "same" => stamp'[v] = "same"
  BY <1>1, <1>2 DEF FlowInv, FlowShape
<1>4. \A v \in SearchWorkspaces : Vetted(v) => Vetted(v)'
  BY <1>2, <1>3 DEF Vetted
<1>5. FlowShape' /\ TasksInScope'
  BY <1>2, <1>3 DEF FlowInv, FlowShape, TasksInScope, NoResponse
<1>6. identityChecked \subseteq SearchWorkspaces
  BY DEF FlowInv, FlowShape
<1>7. SearchesVetted'
  BY <1>2, <1>4, <1>6 DEF FlowInv, SearchesVetted
<1> QED
  BY <1>5, <1>7 DEF FlowInv

LEMMA EmbedFailsKeeps ==
    ASSUME FlowInv, EmbedFails
    PROVE  FlowInv'
<1>1. /\ tasks' = NoTasks /\ Raise
      /\ UNCHANGED <<wanted, current, found, stamp, identityChecked, unguarded>>
  BY DEF EmbedFails, Raise
<1>2. /\ DOMAIN response' = DOMAIN response
      /\ response'.status = "ok" => response' = response
  BY <1>1, RaiseServesNothing DEF FlowInv
<1>3. FlowShape' /\ \A w \in SearchWorkspaces : tasks'[w] = "none"
  BY <1>1, <1>2 DEF FlowInv, FlowShape, NoTasks, TaskStates, NoResponse
<1>4. TasksInScope' /\ SearchesVetted'
  BY <1>1, <1>2, <1>3 DEF FlowInv, TasksInScope, SearchesVetted, Vetted
<1> QED
  BY <1>3, <1>4 DEF FlowInv

LEMMA StartTaskKeeps ==
    ASSUME FlowInv, NEW w \in SearchWorkspaces, StartTask(w)
    PROVE  FlowInv'
<1> DEFINE at == IF current.mode = "keyword" \/ w \in identityChecked THEN "querying" ELSE "checking"
<1>1. /\ tasks' = [tasks EXCEPT ![w] = at] /\ tasks[w] = "waiting"
      /\ UNCHANGED <<wanted, current, found, response, identityChecked, stamp, unguarded>>
  BY DEF StartTask
<1>2. at \in TaskStates
  BY DEF TaskStates
<1>3. at \in {"querying", "answered"} /\ current.mode # "keyword" => Vetted(w)'
  BY <1>1 DEF FlowInv, SearchesVetted, Vetted
<1> HIDE DEF at
<1> QED
  BY <1>1, <1>2, <1>3, TaskMoves

LEMMA IdentityKeeps ==
    ASSUME FlowInv, NEW w \in SearchWorkspaces,
           IdentityUnread(w) \/ IdentityAccepted(w) \/ IdentityMismatch(w)
    PROVE  FlowInv'
<1>1. {"querying", "failed"} \subseteq TaskStates /\ tasks[w] = "checking"
  BY DEF TaskStates, IdentityUnread, IdentityAccepted, IdentityMismatch
<1>2. CASE IdentityUnread(w)
  <2>1. /\ tasks' = [tasks EXCEPT ![w] = "querying"] /\ unguarded' = unguarded \cup {w}
        /\ UNCHANGED <<wanted, current, found, response, identityChecked, stamp>>
    BY <1>2 DEF IdentityUnread
  <2>2. Vetted(w)'
    BY <2>1 DEF Vetted
  <2> QED
    BY <1>1, <2>1, <2>2, TaskMoves
<1>3. CASE IdentityAccepted(w)
  <2>1. /\ tasks' = [tasks EXCEPT ![w] = "querying"] /\ stamp[w] # "other"
        /\ identityChecked' = identityChecked \cup {w}
        /\ unguarded' = IF stamp[w] = "none" THEN unguarded \cup {w} ELSE unguarded
        /\ UNCHANGED <<wanted, current, found, response, stamp>>
    BY <1>3 DEF IdentityAccepted
  <2>2. Vetted(w)'
    BY <2>1 DEF Vetted, FlowInv, FlowShape
  <2> QED
    BY <1>1, <2>1, <2>2, TaskMoves
<1>4. CASE IdentityMismatch(w)
  <2>1. /\ tasks' = [tasks EXCEPT ![w] = "failed"]
        /\ UNCHANGED <<wanted, current, found, stamp, identityChecked, unguarded>>
        /\ Raise \/ response' = response
    BY <1>4 DEF IdentityMismatch, Raise
  <2>2. /\ DOMAIN response' = DOMAIN response
        /\ response'.status = "ok" => response' = response
    BY <2>1, RaiseServesNothing DEF FlowInv
  <2> QED
    BY <1>1, <2>1, <2>2, TaskMoves
<1> QED
  BY <1>2, <1>3, <1>4

LEMMA QueryAnswersKeeps ==
    ASSUME FlowInv, NEW w \in SearchWorkspaces, QueryAnswers(w)
    PROVE  FlowInv'
<1>1. PICK l : found' = [found EXCEPT ![w] = l]
  BY DEF QueryAnswers
<1>2. /\ tasks[w] = "querying" /\ tasks' = [tasks EXCEPT ![w] = "answered"]
      /\ UNCHANGED <<wanted, current, response, identityChecked, stamp, unguarded>>
  BY DEF QueryAnswers
<1>3. /\ DOMAIN found' = SearchWorkspaces /\ found' = [v \in SearchWorkspaces |-> found'[v]]
      /\ \A v \in SearchWorkspaces : v # w => found'[v] = found[v]
  BY <1>1 DEF FlowInv, FlowShape
<1>4. /\ tasks' \in [SearchWorkspaces -> TaskStates] /\ tasks'[w] = "answered"
      /\ \A v \in SearchWorkspaces : v # w => tasks'[v] = tasks[v]
  BY <1>2 DEF FlowInv, FlowShape, TaskStates
<1>5. FlowShape' /\ TasksInScope'
  BY <1>2, <1>3, <1>4 DEF FlowInv, FlowShape, TasksInScope, NoResponse
<1>6. \A v : Vetted(v)' <=> Vetted(v)
  BY <1>2 DEF Vetted
<1>7. SearchesVetted'
  BY <1>2, <1>3, <1>4, <1>6 DEF FlowInv, SearchesVetted
<1> QED
  BY <1>5, <1>7 DEF FlowInv

LEMMA QueryFailsKeeps ==
    ASSUME FlowInv, NEW w \in SearchWorkspaces, QueryFails(w)
    PROVE  FlowInv'
<1>1. /\ tasks[w] = "querying" /\ tasks' = [tasks EXCEPT ![w] = "failed"]
      /\ UNCHANGED <<wanted, current, found, stamp, identityChecked, unguarded>>
      /\ Raise \/ response' = response
  BY DEF QueryFails, Raise
<1>2. /\ DOMAIN response' = DOMAIN response
      /\ response'.status = "ok" => response' = response
  BY <1>1, RaiseServesNothing DEF FlowInv
<1>3. "failed" \in TaskStates
  BY DEF TaskStates
<1> QED
  BY <1>1, <1>2, <1>3, TaskMoves

LEMMA GatherKeeps ==
    ASSUME FlowInv, Gather
    PROVE  FlowInv'
<1>1. /\ response' = Complete(found, current) /\ found' = NothingFound
      /\ UNCHANGED <<wanted, identityChecked, stamp, unguarded>>
  BY DEF Gather
<1>2. tasks' \in {NoTasks, [w \in SearchWorkspaces |-> IF w \in wanted.scope THEN "waiting" ELSE "none"]}
  BY DEF Gather
<1>3. /\ tasks' \in [SearchWorkspaces -> TaskStates]
      /\ \A w \in SearchWorkspaces : /\ tasks'[w] \in {"none", "waiting"} /\ found'[w] = <<>>
                                     /\ tasks'[w] # "none" => w \in wanted.scope
  BY <1>1, <1>2 DEF NoTasks, TaskStates, NothingFound
<1>4. /\ DOMAIN response' = DOMAIN NoResponse
      /\ response'.mode = current.mode /\ response'.sources = found
  BY <1>1 DEF Complete, NoResponse
<1>5. FlowShape' /\ TasksInScope'
  BY <1>1, <1>3, <1>4 DEF FlowInv, FlowShape, TasksInScope, NothingFound, NoResponse
<1>6. \A v : Vetted(v)' <=> Vetted(v)
  BY <1>1 DEF Vetted
<1>7. SearchesVetted'
  BY <1>1, <1>3, <1>4, <1>6 DEF FlowInv, SearchesVetted
<1> QED
  BY <1>5, <1>7 DEF FlowInv

LEMMA FlowInvAlways ==
    FlowSpec => []FlowInv
<1>1. FlowInv /\ [FlowNext]_flowVars => FlowInv'
  <2>1. ASSUME FlowInv, UNCHANGED flowVars
        PROVE  FlowInv'
    BY <2>1 DEF flowVars, FlowInv, FlowShape, TasksInScope, SearchesVetted, Vetted, NoResponse
  <2> QED
    BY <2>1, BeginSearchKeeps, EmbedFailsKeeps, GatherKeeps, StampCollectionKeeps,
       StartTaskKeeps, IdentityKeeps, QueryAnswersKeeps, QueryFailsKeeps
    DEF FlowNext
<1> QED
  BY <1>1, InitFlowInv, PTL DEF FlowSpec

(* A vector query is served from a collection of another model only if it  *)
(* was searched before it had a stamp, or its schema could not be read     *)
(* (_ensure_identity_checked), whatever fails and however many requests    *)
(* have been served.                                                       *)
THEOREM OtherModelsAreRefused ==
    FlowSpec => []MismatchNotServed
<1>1. FlowInv => MismatchNotServed
  BY DEF FlowInv, SearchesVetted, Vetted, MismatchNotServed
<1> QED
  BY <1>1, FlowInvAlways, PTL

(* Why a search over all workspaces may fail as a whole. *)
Cause ==
    \/ tasks' = NoTasks
    \/ \E w \in wanted.scope : stamp[w] = "other" /\ tasks[w] = "checking"

(* A search over all workspaces fails as a whole only when its query was   *)
(* not embedded or a collection has another model: the failure of one      *)
(* workspace's search stays with it (_search_workspaces_concurrently).     *)
THEOREM FailuresAreIsolated ==
    FlowSpec => OneFailureIsIsolated
<1>1. ASSUME FlowInv, FlowNext, searchPhase = "retrieving", wanted.surface = "all",
             response'.status = "error", response.status # "error"
      PROVE  Cause
  <2>1. response' # response
    BY <1>1
  <2>2. ~BeginSearch
    BY <1>1 DEF BeginSearch
  <2>3. EmbedFails => Cause
    BY DEF EmbedFails, Cause
  <2>4. ~Gather
    BY <1>1 DEF Gather, Complete
  <2>5. ASSUME NEW w \in SearchWorkspaces, IdentityMismatch(w)
        PROVE  Cause
    BY <1>1, <2>5 DEF IdentityMismatch, FlowInv, TasksInScope, Cause
  <2>6. ASSUME NEW w \in SearchWorkspaces
        PROVE  /\ ~StampCollection(w) /\ ~StartTask(w) /\ ~IdentityUnread(w)
               /\ ~IdentityAccepted(w) /\ ~QueryAnswers(w) /\ ~QueryFails(w)
    BY <1>1, <2>1
    DEF StampCollection, StartTask, IdentityUnread, IdentityAccepted, QueryAnswers, QueryFails
  <2> QED
    BY <1>1, <2>2, <2>3, <2>4, <2>5, <2>6 DEF FlowNext
<1>2. FlowInv /\ [FlowNext]_flowVars =>
        [ /\ searchPhase = "retrieving" /\ wanted.surface = "all"
          /\ response'.status = "error" /\ response.status # "error"
          => Cause ]_flowVars
  BY <1>1
<1> QED
  BY <1>2, FlowInvAlways, PTL DEF FlowSpec, OneFailureIsIsolated, Cause

-----------------------------------------------------------------------------
(* The order of a list: strict, and between any two.                       *)
Orders(before, S) ==
    /\ \A x \in S : <<x, x>> \notin before
    /\ \A x, y \in S : x # y => <<x, y>> \in before \/ <<y, x>> \in before
    /\ \A x, y, z \in S : <<x, y>> \in before /\ <<y, z>> \in before => <<x, z>> \in before

(* Each place of an order is taken by one member. *)
LEMMA PlacesOf ==
    ASSUME NEW S, IsFiniteSet(S), NEW before, Orders(before, S)
    PROVE  /\ Cardinality(S) \in Nat
           /\ \A x \in S : PlaceIn(S, before, x) \in 1..Cardinality(S)
           /\ \A x, y \in S : <<x, y>> \in before <=> PlaceIn(S, before, x) < PlaceIn(S, before, y)
           /\ \A i \in 1..Cardinality(S) : \E x \in S : PlaceIn(S, before, x) = i
<1>1. PICK under : under = [x \in S |-> { y \in S : <<y, x>> \in before }]
  OBVIOUS
<1> DEFINE N == Cardinality(S)
           place == [x \in S |-> PlaceIn(S, before, x)]
<1>2. N \in Nat
  BY FS_CardinalityType
<1>3. \A x \in S : PlaceIn(S, before, x) = 1 + Cardinality(under[x])
  BY <1>1 DEF PlaceIn
<1>4. ASSUME NEW x \in S
      PROVE  /\ IsFiniteSet(under[x]) /\ Cardinality(under[x]) \in Nat
             /\ Cardinality(under[x]) < N
  <2>1. under[x] \in SUBSET S /\ x \notin under[x]
    BY <1>1 DEF Orders
  <2>2. IsFiniteSet(under[x]) /\ Cardinality(under[x]) <= N
        /\ (N = Cardinality(under[x]) => S = under[x])
    BY <2>1, FS_Subset
  <2>3. Cardinality(under[x]) \in Nat
    BY <2>2, FS_CardinalityType
  <2> QED
    BY <1>2, <2>1, <2>2, <2>3
<1>5. ASSUME NEW x \in S, NEW y \in S, <<x, y>> \in before
      PROVE  Cardinality(under[x]) < Cardinality(under[y])
  <2>1. under[x] \in SUBSET under[y] /\ x \in under[y] /\ x \notin under[x]
    BY <1>1, <1>5 DEF Orders
  <2>2. /\ Cardinality(under[x]) <= Cardinality(under[y])
        /\ Cardinality(under[y]) = Cardinality(under[x]) => under[y] = under[x]
    BY <1>4, <2>1, FS_Subset
  <2>3. Cardinality(under[x]) \in Nat /\ Cardinality(under[y]) \in Nat
    BY <1>4
  <2> QED
    BY <2>1, <2>2, <2>3
<1> HIDE DEF N
<1>6. ASSUME NEW x \in S
      PROVE  PlaceIn(S, before, x) \in 1..N
  BY <1>2, <1>3, <1>4
<1>7. ASSUME NEW x \in S, NEW y \in S
      PROVE  <<x, y>> \in before <=> PlaceIn(S, before, x) < PlaceIn(S, before, y)
  <2>1. /\ PlaceIn(S, before, x) = 1 + Cardinality(under[x]) /\ Cardinality(under[x]) \in Nat
        /\ PlaceIn(S, before, y) = 1 + Cardinality(under[y]) /\ Cardinality(under[y]) \in Nat
    BY <1>3, <1>4
  <2>2. CASE <<x, y>> \in before
    BY <1>5, <2>1, <2>2
  <2>3. CASE x = y
    BY <2>1, <2>3 DEF Orders
  <2>4. CASE <<y, x>> \in before
    <3>1. <<x, y>> \notin before
      BY <2>4 DEF Orders
    <3> QED
      BY <1>5, <2>1, <2>4, <3>1
  <2> QED
    BY <2>2, <2>3, <2>4 DEF Orders
<1>8. place \in Injection(S, 1..N)
  <2>1. place \in [S -> 1..N]
    BY <1>6
  <2>2. ASSUME NEW x \in S, NEW y \in S, place[x] = place[y]
        PROVE  x = y
    <3>1. PlaceIn(S, before, x) = PlaceIn(S, before, y) /\ PlaceIn(S, before, x) \in Int
      BY <1>6, <2>2
    <3>2. <<x, y>> \notin before /\ <<y, x>> \notin before
      BY <1>7, <3>1
    <3> QED
      BY <3>2 DEF Orders
  <2> HIDE DEF place
  <2> QED
    BY <2>1, <2>2 DEF Injection, IsInjective
<1>9. IsFiniteSet(1..N) /\ Cardinality(1..N) = N
  BY <1>2, FS_Interval
<1>10. place \in Surjection(S, 1..N)
  BY <1>8, <1>9, FS_Injection DEF N
<1>11. \A i \in 1..N : \E x \in S : place[x] = i
  BY <1>10 DEF Surjection
<1> QED
  BY <1>2, <1>6, <1>7, <1>11 DEF N

(* Sorting leaves nothing out, repeats nothing and puts it in order.       *)
Sorts(order, S, before) ==
    /\ Cardinality(S) \in Nat /\ order \in [1..Cardinality(S) -> S]
    /\ \A m, n \in 1..Cardinality(S) : m < n <=> <<order[m], order[n]>> \in before
    /\ \A x \in S : \E n \in 1..Cardinality(S) : order[n] = x
    /\ \A m, n \in 1..Cardinality(S) : order[m] = order[n] => m = n

LEMMA SortedTakes ==
    ASSUME NEW S, IsFiniteSet(S), NEW before, Orders(before, S)
    PROVE  Sorts(Sorted(S, before), S, before)
<1> DEFINE N == Cardinality(S)
           order == Sorted(S, before)
<1>1. /\ N \in Nat
      /\ \A x \in S : PlaceIn(S, before, x) \in 1..N
      /\ \A x, y \in S : <<x, y>> \in before <=> PlaceIn(S, before, x) < PlaceIn(S, before, y)
      /\ \A i \in 1..N : \E x \in S : PlaceIn(S, before, x) = i
  BY PlacesOf
<1>2. order = [n \in 1..N |-> CHOOSE x \in S : PlaceIn(S, before, x) = n]
  BY DEF Sorted
<1> HIDE DEF N, order
<1>3. \A n \in 1..N : order[n] \in S /\ PlaceIn(S, before, order[n]) = n
  <2>1. ASSUME NEW n \in 1..N
        PROVE  order[n] \in S /\ PlaceIn(S, before, order[n]) = n
    <3>1. order[n] = CHOOSE x \in S : PlaceIn(S, before, x) = n
      BY <1>2
    <3>2. \E x \in S : PlaceIn(S, before, x) = n
      BY <1>1
    <3> QED
      BY <3>1, <3>2
  <2> QED
    BY <2>1
<1>4. order \in [1..N -> S]
  BY <1>2, <1>3
<1>5. \A m, n \in 1..N : m < n <=> <<order[m], order[n]>> \in before
  BY <1>1, <1>3
<1>6. ASSUME NEW x \in S
      PROVE  order[PlaceIn(S, before, x)] = x
  <2> DEFINE y == order[PlaceIn(S, before, x)]
  <2>1. y \in S /\ PlaceIn(S, before, y) = PlaceIn(S, before, x) /\ PlaceIn(S, before, x) \in Int
    BY <1>1, <1>3
  <2>2. <<x, y>> \notin before /\ <<y, x>> \notin before
    BY <1>1, <2>1
  <2> HIDE DEF y
  <2>3. y = x
    BY <2>1, <2>2 DEF Orders
  <2> QED
    BY <2>3 DEF y
<1>7. \A x \in S : \E n \in 1..N : order[n] = x
  BY <1>1, <1>6
<1>8. \A m, n \in 1..N : order[m] = order[n] => m = n
  BY <1>3
<1> QED
  BY <1>1, <1>4, <1>5, <1>7, <1>8 DEF Sorts, N, order

(* Numbers sort by size. *)
LEMMA LessOrders ==
    ASSUME NEW S \in SUBSET Int
    PROVE  /\ Orders(Less(S), S)
           /\ \A x, y \in S : <<x, y>> \in Less(S) <=> x < y
<1>1. \A x, y \in S : <<x, y>> \in Less(S) <=> x < y
  BY DEF Less
<1>2. \A x \in S : x \in Int
  OBVIOUS
<1> QED
  BY <1>1, <1>2 DEF Orders

-----------------------------------------------------------------------------
(* The merge of the workspaces' results.                                   *)

Hits == [id : Int, score : Int]

(* The order of the results is strict and leaves no two of them unordered. *)
LEMMA BeforeOrders ==
    /\ \A a \in Hits : ~Before(a, a)
    /\ \A a, b \in Hits : a # b => Before(a, b) \/ Before(b, a)
    /\ \A a, b, c \in Hits : Before(a, b) /\ Before(b, c) => Before(a, c)
<1>1. \A a, b \in Hits : a.id = b.id /\ a.score = b.score => a = b
  BY DEF Hits
<1>2. \A a \in Hits : a.id \in Int /\ a.score \in Int
  BY DEF Hits
<1> QED
  BY <1>1, <1>2 DEF Before

(* Each place of the order is taken by one result. *)
LEMMA PlacesTaken ==
    ASSUME NEW all \in SUBSET Hits, IsFiniteSet(all)
    PROVE  /\ Cardinality(all) \in Nat
           /\ \A h \in all : Place(h, all) \in 1..Cardinality(all)
           /\ \A g, h \in all : Before(g, h) <=> Place(g, all) < Place(h, all)
           /\ \A i \in 1..Cardinality(all) : \E h \in all : Place(h, all) = i
<1> DEFINE before == { p \in all \X all : Before(p[1], p[2]) }
<1>1. \A g, h \in all : <<g, h>> \in before <=> Before(g, h)
  OBVIOUS
<1> HIDE DEF before
<1>2. Orders(before, all)
  BY <1>1, BeforeOrders DEF Orders
<1>3. ASSUME NEW h \in all
      PROVE  Place(h, all) = PlaceIn(all, before, h)
  <2>1. { g \in all : Before(g, h) } = { g \in all : <<g, h>> \in before }
    BY <1>1
  <2> QED
    BY <2>1 DEF Place, PlaceIn
<1>4. /\ Cardinality(all) \in Nat
      /\ \A h \in all : PlaceIn(all, before, h) \in 1..Cardinality(all)
      /\ \A g, h \in all :
            <<g, h>> \in before <=> PlaceIn(all, before, g) < PlaceIn(all, before, h)
      /\ \A i \in 1..Cardinality(all) : \E h \in all : PlaceIn(all, before, h) = i
  BY <1>2, PlacesOf
<1> QED
  BY <1>1, <1>3, <1>4

AllHits(lists) == UNION { ToSet(lists[w]) : w \in SearchWorkspaces }

LEMMA HitsAreFinite ==
    ASSUME NEW lists \in [SearchWorkspaces -> Seq(Hits)]
    PROVE  AllHits(lists) \in SUBSET Hits /\ IsFiniteSet(AllHits(lists))
<1>1. ASSUME NEW w \in SearchWorkspaces
      PROVE  ToSet(lists[w]) \in SUBSET Hits /\ IsFiniteSet(ToSet(lists[w]))
  <2> DEFINE l == lists[w]
             S == ToSet(l)
  <2>1. l \in Seq(Hits) /\ Len(l) \in Nat /\ DOMAIN l = 1..Len(l)
    OBVIOUS
  <2> HIDE DEF l
  <2>2. S = { l[i] : i \in 1..Len(l) }
    BY <2>1 DEF ToSet
  <2> HIDE DEF S
  <2>3. S \in SUBSET Hits /\ l \in Surjection(1..Len(l), S)
    BY <2>1, <2>2 DEF Surjection
  <2>4. IsFiniteSet(1..Len(l))
    BY <2>1, FS_Interval
  <2>5. IsFiniteSet(S)
    BY <2>3, <2>4, FS_Surjection
  <2> QED
    BY <2>3, <2>5 DEF S, l
<1>2. IsFiniteSet({ ToSet(lists[w]) : w \in SearchWorkspaces })
  <2> DEFINE f == [w \in SearchWorkspaces |-> ToSet(lists[w])]
             S == { f[w] : w \in SearchWorkspaces }
  <2>1. f \in Surjection(SearchWorkspaces, S)
    BY DEF Surjection
  <2>2. S = { ToSet(lists[w]) : w \in SearchWorkspaces }
    OBVIOUS
  <2> HIDE DEF f, S
  <2>3. IsFiniteSet(S)
    BY <2>1, SearchFlowAssumption, FS_Surjection
  <2> QED
    BY <2>2, <2>3
<1>3. IsFiniteSet(UNION { ToSet(lists[w]) : w \in SearchWorkspaces })
  BY <1>1, <1>2, FS_UNION
<1> QED
  BY <1>1, <1>3 DEF AllHits

(* The merge is the best of all hits, in order. *)
LEMMA MergeIsBest ==
    ASSUME NEW lists \in [SearchWorkspaces -> Seq(Hits)], NEW n \in Nat
    PROVE  LET all == AllHits(lists)
               merged == Merge(lists, n) IN
           /\ merged \in Seq(Hits)
           /\ Len(merged) = Min({n, Cardinality(all)})
           /\ \A i \in DOMAIN merged :
                /\ merged[i] \in all
                /\ \A h \in all \ ToSet(merged) : Before(merged[i], h)
                /\ \A j \in DOMAIN merged : i < j => Before(merged[i], merged[j])
<1> DEFINE all == AllHits(lists)
           merged == Merge(lists, n)
           N == Cardinality(all)
           m == Min({n, N})
           sorted == InOrder(all)
<1>1. all \in SUBSET Hits /\ IsFiniteSet(all)
  BY HitsAreFinite
<1>2. merged = SubSeq(sorted, 1, m)
  BY DEF Merge, AllHits
<1>3. sorted = [i \in 1..N |-> CHOOSE h \in all : Place(h, all) = i]
  BY DEF InOrder
<1> HIDE DEF all, merged, N, sorted
<1>4. /\ N \in Nat
      /\ \A h \in all : Place(h, all) \in 1..N
      /\ \A g, h \in all : Before(g, h) <=> Place(g, all) < Place(h, all)
      /\ \A i \in 1..N : \E h \in all : Place(h, all) = i
  BY <1>1, PlacesTaken DEF N
<1>5. \A i \in 1..N : sorted[i] \in all /\ Place(sorted[i], all) = i
  BY <1>3, <1>4
<1>6. m = IF n <= N THEN n ELSE N
  BY <1>4, LesserOf
<1> HIDE DEF m
<1>7. m \in 0..N /\ (m < N => m = n)
  BY <1>4, <1>6
<1>8. \A i \in 1..m : sorted[i] \in Hits /\ i \in 1..N
  BY <1>1, <1>4, <1>5, <1>7
<1>9. /\ merged \in Seq(Hits) /\ Len(merged) = m /\ DOMAIN merged = 1..m
      /\ \A i \in 1..m : merged[i] = sorted[i]
  <2>1. m \in Int /\ 1 \in Int /\ m \in Nat
    BY <1>4, <1>7
  <2>2. /\ SubSeq(sorted, 1, m) \in Seq(Hits)
        /\ Len(SubSeq(sorted, 1, m)) = IF 1 <= m THEN m - 1 + 1 ELSE 0
        /\ \A i \in 1..(m - 1 + 1) : SubSeq(sorted, 1, m)[i] = sorted[1 + i - 1]
    BY <1>8, <2>1, SubSeqProperties
  <2>3. Len(merged) = m /\ merged \in Seq(Hits)
    BY <1>2, <2>1, <2>2
  <2>4. ASSUME NEW i \in 1..m
        PROVE  merged[i] = sorted[i]
    <3>1. i \in 1..(m - 1 + 1) /\ 1 + i - 1 = i
      BY <2>1
    <3> QED
      BY <1>2, <2>2, <3>1
  <2> QED
    BY <2>3, <2>4
<1>10. ASSUME NEW i \in 1..m
       PROVE  /\ merged[i] \in all
              /\ \A h \in all \ ToSet(merged) : Before(merged[i], h)
              /\ \A j \in 1..m : i < j => Before(merged[i], merged[j])
  <2>1. merged[i] \in all /\ Place(merged[i], all) = i
    BY <1>5, <1>8, <1>9
  <2>2. ASSUME NEW h \in all \ ToSet(merged)
        PROVE  Before(merged[i], h)
    <3>1. PICK p \in 1..N : p = Place(h, all)
      BY <1>4
    <3>2. p \notin 1..m
      <4>1. SUFFICES ASSUME p \in 1..m
                     PROVE  FALSE
        OBVIOUS
      <4>2. merged[p] \in all /\ Place(merged[p], all) = p /\ merged[p] \in ToSet(merged)
        BY <1>5, <1>8, <1>9, <4>1 DEF ToSet
      <4>3. ~Before(merged[p], h) /\ ~Before(h, merged[p])
        BY <1>4, <3>1, <4>2
      <4> QED
        BY <1>1, <4>2, <4>3, BeforeOrders
    <3>3. i < p
      BY <1>4, <1>7, <3>2
    <3> QED
      BY <1>4, <2>1, <3>1, <3>3
  <2>3. ASSUME NEW j \in 1..m, i < j
        PROVE  Before(merged[i], merged[j])
    <3>1. merged[j] \in all /\ Place(merged[j], all) = j
      BY <1>5, <1>8, <1>9
    <3> QED
      BY <1>4, <2>1, <2>3, <3>1
  <2> QED
    BY <2>1, <2>2, <2>3
<1> QED
  BY <1>9, <1>10 DEF all, merged, m, N

-----------------------------------------------------------------------------
(* What the caller of a search gets.                                       *)

Asked ==
    [surface : Surfaces, mode : {"hybrid", "keyword"}, limit : 1..LargestLimit,
     minScore : {0, 50}, scope : (SUBSET SearchWorkspaces) \ {{}}]

(* The response tells what its own sources amount to. *)
Tells(r) ==
    r.status = "ok" =>
        /\ r.sources \in [SearchWorkspaces -> Seq(Hits)] /\ r.limit \in Nat
        /\ r.results = Merge(r.sources, r.limit)
        /\ wanted.surface # "mcp" => r.verdict = Evaluate(r.results)

AnswerInv ==
    /\ FlowInv
    /\ searchPhase \in {"retrieving", "retrying", "done"}
    /\ wanted \in FlowRequests /\ current \in Asked
    /\ found \in [SearchWorkspaces -> Seq(Hits)]
    /\ response.status \in {"none", "ok", "error"}
    /\ unguarded \subseteq SearchWorkspaces
    /\ IsFiniteSet(Running) /\ Cardinality(Running) <= Concurrency
    /\ Tells(response)

LEMMA RequestsAsked == FlowRequests \subseteq Asked
<1>1. AskedLimits \subseteq 1..LargestLimit
  BY SearchFlowAssumption
<1> QED
  BY <1>1 DEF FlowRequests, Asked

(* Fewer searches run, or none. *)
LEMMA FewerRun ==
    ASSUME IsFiniteSet(Running), Cardinality(Running) <= Concurrency, Running' \subseteq Running
    PROVE  IsFiniteSet(Running') /\ Cardinality(Running') <= Concurrency
<1> DEFINE R == Running
           Q == Running'
<1>1. IsFiniteSet(R) /\ Cardinality(R) <= Concurrency /\ Q \in SUBSET R /\ Concurrency \in Int
  BY SearchFlowAssumption
<1> HIDE DEF R, Q
<1>2. IsFiniteSet(Q) /\ Cardinality(Q) <= Cardinality(R)
  BY <1>1, FS_Subset
<1>3. Cardinality(Q) \in Nat /\ Cardinality(R) \in Nat
  BY <1>1, <1>2, FS_CardinalityType
<1>4. IsFiniteSet(Q) /\ Cardinality(Q) <= Concurrency
  BY <1>1, <1>2, <1>3
<1> QED
  BY <1>4 DEF Q

LEMMA NoneRun ==
    ASSUME \A w \in SearchWorkspaces : tasks[w] \notin {"checking", "querying"}
    PROVE  IsFiniteSet(Running) /\ Cardinality(Running) <= Concurrency /\ Running = {}
<1>1. Running = {}
  BY DEF Running
<1> QED
  BY <1>1, FS_EmptySet, SearchFlowAssumption

LEMMA InitAnswerInv ==
    ASSUME FlowInit
    PROVE  AnswerInv
<1>1. AskedLimits \in SUBSET Nat /\ AskedLimits # {}
  BY SearchFlowAssumption
<1>2. Min(AskedLimits) \in AskedLimits
  <2>1. \E x \in AskedLimits : \A y \in AskedLimits : x <= y
    BY <1>1, LeastOf
  <2> QED
    BY <2>1 DEF Min
<1>3. /\ searchPhase = "done" /\ current = wanted /\ tasks = NoTasks /\ found = NothingFound
      /\ response = NoResponse /\ unguarded = {}
      /\ wanted = [surface |-> "all", mode |-> "hybrid", limit |-> Min(AskedLimits),
                   minScore |-> 0, scope |-> SearchWorkspaces]
  BY DEF FlowInit
<1>4. wanted \in FlowRequests
  <2>1. SearchWorkspaces \in (SUBSET SearchWorkspaces) \ {{}}
    BY SearchFlowAssumption
  <2>2. "all" \in Surfaces /\ "hybrid" \in {"hybrid", "keyword"} /\ 0 \in {0, 50}
    BY DEF Surfaces
  <2> QED
    BY <1>2, <1>3, <2>1, <2>2 DEF FlowRequests
<1>5. found \in [SearchWorkspaces -> Seq(Hits)] /\ response.status = "none"
  BY <1>3 DEF NothingFound, NoResponse
<1>6. IsFiniteSet(Running) /\ Cardinality(Running) <= Concurrency
  BY <1>3, NoneRun DEF NoTasks
<1> QED
  BY <1>3, <1>4, <1>5, <1>6, RequestsAsked, InitFlowInv DEF AnswerInv, Tells

(* A retrieval that raises keeps the response that there was, or is an error. *)
LEMMA RaiseTells ==
    ASSUME AnswerInv, Raise
    PROVE  /\ searchPhase' = "done" /\ UNCHANGED <<wanted, current, found>>
           /\ response'.status \in {"none", "ok", "error"} /\ Tells(response)'
<1>1. "status" \in DOMAIN response
  BY DEF AnswerInv, FlowInv, FlowShape, NoResponse
<1>2. /\ searchPhase' = "done" /\ UNCHANGED <<wanted, current, found>>
      /\ response' = response \/ response'.status = "error"
  BY <1>1 DEF Raise
<1> QED
  BY <1>2 DEF AnswerInv, Tells

(* What a workspace's search serves is a list of hits. *)
LEMMA ListsOfHits ==
    ASSUME NEW w \in SearchWorkspaces, NEW r \in Asked, NEW l \in ResultLists(w, r)
    PROVE  l \in Seq(Hits)
<1> DEFINE Listed(n) ==
             \E s \in [1..n -> HitScores] :
                l = [i \in 1..n |-> [id |-> LargestLimit * w + i, score |-> s[i]]]
<1>0. PICK n \in 0..r.limit : Listed(n)
  BY Zenon DEF ResultLists
<1>1. PICK s \in [1..n -> HitScores] :
        l = [i \in 1..n |-> [id |-> LargestLimit * w + i, score |-> s[i]]]
  BY <1>0
<1>2. n \in Nat /\ \A i \in 1..n : s[i] \in Int
  <2>1. \A x \in HitScores : x \in Int
    BY SearchFlowAssumption
  <2>2. n \in Nat
    BY DEF Asked
  <2>3. \A i \in 1..n : s[i] \in HitScores
    OBVIOUS
  <2> QED
    BY <2>1, <2>2, <2>3
<1>3. LargestLimit * w \in Int
  BY SearchFlowAssumption
<1> DEFINE base == LargestLimit * w
<1> HIDE DEF base
<1>4. l = [i \in 1..n |-> [id |-> base + i, score |-> s[i]]] /\ base \in Int
  BY <1>1, <1>3 DEF base
<1>5. \A i \in 1..n : [id |-> base + i, score |-> s[i]] \in Hits
  BY <1>2, <1>4 DEF Hits
<1> QED
  BY <1>2, <1>4, <1>5

LEMMA BeginSearchTells ==
    ASSUME AnswerInv, BeginSearch
    PROVE  AnswerInv'
<1>1. PICK r \in FlowRequests :
         /\ wanted' = r /\ current' = r
         /\ tasks' = [w \in SearchWorkspaces |-> IF w \in r.scope THEN "waiting" ELSE "none"]
  BY DEF BeginSearch
<1>2. /\ searchPhase' = "retrieving" /\ found' = NothingFound /\ response' = NoResponse
      /\ unguarded' = unguarded
  BY DEF BeginSearch
<1>3. \A w \in SearchWorkspaces : tasks'[w] \notin {"checking", "querying"}
  BY <1>1
<1>4. Running' = {}
  BY <1>3 DEF Running
<1>5. IsFiniteSet(Running') /\ Cardinality(Running') <= Concurrency
  BY <1>4, FS_EmptySet, SearchFlowAssumption
<1>6. found' \in [SearchWorkspaces -> Seq(Hits)] /\ response'.status = "none"
  BY <1>2 DEF NothingFound, NoResponse
<1>7. FlowInv'
  BY BeginSearchKeeps DEF AnswerInv
<1> QED
  BY <1>1, <1>2, <1>5, <1>6, <1>7, RequestsAsked DEF AnswerInv, Tells

(* A step of one workspace's search that starts no other. *)
LEMMA TaskTells ==
    ASSUME AnswerInv, FlowInv', searchPhase' \in {searchPhase, "done"},
           UNCHANGED <<wanted, current>>, found' \in [SearchWorkspaces -> Seq(Hits)],
           unguarded' \subseteq SearchWorkspaces,
           IsFiniteSet(Running') /\ Cardinality(Running') <= Concurrency,
           response'.status \in {"none", "ok", "error"} /\ Tells(response)'
    PROVE  AnswerInv'
BY DEF AnswerInv

LEMMA StartTaskTells ==
    ASSUME AnswerInv, NEW w \in SearchWorkspaces, StartTask(w)
    PROVE  AnswerInv'
<1> DEFINE R == Running
           Q == Running'
<1>1. /\ tasks[w] = "waiting"
      /\ Cardinality(R) < IF wanted.surface = "all" THEN Concurrency ELSE 1
      /\ UNCHANGED <<searchPhase, wanted, current, found, response, unguarded>>
  BY DEF StartTask
<1>2. \A v \in SearchWorkspaces : v # w => tasks'[v] = tasks[v]
  BY DEF StartTask, AnswerInv, FlowInv, FlowShape
<1>3. Q \in SUBSET (R \cup {w})
  BY <1>2 DEF Running
<1>4. IsFiniteSet(R) /\ Concurrency \in Nat \ {0}
  BY SearchFlowAssumption DEF AnswerInv
<1> HIDE DEF R, Q
<1>5. Cardinality(R) \in Nat
  BY <1>4, FS_CardinalityType
<1>6. Cardinality(R) + 1 <= Concurrency
  BY <1>1, <1>4, <1>5
<1>7. IsFiniteSet(R \cup {w}) /\ Cardinality(R \cup {w}) <= Cardinality(R) + 1
  BY <1>4, <1>5, FS_AddElement
<1>8. IsFiniteSet(Q) /\ Cardinality(Q) <= Cardinality(R \cup {w})
  BY <1>3, <1>7, FS_Subset
<1>9. Cardinality(Q) \in Nat /\ Cardinality(R \cup {w}) \in Nat
  BY <1>7, <1>8, FS_CardinalityType
<1>10. IsFiniteSet(Q) /\ Cardinality(Q) <= Concurrency
  BY <1>4, <1>5, <1>6, <1>7, <1>8, <1>9
<1>11. FlowInv'
  BY StartTaskKeeps DEF AnswerInv
<1> QED
  BY <1>1, <1>10, <1>11, TaskTells DEF AnswerInv, Tells, Q

LEMMA StampTells ==
    ASSUME AnswerInv, NEW w \in SearchWorkspaces, StampCollection(w)
    PROVE  AnswerInv'
<1>1. UNCHANGED <<searchPhase, wanted, current, tasks, found, response, unguarded>>
  BY DEF StampCollection
<1>2. FlowInv'
  BY StampCollectionKeeps DEF AnswerInv
<1> QED
  BY <1>1, <1>2, TaskTells DEF AnswerInv, Tells, Running

LEMMA IdentityTells ==
    ASSUME AnswerInv, NEW w \in SearchWorkspaces,
           IdentityUnread(w) \/ IdentityAccepted(w) \/ IdentityMismatch(w)
    PROVE  AnswerInv'
<1>1. tasks[w] = "checking" /\ UNCHANGED <<wanted, current, found>>
      /\ unguarded' \in {unguarded, unguarded \cup {w}}
  BY DEF IdentityUnread, IdentityAccepted, IdentityMismatch, Raise
<1>2. \A v \in SearchWorkspaces : v # w => tasks'[v] = tasks[v]
  BY DEF IdentityUnread, IdentityAccepted, IdentityMismatch, AnswerInv, FlowInv, FlowShape
<1>3. Running' \subseteq Running
  BY <1>1, <1>2 DEF Running
<1>4. IsFiniteSet(Running') /\ Cardinality(Running') <= Concurrency
  BY <1>3, FewerRun DEF AnswerInv
<1>5. FlowInv'
  BY IdentityKeeps DEF AnswerInv
<1>6. /\ searchPhase' \in {searchPhase, "done"}
      /\ response'.status \in {"none", "ok", "error"} /\ Tells(response)'
  <2>1. CASE Raise
    BY <2>1, RaiseTells
  <2>2. CASE UNCHANGED <<searchPhase, response>>
    BY <1>1, <2>2 DEF AnswerInv, Tells
  <2> QED
    BY <2>1, <2>2 DEF IdentityUnread, IdentityAccepted, IdentityMismatch
<1>7. found' \in [SearchWorkspaces -> Seq(Hits)] /\ unguarded' \subseteq SearchWorkspaces
  BY <1>1 DEF AnswerInv
<1> QED
  BY <1>1, <1>4, <1>5, <1>6, <1>7, TaskTells

LEMMA QueryTells ==
    ASSUME AnswerInv, NEW w \in SearchWorkspaces, QueryAnswers(w) \/ QueryFails(w)
    PROVE  AnswerInv'
<1>1. tasks[w] = "querying" /\ UNCHANGED <<wanted, current, unguarded>>
  BY DEF QueryAnswers, QueryFails, Raise
<1>2. \A v \in SearchWorkspaces : v # w => tasks'[v] = tasks[v]
  BY DEF QueryAnswers, QueryFails, AnswerInv, FlowInv, FlowShape
<1>3. Running' \subseteq Running
  BY <1>1, <1>2 DEF Running
<1>4. IsFiniteSet(Running') /\ Cardinality(Running') <= Concurrency
  BY <1>3, FewerRun DEF AnswerInv
<1>5. FlowInv'
  BY QueryAnswersKeeps, QueryFailsKeeps DEF AnswerInv
<1>6. found' \in [SearchWorkspaces -> Seq(Hits)]
  <2>1. CASE QueryAnswers(w)
    <3>1. PICK l \in ResultLists(w, current) : found' = [found EXCEPT ![w] = l]
      BY <2>1 DEF QueryAnswers
    <3>2. l \in Seq(Hits)
      BY <3>1, ListsOfHits DEF AnswerInv
    <3> QED
      BY <3>1, <3>2 DEF AnswerInv
  <2>2. CASE QueryFails(w)
    BY <2>2 DEF QueryFails, Raise, AnswerInv
  <2> QED
    BY <2>1, <2>2
<1>7. /\ searchPhase' \in {searchPhase, "done"}
      /\ response'.status \in {"none", "ok", "error"} /\ Tells(response)'
  <2>1. CASE Raise
    BY <2>1, RaiseTells
  <2>2. CASE UNCHANGED <<searchPhase, response>>
    BY <1>1, <2>2 DEF AnswerInv, Tells
  <2> QED
    BY <2>1, <2>2 DEF QueryAnswers, QueryFails
<1>8. unguarded' \subseteq SearchWorkspaces
  BY <1>1 DEF AnswerInv
<1> QED
  BY <1>1, <1>4, <1>5, <1>6, <1>7, <1>8, TaskTells

LEMMA EmbedFailsTells ==
    ASSUME AnswerInv, EmbedFails
    PROVE  AnswerInv'
<1>1. tasks' = NoTasks /\ Raise /\ unguarded' = unguarded
  BY DEF EmbedFails
<1>2. Running' \subseteq Running
  BY <1>1 DEF Running, NoTasks
<1>3. IsFiniteSet(Running') /\ Cardinality(Running') <= Concurrency
  BY <1>2, FewerRun DEF AnswerInv
<1>4. FlowInv'
  BY EmbedFailsKeeps DEF AnswerInv
<1>5. /\ searchPhase' = "done" /\ UNCHANGED <<wanted, current, found>>
      /\ response'.status \in {"none", "ok", "error"} /\ Tells(response)'
  BY <1>1, RaiseTells
<1> QED
  BY <1>1, <1>3, <1>4, <1>5, TaskTells DEF AnswerInv

(* A fallback asks for no more than the largest limit. *)
LEMMA FallbackAsked ==
    ASSUME NEW r \in Asked, NEW verdict
    PROVE  FallbackRequest(r, verdict) \in Asked
<1>1. r.limit \in 1..LargestLimit /\ LargestLimit \in Nat
  BY SearchFlowAssumption DEF Asked
<1>2. Min({2 * r.limit, LargestLimit}) \in 1..LargestLimit
  <2> DEFINE n == 2 * r.limit
  <2>1. n \in Nat /\ n >= 1
    BY <1>1
  <2> HIDE DEF n
  <2>2. Min({n, LargestLimit}) \in 1..LargestLimit
    BY <1>1, <2>1, LesserOf
  <2> QED
    BY <2>2 DEF n
<1>3. [r EXCEPT !.mode = "keyword"] \in Asked
  BY DEF Asked
<1>4. [r EXCEPT !.minScore = 0, !.limit = Min({2 * @, LargestLimit})] \in Asked
  BY <1>2 DEF Asked
<1> QED
  BY <1>3, <1>4 DEF FallbackRequest

LEMMA GatherTells ==
    ASSUME AnswerInv, Gather
    PROVE  AnswerInv'
<1>1. /\ response' = Complete(found, current) /\ found' = NothingFound
      /\ UNCHANGED <<wanted, unguarded>>
      /\ searchPhase' \in {"retrying", "done"}
      /\ current' \in {current, FallbackRequest(current, response'.verdict)}
      /\ tasks' \in {NoTasks,
                     [w \in SearchWorkspaces |-> IF w \in wanted.scope THEN "waiting" ELSE "none"]}
  BY DEF Gather
<1>2. current' \in Asked
  BY <1>1, FallbackAsked DEF AnswerInv
<1>3. Running' \subseteq Running
  BY <1>1 DEF Running, NoTasks
<1>4. IsFiniteSet(Running') /\ Cardinality(Running') <= Concurrency
  BY <1>3, FewerRun DEF AnswerInv
<1>5. FlowInv'
  BY GatherKeeps DEF AnswerInv
<1>6. /\ response'.status = "ok" /\ response'.sources = found
      /\ response'.limit = current.limit
      /\ response'.results = Merge(found, current.limit)
      /\ wanted.surface # "mcp" => response'.verdict = Evaluate(response'.results)
  <2> DEFINE merged == Merge(found, current.limit)
             verdict == Evaluate(merged)
  <2>1. response' = [status |-> "ok", results |-> merged, mode |-> current.mode,
                     limit |-> current.limit, fallback |-> searchPhase = "retrying",
                     sources |-> found,
                     verdict |-> IF wanted.surface = "mcp" THEN "none" ELSE verdict]
    BY <1>1 DEF Complete
  <2>2. response'.results = merged
    BY <2>1
  <2> HIDE DEF merged, verdict
  <2>3. /\ response'.status = "ok" /\ response'.sources = found
        /\ response'.limit = current.limit
        /\ wanted.surface # "mcp" => response'.verdict = verdict
    BY <2>1
  <2> QED
    BY <2>2, <2>3 DEF merged, verdict
<1>7. found \in [SearchWorkspaces -> Seq(Hits)] /\ current.limit \in Nat
  BY DEF AnswerInv, Asked
<1>8. Tells(response)'
  <2>1. /\ response'.sources \in [SearchWorkspaces -> Seq(Hits)] /\ response'.limit \in Nat
        /\ response'.results = Merge(response'.sources, response'.limit)
    BY <1>6, <1>7
  <2> QED
    BY <1>1, <1>6, <2>1 DEF Tells, Merge, InOrder, Place
<1>9. found' \in [SearchWorkspaces -> Seq(Hits)]
  BY <1>1 DEF NothingFound
<1> QED
  BY <1>1, <1>2, <1>4, <1>5, <1>6, <1>8, <1>9 DEF AnswerInv

LEMMA AnswerInvAlways ==
    FlowSpec => []AnswerInv
<1>1. AnswerInv /\ [FlowNext]_flowVars => AnswerInv'
  <2>1. ASSUME AnswerInv, UNCHANGED flowVars
        PROVE  AnswerInv'
    BY <2>1 DEF flowVars, AnswerInv, FlowInv, FlowShape, TasksInScope, SearchesVetted, Vetted,
                NoResponse, Running, Tells
  <2> QED
    BY <2>1, BeginSearchTells, EmbedFailsTells, GatherTells, StampTells, StartTaskTells,
       IdentityTells, QueryTells
    DEF FlowNext
<1> QED
  BY <1>1, InitAnswerInv, PTL DEF FlowSpec

(* What a search answers is the best of what the workspaces' searches that *)
(* did not fail found, in order and cut to the limit, with the verdict on  *)
(* just these results (search_documents, _apply_quality_gate_and_fallback)*)
(* never do more searches run than the semaphore lets through, for any     *)
(* workspaces, scores, limits, failures and number of requests.            *)
THEOREM AnswersAreSound ==
    FlowSpec => []SearchAnswerSound
<1>1. ASSUME AnswerInv
      PROVE  SearchAnswerSound
  <2>1. FlowTypeOK
    BY <1>1 DEF AnswerInv, FlowInv, FlowShape, TaskStates, Asked, FlowTypeOK
  <2>2. BestOfWhatAnswered
    <3>1. SUFFICES ASSUME response.status = "ok"
                   PROVE  BestOfWhatAnswered
      BY DEF BestOfWhatAnswered
    <3> DEFINE lists == response.sources
               n == response.limit
    <3>2. /\ lists \in [SearchWorkspaces -> Seq(Hits)] /\ n \in Nat
          /\ response.results = Merge(lists, n)
      BY <1>1, <3>1 DEF AnswerInv, Tells
    <3> HIDE DEF lists, n
    <3> DEFINE all == AllHits(lists)
               merged == Merge(lists, n)
    <3>3. /\ Len(merged) = Min({n, Cardinality(all)})
          /\ \A i \in DOMAIN merged :
                /\ merged[i] \in all
                /\ \A h \in all \ ToSet(merged) : Before(merged[i], h)
                /\ \A j \in DOMAIN merged : i < j => Before(merged[i], merged[j])
      BY <3>2, MergeIsBest
    <3>4. all = UNION { ToSet(response.sources[w]) : w \in SearchWorkspaces }
      BY DEF AllHits, lists
    <3> HIDE DEF all, merged
    <3> QED
      BY <3>2, <3>3, <3>4 DEF BestOfWhatAnswered, merged, n
  <2>3. VerdictOfWhatIsServed
    BY <1>1 DEF AnswerInv, Tells, VerdictOfWhatIsServed
  <2> QED
    BY <2>1, <2>2, <2>3 DEF SearchAnswerSound
<1> QED
  BY <1>1, AnswerInvAlways, PTL

-----------------------------------------------------------------------------
(* A list made of some places of another, in an order.                     *)
Arranges(made, V, list, K, before) ==
    /\ made \in Seq(V) /\ Len(made) = Cardinality(K)
    /\ \E order : /\ Sorts(order, K, before)
                  /\ \A n \in 1..Cardinality(K) : made[n] = list[order[n]]

(* An arranged list has one member for each of the places it takes. *)
LEMMA ArrangedIs ==
    ASSUME NEW N \in Nat, NEW V, NEW list \in [1..N -> V], NEW K \in SUBSET (1..N),
           NEW before, Orders(before, K)
    PROVE  Arranges(Arranged(list, K, before), V, list, K, before)
<1> DEFINE order == Sorted(K, before)
           C == Cardinality(K)
<1>0. IsFiniteSet(1..N)
  BY FS_Interval
<1>1. IsFiniteSet(K)
  BY <1>0, FS_Subset
<1>2. Sorts(order, K, before)
  BY <1>1, SortedTakes
<1>3. Arranged(list, K, before) = [n \in DOMAIN order |-> list[order[n]]]
  BY DEF Arranged
<1> HIDE DEF order
<1>4. C \in Nat /\ order \in [1..C -> K]
  BY <1>2 DEF Sorts
<1> HIDE DEF C
<1>5. Arranged(list, K, before) = [n \in 1..C |-> list[order[n]]]
  BY <1>3, <1>4
<1>6. \A n \in 1..C : list[order[n]] \in V
  BY <1>4
<1>7. [n \in 1..C |-> list[order[n]]] \in [1..C -> V]
  BY <1>6
<1> DEFINE made == [n \in 1..C |-> list[order[n]]]
<1>8. made \in Seq(V) /\ Len(made) = C
  BY <1>4, <1>7
<1> QED
  BY <1>2, <1>5, <1>8 DEF Arranges, C

-----------------------------------------------------------------------------
(* What a search of a workspace works with: results of distinct chunks, as *)
(* the request asks for them.                                              *)

Result == [doc : Documents, index : Nat, reuse : Nat, score : Nat]

Results(hs) ==
    /\ hs \in Seq(Result)
    /\ \A i, j \in DOMAIN hs : SameChunk(hs[i], hs[j]) => i = j
    /\ \A i \in DOMAIN hs : /\ <<hs[i].doc, hs[i].index>> \in Chunks
                            /\ hs[i].doc \in rankRequest.documents
                            /\ hs[i].score >= rankRequest.minScore

(* Best first. *)
Descending(hs) ==
    \A i, j \in DOMAIN hs : i < j => hs[i].score >= hs[j].score

(* What CutToLimit leaves of a list. *)
Cut(hs) ==
    IF rankRequest.diversify THEN Diversified(hs, rankRequest.limit)
    ELSE Prefix(hs, rankRequest.limit)

(* Before the cut the results are best first, after the boost the candidates
   are the boosted results, after the cut the results are the cut candidates:
   the properties of a step are about what the steps before it left. *)
RankInv ==
    /\ rankStep \in {"idle", "read", "boosted", "served", "expanded", "expansion_failed"}
    /\ rankRequest \in RankRequests
    /\ Results(hits) /\ Results(candidates)
    /\ rankStep \in {"read", "boosted"} => Descending(hits)
    /\ rankStep = "boosted" => \E weight \in Weights : candidates = Boosted(hits, weight)
    /\ rankStep = "served" => hits = Cut(candidates)
    /\ rankStep \in {"served", "expanded"} => Len(hits) <= rankRequest.limit
    /\ rankStep = "expanded" =>
          \E k \in Windows :
             context = AssignWindows(hits, IF k = 0 THEN {} ELSE ContextChunks(hits, k), k)

(* What a request asks for. *)
LEMMA RequestsTyped ==
    ASSUME rankRequest \in RankRequests
    PROVE  /\ rankRequest.limit \in Nat \ {0} /\ rankRequest.limit \in Limits
           /\ rankRequest.minScore \in {0, 50}
           /\ rankRequest.diversify \in BOOLEAN
           /\ rankRequest.documents \in SUBSET Documents
  BY RankingAssumption DEF RankRequests

(* A list that has some of the results of another, each once. *)
LEMMA SomeResults ==
    ASSUME rankRequest.minScore \in Int,
           NEW hs, Results(hs), NEW n \in Nat, NEW order \in [1..n -> DOMAIN hs],
           \A i, j \in 1..n : order[i] = order[j] => i = j,
           NEW ks \in Seq(Result), Len(ks) = n,
           \A i \in 1..n : /\ SameChunk(ks[i], hs[order[i]])
                           /\ ks[i].score >= hs[order[i]].score
    PROVE  Results(ks)
<1>2. DOMAIN ks = 1..n
  OBVIOUS
<1>3. ASSUME NEW i \in 1..n, NEW j \in 1..n, SameChunk(ks[i], ks[j])
      PROVE  i = j
  <2>1. order[i] \in DOMAIN hs /\ order[j] \in DOMAIN hs
    OBVIOUS
  <2>2. SameChunk(hs[order[i]], hs[order[j]])
    BY <1>3 DEF SameChunk
  <2> QED
    BY <2>1, <2>2 DEF Results
<1>4. ASSUME NEW i \in 1..n
      PROVE  /\ <<ks[i].doc, ks[i].index>> \in Chunks
             /\ ks[i].doc \in rankRequest.documents
             /\ ks[i].score >= rankRequest.minScore
  <2>1. order[i] \in DOMAIN hs /\ order[i] \in 1..Len(hs)
    BY DEF Results
  <2>2. hs[order[i]] \in Result /\ ks[i] \in Result
    BY <2>1 DEF Results
  <2>3. ks[i].doc = hs[order[i]].doc /\ ks[i].index = hs[order[i]].index
    BY DEF SameChunk
  <2>4. hs[order[i]].score >= rankRequest.minScore
    BY <2>1 DEF Results
  <2>5. ks[i].score \in Int /\ hs[order[i]].score \in Int
    BY <2>2 DEF Result
  <2>6. ks[i].score >= rankRequest.minScore
    BY <2>4, <2>5
  <2> QED
    BY <2>1, <2>3, <2>6 DEF Results
<1> QED
  BY <1>2, <1>3, <1>4 DEF Results

(* The boost: at least the score itself, and at most half of it more.      *)
LEMMA BoostBetween ==
    ASSUME NEW s \in Nat, NEW m \in 100..150
    PROVE  /\ (s * m) \div 100 \in Nat
           /\ s <= (s * m) \div 100
           /\ 2 * ((s * m) \div 100) <= 3 * s
<1>1. PICK c \in 0..50 : m = 100 + c
  <2>1. m - 100 \in 0..50 /\ m = 100 + (m - 100)
    OBVIOUS
  <2> QED
    BY <2>1
<1>2. s * m = 100 * s + s * c
  BY <1>1
<1> DEFINE p == s * c
<1>3. p \in Nat
  BY <1>1
<1>4. p + s * (50 - c) = 50 * s /\ s * (50 - c) \in Nat
  BY <1>1
<1> DEFINE q == s * (50 - c)
<1> HIDE DEF p, q
<1>5. p \in Nat /\ q \in Nat /\ p + q = 50 * s /\ s * m = 100 * s + p
  BY <1>2, <1>3, <1>4 DEF p, q
<1> DEFINE t == s * m
<1>6. t \in Nat /\ 100 * s <= t /\ t <= 150 * s
  BY <1>5
<1> HIDE DEF t
<1>7. t \div 100 \in Nat /\ s <= t \div 100 /\ 2 * (t \div 100) <= 3 * s
  BY <1>6
<1> QED
  BY <1>7 DEF t

(* No boost takes away, and none adds more than half. *)
LEMMA MultiplierBounded ==
    ASSUME NEW count \in Nat, NEW weight \in Nat
    PROVE  Multiplier(count, weight) \in 100..150
<1>1. CASE count <= 0 \/ weight <= 0
  BY <1>1 DEF Multiplier
<1>2. CASE ~(count <= 0 \/ weight <= 0)
  <2>1. Min({count, 4}) = IF count <= 4 THEN count ELSE 4
    BY LesserOf
  <2>2. Min({count, 4}) \in 1..4
    BY <1>2, <2>1
  <2>3. Log1p(count) \in {69, 110, 139, 161}
    BY <2>2 DEF Log1p
  <2> DEFINE w == (weight * Log1p(count)) \div 100
             b == 100 + w
  <2>4. weight * Log1p(count) \in Nat
    BY <2>3
  <2>5. w \in Nat
    BY <2>4
  <2>6. Multiplier(count, weight) = Min({BoostCap, b})
    BY <1>2 DEF Multiplier
  <2> HIDE DEF w
  <2>7. b \in Nat /\ b >= 100
    BY <2>5
  <2> HIDE DEF b
  <2>8. Min({BoostCap, b}) = IF BoostCap <= b THEN BoostCap ELSE b
    BY <2>7, LesserOf DEF BoostCap
  <2> QED
    BY <2>6, <2>7, <2>8 DEF BoostCap
<1> QED
  BY <1>1, <1>2

(* A boosted result is the same chunk, with its score in those bounds. *)
LEMMA ScaledIs ==
    ASSUME NEW h \in Result, NEW weight \in Nat
    PROVE  /\ Scaled(h, weight) \in Result /\ SameChunk(Scaled(h, weight), h)
           /\ h.score <= Scaled(h, weight).score
           /\ 2 * Scaled(h, weight).score <= 3 * h.score
<1> DEFINE m == Multiplier(h.reuse, weight)
           b == (h.score * m) \div 100
<1>1. h.score \in Nat /\ h.reuse \in Nat
  BY DEF Result
<1>2. m \in 100..150
  BY <1>1, MultiplierBounded
<1>3. b \in Nat /\ h.score <= b /\ 2 * b <= 3 * h.score
  <2> HIDE DEF m
  <2> QED
    BY <1>1, <1>2, BoostBetween
<1>4. Scaled(h, weight) = [h EXCEPT !.score = b]
  BY DEF Scaled
<1> HIDE DEF b
<1> QED
  BY <1>3, <1>4 DEF Result, SameChunk

(* A boost reorders the results, keeps each, and takes no result past one  *)
(* whose score is more than half higher.                                   *)
Reorders(hs, ks, order) ==
    /\ order \in [1..Len(hs) -> 1..Len(hs)]
    /\ \A i \in 1..Len(hs) : SameChunk(ks[i], hs[order[i]]) /\ ks[i].score >= hs[order[i]].score
    /\ \A i \in 1..Len(hs) : \E n \in 1..Len(hs) : order[n] = i
    /\ \A m, n \in 1..Len(hs) : order[m] = order[n] => m = n
    /\ \A m, n \in 1..Len(hs) : 2 * hs[order[m]].score > 3 * hs[order[n]].score => m < n

(* Boosting makes a reordering of the results. *)
LEMMA BoostedIs ==
    ASSUME rankRequest.minScore \in Int, NEW hs, Results(hs), Descending(hs),
           NEW weight \in Nat
    PROVE  /\ Results(Boosted(hs, weight))
           /\ Len(Boosted(hs, weight)) = Len(hs)
           /\ \E order : Reorders(hs, Boosted(hs, weight), order)
<1> DEFINE N == Len(hs)
           b == Boosted(hs, weight)
           scaled == [i \in DOMAIN hs |-> Scaled(hs[i], weight)]
           better == { p \in (DOMAIN hs) \X (DOMAIN hs) :
                         \/ scaled[p[1]].score > scaled[p[2]].score
                         \/ scaled[p[1]].score = scaled[p[2]].score /\ p[1] < p[2] }
<1>1. hs \in Seq(Result) /\ N \in Nat /\ DOMAIN hs = 1..N /\ \A i \in 1..N : hs[i] \in Result
  BY DEF Results
<1>2. \A i \in 1..N : hs[i].score \in Nat
  BY <1>1 DEF Result
<1>3. CASE weight <= 0
  <2>1. b = hs
    BY <1>3 DEF Boosted
  <2> DEFINE order == [i \in 1..N |-> i]
  <2>2. \A m, n \in 1..N : 2 * hs[m].score > 3 * hs[n].score => m < n
    <3>1. ASSUME NEW m \in 1..N, NEW n \in 1..N, 2 * hs[m].score > 3 * hs[n].score, ~(m < n)
          PROVE  FALSE
      <4>1. hs[m].score \in Nat /\ hs[n].score \in Nat
        BY <1>2
      <4>2. m = n \/ n < m
        BY <3>1
      <4>3. hs[n].score >= hs[m].score
        BY <1>1, <4>1, <4>2 DEF Descending
      <4> QED
        BY <3>1, <4>1, <4>3
    <3> QED
      BY <3>1
  <2>3. Reorders(hs, b, order)
    BY <1>1, <1>2, <2>1, <2>2 DEF Reorders, SameChunk
  <2> QED
    BY <2>1, <2>3
<1>4. CASE ~(weight <= 0)
  <2>1. b = Arranged(scaled, DOMAIN hs, better)
    BY <1>4 DEF Boosted
  <2>2. /\ scaled \in [1..N -> Result]
        /\ \A i \in 1..N : /\ SameChunk(scaled[i], hs[i]) /\ hs[i].score <= scaled[i].score
                           /\ 2 * scaled[i].score <= 3 * hs[i].score
    <3>1. ASSUME NEW i \in 1..N
          PROVE  /\ Scaled(hs[i], weight) \in Result /\ SameChunk(Scaled(hs[i], weight), hs[i])
                 /\ hs[i].score <= Scaled(hs[i], weight).score
                 /\ 2 * Scaled(hs[i], weight).score <= 3 * hs[i].score
      BY <1>1, ScaledIs
    <3> QED
      BY <1>1, <3>1
  <2>3. \A i \in 1..N : scaled[i].score \in Nat
    BY <2>2 DEF Result
  <2>4. \A i, j \in 1..N : <<i, j>> \in better <=>
            \/ scaled[i].score > scaled[j].score
            \/ scaled[i].score = scaled[j].score /\ i < j
    BY <1>1
  <2> HIDE DEF scaled, better, b, N
  <2>5. Orders(better, 1..N)
    <3>1. \A i \in 1..N : i \in Nat /\ scaled[i].score \in Nat
      BY <2>3
    <3> QED
      BY <2>4, <3>1 DEF Orders
  <2>6. Cardinality(1..N) = N
    BY <1>1, FS_Interval
  <2>7. b = Arranged(scaled, 1..N, better) /\ 1..N \in SUBSET (1..N)
    BY <1>1, <2>1
  <2>8. scaled \in [1..N -> Result]
    BY <2>2
  <2>9. Arranges(b, Result, scaled, 1..N, better)
    BY <1>1, <2>5, <2>7, <2>8, ArrangedIs
  <2>10. PICK order : /\ Sorts(order, 1..N, better)
                      /\ b \in Seq(Result) /\ Len(b) = N
                      /\ \A n \in 1..N : b[n] = scaled[order[n]]
    BY <2>6, <2>9 DEF Arranges
  <2>11. /\ order \in [1..N -> 1..N]
         /\ \A m, n \in 1..N : m < n <=> <<order[m], order[n]>> \in better
         /\ \A i \in 1..N : \E n \in 1..N : order[n] = i
         /\ \A m, n \in 1..N : order[m] = order[n] => m = n
    BY <2>6, <2>10 DEF Sorts
  <2>12. \A i \in 1..N : SameChunk(b[i], hs[order[i]]) /\ b[i].score >= hs[order[i]].score
    <3>1. ASSUME NEW i \in 1..N
          PROVE  SameChunk(b[i], hs[order[i]]) /\ b[i].score >= hs[order[i]].score
      <4>1. b[i] = scaled[order[i]] /\ order[i] \in 1..N
        BY <2>10, <2>11
      <4>2. hs[order[i]].score \in Nat /\ scaled[order[i]].score \in Nat
        BY <1>2, <2>3, <4>1
      <4> QED
        BY <2>2, <4>1, <4>2
    <3> QED
      BY <3>1
  <2>13. ASSUME NEW m \in 1..N, NEW n \in 1..N, 2 * hs[order[m]].score > 3 * hs[order[n]].score
         PROVE  m < n
    <3> DEFINE i == order[m]
               j == order[n]
    <3>1. i \in 1..N /\ j \in 1..N
      BY <2>11
    <3> HIDE DEF i, j
    <3>2. /\ hs[i].score \in Nat /\ hs[j].score \in Nat
          /\ scaled[i].score \in Nat /\ scaled[j].score \in Nat
          /\ hs[i].score <= scaled[i].score /\ 2 * scaled[j].score <= 3 * hs[j].score
      BY <1>2, <2>2, <2>3, <3>1
    <3>3. 2 * hs[i].score > 3 * hs[j].score
      BY <2>13 DEF i, j
    <3>4. scaled[i].score > scaled[j].score
      BY <3>2, <3>3
    <3>5. <<i, j>> \in better
      BY <2>4, <3>1, <3>4
    <3> QED
      BY <2>11, <3>5 DEF i, j
  <2>14. Reorders(hs, b, order)
    BY <2>11, <2>12, <2>13 DEF Reorders, N
  <2>15. Results(b)
    <3>1. /\ N \in Nat /\ order \in [1..N -> DOMAIN hs]
          /\ \A m, n \in 1..N : order[m] = order[n] => m = n
      BY <1>1, <2>11
    <3>2. b \in Seq(Result) /\ Len(b) = N
      BY <2>10
    <3> QED
      BY <2>12, <3>1, <3>2, SomeResults
  <2> QED
    BY <2>10, <2>14, <2>15 DEF N, b
<1> QED
  BY <1>1, <1>3, <1>4

(* A reordering keeps a result ahead of one it is more than half better than. *)
LEMMA BoostKeepsOrder ==
    ASSUME rankRequest.minScore \in Int, Results(hits), Descending(hits),
           NEW weight \in Nat, candidates = Boosted(hits, weight)
    PROVE  \A i, j \in DOMAIN hits :
              2 * hits[i].score > 3 * hits[j].score =>
                LET At(h) == CHOOSE n \in DOMAIN candidates : SameChunk(candidates[n], h)
                IN  At(hits[i]) < At(hits[j])
<1> DEFINE N == Len(hits)
           At(h) == CHOOSE n \in DOMAIN candidates : SameChunk(candidates[n], h)
<1>1. /\ Results(candidates) /\ Len(candidates) = N /\ N \in Nat
      /\ DOMAIN candidates = 1..N /\ DOMAIN hits = 1..N
  BY BoostedIs DEF Results
<1>2. PICK order : Reorders(hits, candidates, order)
  BY BoostedIs
<1> HIDE DEF N
<1>3. /\ order \in [1..N -> 1..N]
      /\ \A i \in 1..N : SameChunk(candidates[i], hits[order[i]])
      /\ \A i \in 1..N : \E n \in 1..N : order[n] = i
      /\ \A m, n \in 1..N : 2 * hits[order[m]].score > 3 * hits[order[n]].score => m < n
  BY <1>2 DEF Reorders, N
<1>4. ASSUME NEW i \in 1..N
      PROVE  At(hits[i]) \in 1..N /\ order[At(hits[i])] = i
  <2>1. PICK n \in 1..N : order[n] = i
    BY <1>3
  <2>2. n \in DOMAIN candidates /\ SameChunk(candidates[n], hits[i])
    BY <1>1, <1>3, <2>1
  <2>3. /\ At(hits[i]) \in DOMAIN candidates
        /\ SameChunk(candidates[At(hits[i])], hits[i])
    BY <2>2
  <2> DEFINE a == At(hits[i])
  <2>4. a \in 1..N /\ SameChunk(candidates[a], hits[i])
    BY <1>1, <2>3
  <2> HIDE DEF At
  <2>5. SameChunk(candidates[a], candidates[n])
    BY <2>2, <2>4 DEF SameChunk
  <2>6. a = n
    BY <1>1, <2>4, <2>5 DEF Results
  <2> QED
    BY <2>1, <2>4, <2>6
<1>5. ASSUME NEW i \in 1..N, NEW j \in 1..N, 2 * hits[i].score > 3 * hits[j].score
      PROVE  At(hits[i]) < At(hits[j])
  <2> HIDE DEF At
  <2> QED
    BY <1>3, <1>4, <1>5
<1> QED
  BY <1>1, <1>5

(* A finite set of numbers has a greatest.                                 *)
LEMMA GreatestOf ==
    ASSUME NEW N \in Nat, NEW S \in SUBSET (1..N), S # {}
    PROVE  \E x \in S : \A y \in S : y <= x
<1> DEFINE T == { N - x : x \in S }
<1>1. T \in SUBSET Nat /\ T # {}
  <2>1. ASSUME NEW x \in S
        PROVE  N - x \in Nat
    <3>1. x \in 1..N
      OBVIOUS
    <3> QED
      BY <3>1
  <2> QED
    BY <2>1
<1>2. PICK t \in T : \A u \in T : t <= u
  <2> HIDE DEF T
  <2> QED
    BY <1>1, LeastOf
<1>3. PICK x \in S : t = N - x
  BY <1>2
<1>4. \A y \in S : N - y \in T
  OBVIOUS
<1>5. \A y \in S : N - x <= N - y
  BY <1>2, <1>3, <1>4
<1> QED
  BY <1>5

(* The rounds of a document's results go up by one from each to the next.  *)
LEMMA RoundsAre ==
    ASSUME NEW hs, Results(hs), NEW i \in 1..Len(hs)
    PROVE  /\ Bucket(hs, hs[i].doc) \in SUBSET (1..Len(hs)) /\ i \in Bucket(hs, hs[i].doc)
           /\ Round(hs, i) \in Nat /\ Round(hs, i) >= 1
           /\ DocOrder(hs, i) \in 1..i /\ hs[DocOrder(hs, i)].doc = hs[i].doc
<1> DEFINE N == Len(hs)
           B == Bucket(hs, hs[i].doc)
           R == { j \in B : j <= i }
<1>1. N \in Nat /\ DOMAIN hs = 1..N
  BY DEF Results
<1>2. B \in SUBSET (1..N) /\ i \in B /\ \A j \in B : hs[j].doc = hs[i].doc
  BY <1>1 DEF Bucket
<1>3. IsFiniteSet(1..N)
  BY <1>1, FS_Interval
<1>4. Round(hs, i) = Cardinality(R)
  BY DEF Round
<1>5. DocOrder(hs, i) = Min(B)
  BY DEF DocOrder
<1> HIDE DEF B, N
<1>6. R \in SUBSET (1..N) /\ i \in R
  <2>1. i <= i
    BY <1>1, <1>2
  <2> QED
    BY <1>2, <2>1
<1> HIDE DEF R
<1>7. IsFiniteSet(R) /\ R # {}
  BY <1>3, <1>6, FS_Subset
<1>8. Cardinality(R) \in Nat /\ Cardinality(R) # 0
  BY <1>7, FS_CardinalityType, FS_EmptySet
<1>9. PICK x \in B : \A y \in B : x <= y
  <2>1. B \in SUBSET Nat /\ B # {}
    BY <1>1, <1>2
  <2> QED
    BY <2>1, LeastOf
<1>10. Min(B) \in B /\ \A y \in B : Min(B) <= y
  BY <1>9 DEF Min
<1>11. Min(B) \in 1..i
  <2> DEFINE b == Min(B)
  <2>1. b \in 1..N /\ b <= i /\ i \in 1..N
    BY <1>2, <1>10
  <2> HIDE DEF b
  <2>2. b \in 1..i
    BY <1>1, <2>1
  <2> QED
    BY <2>2 DEF b
<1> QED
  BY <1>1, <1>2, <1>4, <1>5, <1>8, <1>10, <1>11 DEF B, N

(* A later result of a document is taken in a later round. *)
LEMMA RoundsGrow ==
    ASSUME NEW hs, Results(hs), NEW i \in 1..Len(hs), NEW j \in 1..Len(hs),
           hs[i].doc = hs[j].doc, i < j
    PROVE  Round(hs, i) < Round(hs, j)
<1> DEFINE N == Len(hs)
           B == Bucket(hs, hs[j].doc)
           R == { m \in B : m <= i }
           S == { m \in B : m <= j }
<1>1. N \in Nat /\ B \in SUBSET (1..N) /\ j \in B
  BY RoundsAre DEF Results
<1>2. IsFiniteSet(1..N)
  BY <1>1, FS_Interval
<1>3. Round(hs, i) = Cardinality(R) /\ Round(hs, j) = Cardinality(S)
  BY DEF Round
<1> HIDE DEF B, N
<1>4. R \in SUBSET S /\ j \in S /\ j \notin R /\ S \in SUBSET (1..N)
  <2>1. i \in Int /\ j \in Int /\ \A m \in B : m \in Int
    BY <1>1
  <2>2. j <= j /\ ~(j <= i) /\ \A m \in B : m <= i => m <= j
    BY <2>1
  <2> QED
    BY <1>1, <2>2
<1> HIDE DEF R, S
<1>5. IsFiniteSet(S)
  BY <1>2, <1>4, FS_Subset
<1>6. /\ IsFiniteSet(R) /\ Cardinality(R) <= Cardinality(S)
      /\ Cardinality(S) = Cardinality(R) => S = R
  BY <1>4, <1>5, FS_Subset
<1>7. Cardinality(R) \in Nat /\ Cardinality(S) \in Nat
  BY <1>5, <1>6, FS_CardinalityType
<1> QED
  BY <1>3, <1>4, <1>6, <1>7

(* Taking in turn is an order. *)
LEMMA TurnsOrder ==
    ASSUME NEW hs, Results(hs)
    PROVE  /\ Orders(TakenBefore(hs), 1..Len(hs))
           /\ \A i, j \in 1..Len(hs) :
                /\ <<i, j>> \in TakenBefore(hs) => Round(hs, i) <= Round(hs, j)
                /\ hs[i].doc = hs[j].doc /\ i < j => <<i, j>> \in TakenBefore(hs)
           /\ \A i \in 1..Len(hs) : <<i, 1>> \notin TakenBefore(hs)
<1> DEFINE N == Len(hs)
           r == [i \in 1..N |-> Round(hs, i)]
           f == [i \in 1..N |-> DocOrder(hs, i)]
<1>1. N \in Nat /\ DOMAIN hs = 1..N
  BY DEF Results
<1>2. \A i \in 1..N : r[i] \in Nat /\ r[i] >= 1 /\ f[i] \in 1..i /\ hs[f[i]].doc = hs[i].doc
  BY RoundsAre
<1>3. \A i, j \in 1..N : hs[i].doc = hs[j].doc /\ i < j => r[i] < r[j]
  BY RoundsGrow
<1>4. \A i, j \in 1..N : <<i, j>> \in TakenBefore(hs) <=>
          r[i] < r[j] \/ (r[i] = r[j] /\ f[i] < f[j])
  BY <1>1 DEF TakenBefore
<1>5. r[1] = 1 \/ N = 0
  <2>1. CASE N # 0
    <3> DEFINE B == Bucket(hs, hs[1].doc)
    <3>1. B \in SUBSET (1..N) /\ 1 \in B /\ 1 \in 1..N
      BY <1>1, <2>1, RoundsAre
    <3>2. { j \in B : j <= 1 } = {1}
      <4> HIDE DEF B, N
      <4>1. \A j \in B : j <= 1 => j = 1
        BY <1>1, <3>1
      <4> DEFINE T == { j \in B : j <= 1 }
      <4>2. 1 <= 1
        OBVIOUS
      <4>3. 1 \in T /\ \A j \in T : j = 1
        BY <3>1, <4>1, <4>2
      <4> HIDE DEF T
      <4>4. T = {1}
        BY <4>3
      <4> QED
        BY <4>4 DEF T
    <3>3. Round(hs, 1) = Cardinality({1})
      BY <3>2 DEF Round
    <3>4. Cardinality({1}) = 1
      BY FS_Singleton
    <3> QED
      BY <3>1, <3>3, <3>4
  <2> QED
    BY <2>1
<1> HIDE DEF N, r, f
<1>6. \A i, j \in 1..N : r[i] = r[j] /\ f[i] = f[j] => i = j
  <2>1. ASSUME NEW i \in 1..N, NEW j \in 1..N, r[i] = r[j], f[i] = f[j]
        PROVE  i = j
    <3>1. hs[i].doc = hs[j].doc
      BY <1>2, <2>1
    <3>2. ~(i < j) /\ ~(j < i)
      BY <1>2, <1>3, <2>1, <3>1
    <3> QED
      BY <1>1, <3>2
  <2> QED
    BY <2>1
<1>7. \A i \in 1..N : r[i] \in Int /\ f[i] \in Int
  BY <1>2
<1>8. Orders(TakenBefore(hs), 1..N)
  BY <1>4, <1>6, <1>7 DEF Orders
<1>9. ASSUME NEW i \in 1..N
      PROVE  <<i, 1>> \notin TakenBefore(hs)
  <2>1. N # 0 /\ 1 \in 1..N
    BY <1>1
  <2>2. r[1] = 1 /\ f[1] = 1
    BY <1>2, <1>5, <2>1
  <2>3. r[i] >= 1 /\ f[i] >= 1
    BY <1>2
  <2> QED
    BY <1>4, <1>7, <2>1, <2>2, <2>3
<1>10. ASSUME NEW i \in 1..N, NEW j \in 1..N
       PROVE  /\ <<i, j>> \in TakenBefore(hs) => r[i] <= r[j]
              /\ hs[i].doc = hs[j].doc /\ i < j => <<i, j>> \in TakenBefore(hs)
  BY <1>3, <1>4, <1>7
<1> QED
  BY <1>8, <1>9, <1>10 DEF N, r

(* What the cut to the limit leaves.                                       *)
LEMMA PrefixIs ==
    ASSUME NEW V, NEW s \in Seq(V), NEW n \in Nat
    PROVE  /\ Prefix(s, n) \in Seq(V) /\ Len(Prefix(s, n)) \in Nat
           /\ Len(Prefix(s, n)) = Min({n, Len(s)})
           /\ Len(Prefix(s, n)) <= Len(s) /\ Len(Prefix(s, n)) <= n
           /\ n <= Len(s) => Len(Prefix(s, n)) = n
           /\ \A i \in 1..Len(Prefix(s, n)) : Prefix(s, n)[i] = s[i]
<1> DEFINE M == Len(s)
           L == IF n <= M THEN n ELSE M
<1>1. M \in Nat
  OBVIOUS
<1>2. Min({n, M}) = L
  BY <1>1, LesserOf
<1>3. L \in Nat /\ L <= M /\ L <= n /\ (n <= M => L = n)
  BY <1>1
<1>4. Prefix(s, n) = SubSeq(s, 1, L)
  BY <1>2 DEF Prefix
<1> HIDE DEF L
<1>5. /\ SubSeq(s, 1, L) \in Seq(V) /\ Len(SubSeq(s, 1, L)) = L
      /\ \A i \in 1..L : SubSeq(s, 1, L)[i] = s[i]
  BY <1>1, <1>3
<1> QED
  BY <1>2, <1>3, <1>4, <1>5 DEF L

(* The results that are cut, by the places they had. *)
Takes(hs, ks, order, n) ==
    /\ n \in Nat /\ n <= Len(hs) /\ ks \in Seq(Result) /\ Len(ks) = n
    /\ order \in [1..Len(hs) -> 1..Len(hs)]
    /\ \A i \in 1..n : ks[i] = hs[order[i]]
    /\ \A i \in 1..Len(hs) : \E m \in 1..Len(hs) : order[m] = i
    /\ \A i, m \in 1..Len(hs) : order[i] = order[m] => i = m

(* A diversified list is longer than the limit, and takes its places in turn. *)
LEMMA InTurn ==
    ASSUME NEW hs, Results(hs), NEW limit \in Nat \ {0}, ~(Len(hs) <= limit)
    PROVE  \E order : /\ Takes(hs, Diversified(hs, limit), order, limit)
                      /\ \A m, n \in 1..Len(hs) :
                            m < n <=> <<order[m], order[n]>> \in TakenBefore(hs)
<1> DEFINE N == Len(hs)
           before == TakenBefore(hs)
           a == Arranged(hs, 1..N, before)
<1>1. hs \in Seq(Result) /\ N \in Nat /\ DOMAIN hs = 1..N
  BY DEF Results
<1>2. Diversified(hs, limit) = Prefix(a, limit)
  BY <1>1 DEF Diversified
<1>3. Orders(before, 1..N)
  BY TurnsOrder
<1>4. hs \in [1..N -> Result]
  BY <1>1
<1> HIDE DEF N, before
<1>5. Cardinality(1..N) = N /\ 1..N \in SUBSET (1..N)
  BY <1>1, FS_Interval
<1>6. Arranges(a, Result, hs, 1..N, before)
  BY <1>1, <1>3, <1>4, <1>5, ArrangedIs
<1>7. PICK order : /\ Sorts(order, 1..N, before)
                   /\ a \in Seq(Result) /\ Len(a) = N
                   /\ \A n \in 1..N : a[n] = hs[order[n]]
  BY <1>5, <1>6 DEF Arranges
<1> HIDE DEF a
<1>8. /\ order \in [1..N -> 1..N]
      /\ \A m, n \in 1..N : m < n <=> <<order[m], order[n]>> \in before
      /\ \A i \in 1..N : \E n \in 1..N : order[n] = i
      /\ \A m, n \in 1..N : order[m] = order[n] => m = n
  BY <1>5, <1>7 DEF Sorts
<1>9. /\ limit \in Nat /\ limit <= N
      /\ Prefix(a, limit) \in Seq(Result) /\ Len(Prefix(a, limit)) = limit
      /\ \A i \in 1..limit : Prefix(a, limit)[i] = a[i]
  <2>1. limit \in Nat /\ limit <= N
    BY <1>1 DEF N
  <2> QED
    BY <1>7, <2>1, PrefixIs
<1>10. \A i \in 1..limit : Prefix(a, limit)[i] = hs[order[i]]
  BY <1>1, <1>7, <1>9
<1> QED
  BY <1>2, <1>8, <1>9, <1>10 DEF Takes, N, before

(* A cut takes some of the places, whichever way it cuts. *)
LEMMA CutTakes ==
    ASSUME rankRequest \in RankRequests, NEW hs, Results(hs)
    PROVE  \E order, n : Takes(hs, Cut(hs), order, n) /\ n <= rankRequest.limit
<1> DEFINE limit == rankRequest.limit
           N == Len(hs)
           id == [i \in 1..N |-> i]
<1>1. limit \in Nat \ {0} /\ rankRequest.diversify \in BOOLEAN
  BY RequestsTyped
<1>2. hs \in Seq(Result) /\ N \in Nat
  BY DEF Results
<1>3. CASE ~rankRequest.diversify
  <2> DEFINE n == Len(Prefix(hs, limit))
  <2>1. /\ n \in Nat /\ n <= N /\ n <= limit
        /\ Prefix(hs, limit) \in Seq(Result) /\ Len(Prefix(hs, limit)) = n
        /\ \A i \in 1..n : Prefix(hs, limit)[i] = hs[i]
    <3>1. limit \in Nat
      BY <1>1
    <3> HIDE DEF limit
    <3> QED
      BY <1>2, <3>1, PrefixIs
  <2>2. Cut(hs) = Prefix(hs, limit)
    BY <1>3 DEF Cut
  <2> HIDE DEF n
  <2>3. Takes(hs, Cut(hs), id, n)
    BY <1>2, <2>1, <2>2 DEF Takes
  <2> QED
    BY <2>1, <2>3
<1>4. CASE rankRequest.diversify /\ N <= limit
  <2>1. Cut(hs) = hs
    BY <1>4 DEF Cut, Diversified
  <2>2. Takes(hs, Cut(hs), id, N)
    BY <1>2, <2>1 DEF Takes
  <2> QED
    BY <1>4, <2>2
<1>5. CASE rankRequest.diversify /\ ~(N <= limit)
  <2>1. Cut(hs) = Diversified(hs, limit)
    BY <1>5 DEF Cut
  <2>2. PICK order : Takes(hs, Diversified(hs, limit), order, limit)
    <3> HIDE DEF limit
    <3> QED
      BY <1>1, <1>5, InTurn
  <2> QED
    BY <1>1, <2>1, <2>2
<1> QED
  BY <1>1, <1>3, <1>4, <1>5

(* A cut list still is one of distinct chunks the request asks for. *)
LEMMA CutKeeps ==
    ASSUME rankRequest \in RankRequests, NEW hs, Results(hs)
    PROVE  Results(Cut(hs)) /\ Len(Cut(hs)) <= rankRequest.limit
<1>1. PICK order, n : Takes(hs, Cut(hs), order, n) /\ n <= rankRequest.limit
  BY CutTakes
<1> DEFINE ks == Cut(hs)
           part == [i \in 1..n |-> order[i]]
<1>2. /\ n \in Nat /\ ks \in Seq(Result) /\ Len(ks) = n
      /\ part \in [1..n -> DOMAIN hs]
      /\ \A i, j \in 1..n : part[i] = part[j] => i = j
      /\ \A i \in 1..n : ks[i] = hs[part[i]]
  <2>1. /\ n \in Nat /\ n <= Len(hs) /\ ks \in Seq(Result) /\ Len(ks) = n
        /\ order \in [1..Len(hs) -> 1..Len(hs)]
        /\ \A i \in 1..n : ks[i] = hs[order[i]]
        /\ \A i, j \in 1..Len(hs) : order[i] = order[j] => i = j
    BY <1>1 DEF Takes
  <2>2. DOMAIN hs = 1..Len(hs) /\ Len(hs) \in Nat
    BY DEF Results
  <2> HIDE DEF ks
  <2>3. \A i \in 1..n : i \in 1..Len(hs)
    BY <2>1, <2>2
  <2> QED
    BY <2>1, <2>2, <2>3
<1> HIDE DEF ks, part
<1>3. \A i \in 1..n : SameChunk(ks[i], hs[part[i]]) /\ ks[i].score >= hs[part[i]].score
  <2>1. ASSUME NEW i \in 1..n
        PROVE  SameChunk(ks[i], hs[part[i]]) /\ ks[i].score >= hs[part[i]].score
    <3>1. ks[i] = hs[part[i]] /\ ks[i] \in Result
      BY <1>2
    <3>2. ks[i].score \in Nat
      BY <3>1 DEF Result
    <3> QED
      BY <3>1, <3>2 DEF SameChunk
  <2> QED
    BY <2>1
<1>4. rankRequest.minScore \in Int
  BY RequestsTyped
<1>5. Results(ks)
  BY <1>2, <1>3, <1>4, SomeResults
<1> QED
  BY <1>1, <1>2, <1>5 DEF ks

(* As many results of a document are served as of its candidates are at a  *)
(* place within the cut.                                                   *)
AreServed(S, cs, ks, order, n, d) ==
    /\ S \in SUBSET Bucket(cs, d) /\ IsFiniteSet(S)
    /\ Cardinality(S) \in Nat /\ Cardinality(S) = Cardinality(Bucket(ks, d))
    /\ \A x \in S : \E i \in 1..n : x = order[i]
    /\ \A i \in 1..n : order[i] \in Bucket(cs, d) => order[i] \in S

(* The places a cut takes of a document are as many as it serves of it. *)
LEMMA ServedPlaces ==
    ASSUME NEW cs, Results(cs), NEW ks, NEW order, NEW n, Takes(cs, ks, order, n), NEW d,
           NEW S, S = { order[i] : i \in Bucket(ks, d) }
    PROVE  AreServed(S, cs, ks, order, n, d)
<1> DEFINE N == Len(cs)
           B == Bucket(ks, d)
           f == [i \in B |-> order[i]]
<1>0. DOMAIN cs = 1..N /\ N \in Nat
  BY DEF Results
<1>1. /\ n \in Nat /\ n <= N /\ DOMAIN ks = 1..n
      /\ order \in [1..N -> 1..N]
      /\ \A i \in 1..n : ks[i] = cs[order[i]]
      /\ \A i, m \in 1..N : order[i] = order[m] => i = m
  <2>1. /\ n \in Nat /\ n <= N /\ ks \in Seq(Result) /\ Len(ks) = n
        /\ order \in [1..N -> 1..N]
        /\ \A i \in 1..n : ks[i] = cs[order[i]]
        /\ \A i, m \in 1..N : order[i] = order[m] => i = m
    BY DEF Takes
  <2>2. DOMAIN ks = 1..n
    BY <2>1
  <2> QED
    BY <2>1, <2>2
<1> HIDE DEF N
<1>2. \A i \in 1..n : i \in 1..N /\ order[i] \in 1..N
  BY <1>0, <1>1
<1>3. B \in SUBSET (1..n) /\ \A i \in 1..n : i \in B <=> ks[i].doc = d
  BY <1>1 DEF Bucket
<1>4. \A i \in 1..N : i \in Bucket(cs, d) <=> cs[i].doc = d
  BY <1>0 DEF Bucket
<1>12. S = { order[i] : i \in B }
  OBVIOUS
<1> HIDE DEF B
<1>5. ASSUME NEW x \in S
      PROVE  x \in Bucket(cs, d) /\ \E i \in 1..n : x = order[i]
  <2>1. PICK i \in B : x = order[i]
    BY <1>12
  <2>2. i \in 1..n /\ order[i] \in 1..N /\ cs[order[i]].doc = d
    BY <1>1, <1>2, <1>3, <2>1
  <2> QED
    BY <1>4, <2>1, <2>2
<1>6. ASSUME NEW i \in 1..n, order[i] \in Bucket(cs, d)
      PROVE  order[i] \in S
  <2>1. ks[i].doc = d
    BY <1>1, <1>2, <1>4, <1>6
  <2>2. i \in B
    BY <1>3, <2>1
  <2> QED
    BY <1>12, <2>2
<1>7. IsFiniteSet(B) /\ IsFiniteSet(1..n)
  <2>1. n \in Nat
    BY <1>1
  <2>2. IsFiniteSet(1..n)
    BY <2>1, FS_Interval
  <2> QED
    BY <1>3, <2>2, FS_Subset
<1>8. f \in [B -> S] /\ \A x \in S : \E i \in B : f[i] = x
  BY <1>12
<1>9. \A i, m \in B : f[i] = f[m] => i = m
  BY <1>1, <1>2, <1>3
<1> HIDE DEF f
<1>10. f \in Bijection(B, S)
  BY <1>8, <1>9 DEF Bijection, Injection, Surjection, IsInjective
<1>11. IsFiniteSet(S) /\ Cardinality(S) = Cardinality(B)
  BY <1>7, <1>10, FS_Bijection DEF ExistsBijection
<1>13. Cardinality(S) \in Nat
  BY <1>11, FS_CardinalityType
<1> QED
  BY <1>5, <1>6, <1>11, <1>13 DEF B, AreServed

(* No document gets two places more than another that has a candidate left. *)
LEMMA PlacesSpread ==
    ASSUME NEW cs, Results(cs), NEW ks, NEW order, NEW n, Takes(cs, ks, order, n),
           \A i, j \in 1..Len(cs) : i < j <=> <<order[i], order[j]>> \in TakenBefore(cs),
           NEW d, NEW e, Cardinality(Bucket(ks, e)) < Cardinality(Bucket(cs, e))
    PROVE  Cardinality(Bucket(ks, d)) <= Cardinality(Bucket(ks, e)) + 1
<1> DEFINE N == Len(cs)
           D == { order[i] : i \in Bucket(ks, d) }
           E == { order[i] : i \in Bucket(ks, e) }
           U == Bucket(cs, e) \ E
<1>1. /\ n \in Nat /\ N \in Nat /\ n <= N /\ DOMAIN cs = 1..N
      /\ order \in [1..N -> 1..N]
      /\ \A i \in 1..N : \E m \in 1..N : order[m] = i
  <2>1. DOMAIN cs = 1..N /\ N \in Nat
    BY DEF Results
  <2> QED
    BY <2>1 DEF Takes
<1>2. /\ D \in SUBSET Bucket(cs, d) /\ IsFiniteSet(D)
      /\ Cardinality(D) \in Nat /\ Cardinality(D) = Cardinality(Bucket(ks, d))
      /\ \A x \in D : \E i \in 1..n : x = order[i]
  <2>1. AreServed(D, cs, ks, order, n, d)
    BY ServedPlaces
  <2> QED
    BY <2>1 DEF AreServed
<1>3. /\ E \in SUBSET Bucket(cs, e) /\ IsFiniteSet(E)
      /\ Cardinality(E) \in Nat /\ Cardinality(E) = Cardinality(Bucket(ks, e))
      /\ \A i \in 1..n : order[i] \in Bucket(cs, e) => order[i] \in E
  <2>1. AreServed(E, cs, ks, order, n, e)
    BY ServedPlaces
  <2> QED
    BY <2>1 DEF AreServed
<1>4. \A b : /\ Bucket(cs, b) \in SUBSET (1..N)
             /\ \A i \in Bucket(cs, b) : cs[i].doc = b
  BY <1>1 DEF Bucket
<1>5. U # {} /\ U \in SUBSET (1..N) /\ U \in SUBSET Nat
  <2>1. Bucket(cs, e) # E
    <3>1. Cardinality(E) < Cardinality(Bucket(cs, e)) /\ Cardinality(E) \in Nat
      BY <1>3
    <3> HIDE DEF E
    <3>2. ASSUME Bucket(cs, e) = E
          PROVE  FALSE
      <4>1. Cardinality(E) < Cardinality(E)
        BY <3>1, <3>2, Zenon
      <4> QED
        BY <3>1, <4>1
    <3> QED
      BY <3>2
  <2>2. U \in SUBSET (1..N) /\ \A i \in 1..N : i \in Nat
    BY <1>1, <1>4
  <2> HIDE DEF E
  <2> QED
    BY <1>3, <2>1, <2>2
<1> HIDE DEF N, D, E, U
<1>6. PICK least \in U : \A y \in U : least <= y
  BY <1>5, LeastOf
<1>7. least \in 1..N /\ least \in Bucket(cs, e) /\ least \notin E /\ cs[least].doc = e
  BY <1>4, <1>5, <1>6 DEF U
<1>8. CASE Cardinality(D) = 0
  BY <1>2, <1>3, <1>8
<1>9. CASE Cardinality(D) # 0
  <2>1. D # {} /\ D \in SUBSET (1..N)
    BY <1>2, <1>4, <1>9, FS_EmptySet
  <2>2. PICK last \in D : \A y \in D : y <= last
    BY <1>1, <2>1, GreatestOf
  <2>3. last \in 1..N /\ cs[last].doc = d
    BY <1>2, <1>4, <2>1, <2>2
  <2>4. Round(cs, last) <= Round(cs, least)
    <3>1. PICK i \in 1..n : last = order[i]
      BY <1>2, <2>2
    <3>2. PICK m \in 1..N : order[m] = least
      BY <1>1, <1>7
    <3>3. ~(m <= n)
      BY <1>1, <1>3, <1>7, <3>2
    <3>4. i \in 1..N /\ i < m
      BY <1>1, <3>1, <3>2, <3>3
    <3>5. <<last, least>> \in TakenBefore(cs)
      BY <3>1, <3>2, <3>4 DEF N
    <3> QED
      BY <1>7, <2>3, <3>5, TurnsOrder DEF N
  <2>5. /\ Round(cs, last) = Cardinality({ j \in Bucket(cs, d) : j <= last })
        /\ Round(cs, least) = Cardinality({ j \in Bucket(cs, e) : j <= least })
    BY <1>7, <2>3 DEF Round
  <2>6. IsFiniteSet(1..N)
    BY <1>1, FS_Interval
  <2>7. Cardinality(D) <= Round(cs, last)
    <3> DEFINE R == { j \in Bucket(cs, d) : j <= last }
    <3>1. D \in SUBSET R /\ R \in SUBSET (1..N)
      BY <1>2, <1>4, <2>2
    <3> HIDE DEF R
    <3>2. IsFiniteSet(R)
      BY <2>6, <3>1, FS_Subset
    <3>3. Cardinality(D) <= Cardinality(R)
      BY <3>1, <3>2, FS_Subset
    <3> QED
      BY <2>5, <3>3 DEF R
  <2>8. Round(cs, least) \in Nat /\ Round(cs, least) - 1 <= Cardinality(E)
    <3> DEFINE R == { j \in Bucket(cs, e) : j <= least }
    <3>1. R \in SUBSET (1..N) /\ least \in R
      BY <1>1, <1>4, <1>7
    <3>2. R \ {least} \in SUBSET E
      <4>1. ASSUME NEW j \in R, j # least, j \notin E
            PROVE  FALSE
        <5>1. j \in U /\ j \in 1..N /\ j <= least
          BY <1>4, <4>1 DEF U
        <5>2. least <= j
          BY <1>6, <5>1
        <5> QED
          BY <1>1, <1>7, <4>1, <5>1, <5>2
      <4> QED
        BY <4>1
    <3> HIDE DEF R
    <3>3. IsFiniteSet(R) /\ Cardinality(R) \in Nat
      BY <2>6, <3>1, FS_Subset, FS_CardinalityType
    <3>4. Cardinality(R \ {least}) = Cardinality(R) - 1
      BY <3>1, <3>3, FS_RemoveElement
    <3>5. Cardinality(R \ {least}) <= Cardinality(E)
      BY <1>3, <3>2, FS_Subset
    <3> QED
      BY <2>5, <3>3, <3>4, <3>5 DEF R
  <2>9. Round(cs, last) \in Nat
    BY <2>3, RoundsAre DEF N
  <2> QED
    BY <1>2, <1>3, <2>4, <2>7, <2>8, <2>9
<1> QED
  BY <1>8, <1>9

(* The cut spreads the limit over the documents.                           *)
LEMMA CutSpreads ==
    ASSUME rankRequest \in RankRequests, Results(candidates), hits = Cut(candidates),
           rankStep = "served"
    PROVE  SpreadOverDocuments
<1> DEFINE N == Len(candidates)
           limit == rankRequest.limit
<1>0. SUFFICES ASSUME rankRequest.diversify
               PROVE  SpreadOverDocuments
  BY DEF SpreadOverDocuments
<1>1. /\ candidates \in Seq(Result) /\ N \in Nat /\ DOMAIN candidates = 1..N
      /\ limit \in Nat \ {0}
  BY RequestsTyped DEF Results
<1>2. hits = Diversified(candidates, limit)
  BY <1>0 DEF Cut
<1> HIDE DEF limit
<1>4. CASE N <= limit
  <2>1. hits = candidates
    BY <1>2, <1>4 DEF Diversified
  <2>2. \A d : Served(d) = Cardinality(Bucket(candidates, d))
    BY <2>1 DEF Served
  <2>3. \A d : Cardinality(Bucket(candidates, d)) \in Nat
    <3>1. ASSUME NEW d
          PROVE  Cardinality(Bucket(candidates, d)) \in Nat
      <4>1. IsFiniteSet(1..N)
        BY <1>1, FS_Interval
      <4>2. Bucket(candidates, d) \in SUBSET (1..N)
        BY <1>1 DEF Bucket
      <4>3. IsFiniteSet(Bucket(candidates, d))
        BY <4>1, <4>2, FS_Subset
      <4> QED
        BY <4>3, FS_CardinalityType
    <3> QED
      BY <3>1
  <2>4. ASSUME NEW d \in Documents, NEW e \in Documents,
               Served(e) < Cardinality(Bucket(candidates, e))
        PROVE  Served(d) <= Served(e) + 1
    <3>1. Served(e) = Cardinality(Bucket(candidates, e)) /\ Served(e) \in Nat
      BY <2>2, <2>3
    <3> QED
      BY <2>4, <3>1
  <2>5. ASSUME NEW n \in DOMAIN hits
        PROVE  \E j \in DOMAIN candidates :
                 /\ hits[n] = candidates[j]
                 /\ \A i \in Bucket(candidates, hits[n].doc) :
                      i < j => \E m \in 1..(n - 1) : hits[m] = candidates[i]
    <3>1. n \in 1..N /\ hits[n] = candidates[n]
      BY <1>1, <2>1
    <3>2. ASSUME NEW i \in Bucket(candidates, hits[n].doc), i < n
          PROVE  \E m \in 1..(n - 1) : hits[m] = candidates[i]
      <4>1. i \in 1..N
        BY <1>1 DEF Bucket
      <4>2. i \in 1..(n - 1) /\ hits[i] = candidates[i]
        BY <1>1, <2>1, <3>1, <3>2, <4>1
      <4> QED
        BY <4>2
    <3> QED
      BY <1>1, <3>1, <3>2
  <2>6. Len(hits) = Min({limit, N})
    <3>1. Min({limit, N}) = IF limit <= N THEN limit ELSE N
      BY <1>1, LesserOf
    <3> QED
      BY <1>1, <1>4, <2>1, <3>1
  <2> QED
    BY <2>1, <2>4, <2>5, <2>6 DEF SpreadOverDocuments, limit
<1>5. CASE ~(N <= limit)
  <2>1. PICK order : /\ Takes(candidates, Diversified(candidates, limit), order, limit)
                     /\ \A m, n \in 1..N :
                           m < n <=> <<order[m], order[n]>> \in TakenBefore(candidates)
    BY <1>1, <1>5, InTurn
  <2>2. Takes(candidates, hits, order, limit)
    BY <1>2, <2>1
  <2>3. /\ limit <= N /\ Len(hits) = limit /\ DOMAIN hits = 1..limit
        /\ order \in [1..N -> 1..N]
        /\ \A i \in 1..limit : hits[i] = candidates[order[i]]
        /\ \A i \in 1..N : \E m \in 1..N : order[m] = i
        /\ \A i, m \in 1..N : order[i] = order[m] => i = m
    <3>1. /\ limit <= N /\ hits \in Seq(Result) /\ Len(hits) = limit
          /\ order \in [1..N -> 1..N]
          /\ \A i \in 1..limit : hits[i] = candidates[order[i]]
          /\ \A i \in 1..N : \E m \in 1..N : order[m] = i
          /\ \A i, m \in 1..N : order[i] = order[m] => i = m
      BY <2>2 DEF Takes
    <3>2. DOMAIN hits = 1..limit
      BY <3>1
    <3> QED
      BY <3>1, <3>2
  <2>4. ASSUME NEW d \in Documents, NEW e \in Documents,
               Served(e) < Cardinality(Bucket(candidates, e))
        PROVE  Served(d) <= Served(e) + 1
    BY <2>1, <2>2, <2>4, PlacesSpread DEF Served
  <2>5. ASSUME NEW n \in DOMAIN hits
        PROVE  \E j \in DOMAIN candidates :
                 /\ hits[n] = candidates[j]
                 /\ \A i \in Bucket(candidates, hits[n].doc) :
                      i < j => \E m \in 1..(n - 1) : hits[m] = candidates[i]
    <3> DEFINE j == order[n]
    <3> HIDE DEF N
    <3>1. n \in 1..limit /\ n \in 1..N /\ j \in 1..N /\ hits[n] = candidates[j]
      <4>1. n \in 1..limit /\ n \in 1..N
        BY <1>1, <2>3
      <4> QED
        BY <2>3, <4>1
    <3>2. ASSUME NEW i \in Bucket(candidates, hits[n].doc), i < j
          PROVE  \E m \in 1..(n - 1) : hits[m] = candidates[i]
      <4>1. i \in 1..N /\ candidates[i].doc = candidates[j].doc
        BY <1>1, <3>1 DEF Bucket
      <4>2. <<i, j>> \in TakenBefore(candidates)
        BY <3>1, <3>2, <4>1, TurnsOrder DEF N
      <4>3. PICK m \in 1..N : order[m] = i
        BY <2>3, <4>1
      <4>4. m < n
        BY <2>1, <3>1, <4>2, <4>3 DEF N
      <4>5. m \in 1..(n - 1) /\ m \in 1..limit
        BY <1>1, <3>1, <4>3, <4>4
      <4> QED
        BY <2>3, <4>3, <4>5
    <3> QED
      BY <1>1, <3>1, <3>2
  <2>6. Len(hits) = Min({limit, N})
    <3>1. Min({limit, N}) = IF limit <= N THEN limit ELSE N
      BY <1>1, LesserOf
    <3> QED
      BY <1>1, <2>3, <3>1
  <2>7. hits[1] = candidates[1]
    <3>1. 1 \in 1..limit /\ 1 \in 1..N
      BY <1>1, <2>3
    <3>2. PICK m \in 1..N : order[m] = 1
      BY <2>3, <3>1
    <3>3. order[1] \in 1..N
      BY <2>3, <3>1
    <3>4. <<order[1], 1>> \notin TakenBefore(candidates)
      BY <3>3, TurnsOrder
    <3>5. ~(1 < m)
      BY <2>1, <3>1, <3>2, <3>4
    <3>6. m = 1
      BY <3>2, <3>5
    <3> QED
      BY <2>3, <3>1, <3>2, <3>6
  <2> QED
    BY <2>4, <2>5, <2>6, <2>7 DEF SpreadOverDocuments, limit
<1> QED
  BY <1>1, <1>4, <1>5

-----------------------------------------------------------------------------
(* The windows of the results, and their ranges.                           *)

(* The greater of two numbers. *)
LEMMA GreaterOf ==
    ASSUME NEW a \in Int, NEW b \in Int
    PROVE  Max({a, b}) = IF a >= b THEN a ELSE b
<1> DEFINE m == IF a >= b THEN a ELSE b
<1>1. m \in {a, b} /\ \A y \in {a, b} : m >= y
  OBVIOUS
<1>2. \A x \in {a, b} : (\A y \in {a, b} : x >= y) => x = m
  OBVIOUS
<1> HIDE DEF m
<1>3. Max({a, b}) = m
  BY <1>1, <1>2 DEF Max
<1> QED
  BY <1>3 DEF m

Span == [lo : Nat, hi : Nat]
Apart(m) == \A i, j \in DOMAIN m : i < j => m[i].hi + 1 < m[j].lo
Covers(m, span) == \E i \in DOMAIN m : m[i].lo <= span.lo /\ span.hi <= m[i].hi

(* Absorbing a span keeps what is covered, covers the span and leaves the  *)
(* ranges apart, if the span does not begin before the last of them.       *)
LEMMA AbsorbKeeps ==
    ASSUME NEW m \in Seq(Span), Apart(m), NEW span \in Span,
           m # <<>> => m[Len(m)].lo <= span.lo
    PROVE  /\ Absorb(m, span) \in Seq(Span) /\ Apart(Absorb(m, span))
           /\ Absorb(m, span) # <<>> /\ Absorb(m, span)[Len(Absorb(m, span))].lo <= span.lo
           /\ Covers(Absorb(m, span), span)
           /\ \A s \in Span : Covers(m, s) => Covers(Absorb(m, span), s)
<1> DEFINE n == Len(m)
           a == Absorb(m, span)
           joins == n > 0 /\ span.lo <= m[n].hi + 1
<1>1. n \in Nat /\ DOMAIN m = 1..n /\ (m = <<>> <=> n = 0)
  <2>1. n \in Nat /\ DOMAIN m = 1..n
    OBVIOUS
  <2>2. m = <<>> <=> n = 0
    <3>1. m # <<>> => Len(m) # 0
      BY EmptySeq
    <3>2. m = <<>> => Len(m) = 0
      OBVIOUS
    <3> QED
      BY <3>1, <3>2
  <2> QED
    BY <2>1, <2>2
<1>2. /\ span.lo \in Nat /\ span.hi \in Nat
      /\ \A i \in 1..n : m[i] \in Span /\ m[i].lo \in Nat /\ m[i].hi \in Nat
  <2>1. \A i \in 1..n : m[i] \in Span
    BY ElementOfSeq
  <2> QED
    BY <2>1 DEF Span
<1>3. \A s \in Span : s.lo \in Nat /\ s.hi \in Nat
  BY DEF Span
<1>4. CASE joins
  <2> DEFINE h == IF m[n].hi >= span.hi THEN m[n].hi ELSE span.hi
             r == [m[n] EXCEPT !.hi = h]
  <2>1. n \in 1..n
    BY <1>1, <1>4
  <2>2. Max({m[n].hi, span.hi}) = h
    BY <1>2, <2>1, GreaterOf
  <2>3. a = [m EXCEPT ![n] = r]
    BY <1>4, <2>2 DEF Absorb
  <2>4. h \in Nat /\ m[n].hi <= h /\ span.hi <= h
    BY <1>2, <2>1
  <2> HIDE DEF h
  <2>5. r \in Span /\ r.lo = m[n].lo /\ r.hi = h
    BY <1>2, <2>1, <2>4 DEF Span
  <2> HIDE DEF r, a
  <2>6. /\ a \in Seq(Span) /\ Len(a) = n /\ DOMAIN a = 1..n /\ a[n] = r
        /\ \A i \in 1..n : i # n => a[i] = m[i]
    BY <1>1, <2>1, <2>3, <2>5
  <2> HIDE DEF n
  <2>7. \A i \in 1..n : a[i].lo = m[i].lo /\ m[i].hi <= a[i].hi
    <3>1. ASSUME NEW i \in 1..n
          PROVE  a[i].lo = m[i].lo /\ m[i].hi <= a[i].hi
      <4>1. CASE i = n
        BY <2>4, <2>5, <2>6, <4>1
      <4>2. CASE i # n
        BY <1>2, <2>6, <4>2
      <4> QED
        BY <4>1, <4>2
    <3> QED
      BY <3>1
  <2>8. Apart(a)
    <3>1. ASSUME NEW i \in 1..n, NEW j \in 1..n, i < j
          PROVE  a[i].hi + 1 < a[j].lo
      <4>1. i # n
        BY <1>1, <3>1
      <4>2. a[i] = m[i] /\ a[j].lo = m[j].lo
        BY <2>6, <2>7, <4>1
      <4> QED
        BY <1>1, <3>1, <4>2 DEF Apart
    <3> QED
      BY <2>6, <3>1 DEF Apart
  <2>9. m[n].lo <= span.lo
    BY <1>1, <2>1 DEF n
  <2>10. Covers(a, span)
    BY <2>1, <2>4, <2>5, <2>6, <2>9 DEF Covers
  <2>11. ASSUME NEW s \in Span, Covers(m, s)
         PROVE  Covers(a, s)
    <3>1. PICK i \in 1..n : m[i].lo <= s.lo /\ s.hi <= m[i].hi
      BY <1>1, <2>11 DEF Covers
    <3>2. a[i].lo = m[i].lo /\ m[i].hi <= a[i].hi /\ a[i].hi \in Nat
      <4>1. a[i] \in Span
        BY <2>6
      <4> QED
        BY <2>7, <4>1 DEF Span
    <3>3. a[i].lo <= s.lo /\ s.hi <= a[i].hi
      BY <1>2, <1>3, <3>1, <3>2
    <3> QED
      BY <2>6, <3>3 DEF Covers
  <2>12. a # <<>> /\ a[Len(a)].lo <= span.lo
    BY <2>1, <2>5, <2>6, <2>9
  <2> QED
    BY <2>6, <2>8, <2>10, <2>11, <2>12 DEF a
<1>5. CASE ~joins
  <2>1. a = Append(m, span)
    BY <1>5 DEF Absorb
  <2> HIDE DEF a
  <2>2. /\ a \in Seq(Span) /\ Len(a) = n + 1 /\ DOMAIN a = 1..(n + 1) /\ a[n + 1] = span
        /\ \A i \in 1..n : a[i] = m[i]
    BY <1>1, <2>1
  <2>3. ASSUME NEW i \in 1..n
        PROVE  m[i].hi + 1 < span.lo
    <3>1. n \in 1..n /\ m[n].hi + 1 < span.lo
      <4>1. n \in 1..n /\ n > 0
        BY <1>1
      <4>2. ~(span.lo <= m[n].hi + 1)
        BY <1>5, <4>1
      <4>3. m[n].hi \in Nat
        BY <1>2, <4>1
      <4> HIDE DEF n
      <4> QED
        BY <1>2, <4>1, <4>2, <4>3
    <3>2. CASE i = n
      BY <3>1, <3>2
    <3>3. CASE i # n
      <4>1. m[n].lo <= span.lo
        BY <1>1, <3>1
      <4> HIDE DEF n
      <4>2. i < n /\ i \in DOMAIN m /\ n \in DOMAIN m
        BY <1>1, <3>1, <3>3
      <4>3. m[i].hi + 1 < m[n].lo
        BY <4>2 DEF Apart
      <4>4. m[i].hi \in Nat /\ m[n].lo \in Nat /\ span.lo \in Nat
        BY <1>2, <3>1
      <4> QED
        BY <4>1, <4>3, <4>4
    <3> QED
      BY <3>2, <3>3
  <2> HIDE DEF n
  <2>4. Apart(a)
    <3>1. ASSUME NEW i \in 1..(n + 1), NEW j \in 1..(n + 1), i < j
          PROVE  a[i].hi + 1 < a[j].lo
      <4>1. i \in 1..n
        BY <1>1, <3>1
      <4>2. CASE j = n + 1
        BY <2>2, <2>3, <4>1, <4>2
      <4>3. CASE j # n + 1
        <5>1. j \in 1..n
          BY <1>1, <4>3
        <5> QED
          BY <1>1, <2>2, <3>1, <4>1, <5>1 DEF Apart
      <4> QED
        BY <4>2, <4>3
    <3> QED
      BY <2>2, <3>1 DEF Apart
  <2>5. n + 1 \in DOMAIN a /\ \A i \in 1..n : i \in DOMAIN a
    BY <1>1, <2>2
  <2>6. Covers(a, span)
    BY <1>2, <2>2, <2>5 DEF Covers
  <2>7. \A s \in Span : Covers(m, s) => Covers(a, s)
    BY <1>1, <2>2, <2>5 DEF Covers
  <2>8. a # <<>> /\ a[Len(a)].lo <= span.lo
    BY <1>1, <1>2, <2>2
  <2> QED
    BY <2>2, <2>4, <2>6, <2>7, <2>8 DEF a
<1> QED
  BY <1>4, <1>5

(* Absorbing a span leaves a list of spans. *)
LEMMA AbsorbTyped ==
    ASSUME NEW m \in Seq(Span), NEW span \in Span
    PROVE  Absorb(m, span) \in Seq(Span)
<1> DEFINE n == Len(m)
           joins == n > 0 /\ span.lo <= m[n].hi + 1
<1>1. n \in Nat /\ span.hi \in Nat
  BY DEF Span
<1>2. CASE joins
  <2> DEFINE h == Max({m[n].hi, span.hi})
             r == [m[n] EXCEPT !.hi = h]
  <2>1. n \in 1..n
    BY <1>1, <1>2
  <2>2. m[n] \in Span
    BY <2>1, ElementOfSeq
  <2>3. m[n].hi \in Nat
    BY <2>2 DEF Span
  <2>4. h = IF m[n].hi >= span.hi THEN m[n].hi ELSE span.hi
    BY <1>1, <2>3, GreaterOf
  <2>5. h \in Nat
    BY <1>1, <2>3, <2>4
  <2>6. Absorb(m, span) = [m EXCEPT ![n] = r]
    BY <1>2 DEF Absorb
  <2> HIDE DEF h
  <2>7. r \in Span
    BY <2>2, <2>5 DEF Span
  <2> HIDE DEF r
  <2>8. [m EXCEPT ![n] = r] \in Seq(Span)
    BY <2>1, <2>7
  <2> QED
    BY <2>6, <2>8
<1>3. CASE ~joins
  <2>1. Absorb(m, span) = Append(m, span)
    BY <1>3 DEF Absorb
  <2> QED
    BY <2>1
<1> QED
  BY <1>2, <1>3

(* The spans of a document are sorted, and each of its results has one.    *)
SpanOf(span, x, k) ==
    span.hi = x + k /\ \A y \in Nat : x - k <= y => span.lo <= y

(* The spans of the results are as AbsorbKeeps needs them. *)
LEMMA SpansAre ==
    ASSUME NEW hs, Results(hs), NEW d, NEW k \in Nat, NEW spans, spans = Spans(hs, d, k)
    PROVE  /\ spans \in Seq(Span)
           /\ \A i, j \in DOMAIN spans : i < j => spans[i].lo <= spans[j].lo
           /\ \A b \in Bucket(hs, d) : \E n \in DOMAIN spans : SpanOf(spans[n], hs[b].index, k)
<1> DEFINE N == Len(hs)
           B == Bucket(hs, d)
           I == { hs[i].index : i \in B }
           f == [i \in B |-> hs[i].index]
           sorted == Sorted(I, Less(I))
           C == Cardinality(I)
<1>1. N \in Nat /\ DOMAIN hs = 1..N /\ \A i \in 1..N : hs[i] \in Result
  BY DEF Results
<1>2. B \in SUBSET (1..N)
  BY <1>1 DEF Bucket
<1>3. \A i \in B : hs[i].index \in Nat
  BY <1>1, <1>2 DEF Result
<1>4. spans = [i \in DOMAIN sorted |-> [lo |-> Max({0, sorted[i] - k}), hi |-> sorted[i] + k]]
  BY DEF Spans
<1> HIDE DEF B, N
<1>5. IsFiniteSet(B)
  <2>1. IsFiniteSet(1..N)
    BY <1>1, FS_Interval
  <2> QED
    BY <1>2, <2>1, FS_Subset
<1>6. f \in Surjection(B, I)
  BY DEF Surjection
<1>7. IsFiniteSet(I) /\ I \in SUBSET Nat /\ \A i \in B : hs[i].index \in I
  <2>1. I \in SUBSET Nat /\ \A i \in B : hs[i].index \in I
    BY <1>3
  <2> HIDE DEF I, f
  <2> QED
    BY <1>5, <1>6, <2>1, FS_Surjection
<1> HIDE DEF I
<1>8. Orders(Less(I), I) /\ \A x, y \in I : <<x, y>> \in Less(I) <=> x < y
  <2>1. I \in SUBSET Int
    BY <1>7
  <2> QED
    BY <2>1, LessOrders
<1>9. Sorts(sorted, I, Less(I))
  BY <1>7, <1>8, SortedTakes
<1> HIDE DEF sorted
<1>10. /\ C \in Nat /\ sorted \in [1..C -> I]
       /\ \A m, n \in 1..C : m < n <=> <<sorted[m], sorted[n]>> \in Less(I)
       /\ \A x \in I : \E n \in 1..C : sorted[n] = x
  BY <1>9 DEF Sorts
<1> HIDE DEF C
<1>11. \A m \in 1..C : sorted[m] \in Nat /\ sorted[m] \in I
  BY <1>7, <1>10
<1>12. \A m, n \in 1..C : m < n => sorted[m] < sorted[n]
  BY <1>8, <1>10, <1>11
<1> DEFINE low(x) == IF 0 >= x - k THEN 0 ELSE x - k
<1>13. \A x \in Nat : Max({0, x - k}) = low(x)
  BY GreaterOf
<1> DEFINE made == [m \in 1..C |-> [lo |-> low(sorted[m]), hi |-> sorted[m] + k]]
<1>14. spans = made
  <2>1. \A m \in 1..C : Max({0, sorted[m] - k}) = low(sorted[m])
    BY <1>11, <1>13
  <2>2. DOMAIN sorted = 1..C
    BY <1>10
  <2> HIDE DEF low
  <2> QED
    BY <1>4, <2>1, <2>2
<1>15. \A x \in Nat : /\ low(x) \in Nat /\ x + k \in Nat
                      /\ \A y \in Nat : (x - k <= y => low(x) <= y) /\ (x < y => low(x) <= low(y))
  OBVIOUS
<1> HIDE DEF low
<1>16. made \in [1..C -> Span]
  BY <1>11, <1>15 DEF Span
<1>17. made \in Seq(Span) /\ DOMAIN made = 1..C
  <2> HIDE DEF made
  <2> QED
    BY <1>10, <1>16
<1>18. \A i, j \in 1..C : i < j => made[i].lo <= made[j].lo
  BY <1>11, <1>12, <1>15
<1>19. ASSUME NEW b \in B
       PROVE  \E n \in 1..C : SpanOf(made[n], hs[b].index, k)
  <2>1. PICK n \in 1..C : sorted[n] = hs[b].index
    BY <1>7, <1>10
  <2>2. made[n].hi = hs[b].index + k /\ made[n].lo = low(hs[b].index)
    BY <2>1
  <2> HIDE DEF made
  <2>3. SpanOf(made[n], hs[b].index, k)
    BY <1>3, <1>15, <2>2 DEF SpanOf
  <2> QED
    BY <2>3
<1> HIDE DEF made
<1> QED
  BY <1>14, <1>17, <1>18, <1>19 DEF B

(* The ranges are made span by span. *)
FollowsRanges(merged, spans) ==
    /\ merged[0] = <<>>
    /\ \A n \in 1..Len(spans) : merged[n] = Absorb(merged[n - 1], spans[n])

(* ComputeRanges is the last of these lists. *)
LEMMA RangesStep ==
    ASSUME NEW hs, Results(hs), NEW d, NEW k \in Nat, NEW spans, spans = Spans(hs, d, k)
    PROVE  \E merged : /\ FollowsRanges(merged, spans)
                       /\ ComputeRanges(hs, d, k) = merged[Len(spans)]
<1> DEFINE N == Len(spans)
           V == Seq(Span)
           After(s, n) == IF n = 0 THEN <<>> ELSE Absorb(s[n - 1], spans[n])
           Is(s) == s = [n \in 0..N |-> After(s, n)]
           K == CHOOSE s : Is(s)
<1>1. ComputeRanges(hs, d, k) = K[N]
  BY DEF ComputeRanges
<1>2. spans \in V
  BY SpansAre
<1>3. N \in Nat /\ \A n \in 1..N : spans[n] \in Span
  <2>1. N \in Nat
    BY <1>2
  <2> QED
    BY <1>2, <2>1, ElementOfSeq
<1> HIDE DEF N
<1>4. \E s : Is(s)
  <2> DEFINE step == [q \in (1..N) \X V |-> Absorb(q[2], spans[q[1]])]
             none == <<>>
  <2>1. step \in [(1..N) \X V -> V]
    <3>1. ASSUME NEW q \in (1..N) \X V
          PROVE  Absorb(q[2], spans[q[1]]) \in V
      <4>1. q[2] \in V /\ spans[q[1]] \in Span
        BY <1>3, <3>1
      <4> QED
        BY <4>1, AbsorbTyped
    <3> HIDE DEF V
    <3> QED
      BY <3>1
  <2>2. \A n \in 1..N, s \in V : step[<<n, s>>] = Absorb(s, spans[n])
    OBVIOUS
  <2>3. none \in V
    OBVIOUS
  <2> HIDE DEF step, V, none
  <2>4. PICK s : FollowsSteps(s, N, V, none, step)
    BY <1>3, <2>1, <2>3, StepsDefine
  <2>5. /\ s \in [0..N -> V] /\ s[0] = <<>>
        /\ \A n \in 1..N : s[n] = step[<<n, s[n - 1]>>]
    BY <2>4 DEF FollowsSteps, none
  <2>6. ASSUME NEW n \in 0..N
        PROVE  s[n] = After(s, n)
    <3>1. CASE n = 0
      BY <2>5, <3>1
    <3>2. CASE n # 0
      <4>1. n \in 1..N /\ n - 1 \in 0..N
        BY <1>3, <3>2
      <4>2. s[n - 1] \in V
        BY <2>5, <4>1
      <4> QED
        BY <2>2, <2>5, <3>2, <4>1, <4>2
    <3> QED
      BY <3>1, <3>2
  <2> HIDE DEF After
  <2>7. s = [n \in 0..N |-> s[n]]
    BY <2>5
  <2>8. Is(s)
    BY <2>6, <2>7
  <2> QED
    BY <2>8
<1>5. Is(K)
  <2> HIDE DEF Is
  <2> QED
    BY <1>4
<1> HIDE DEF K
<1>6. K[0] = <<>> /\ \A n \in 1..N : K[n] = Absorb(K[n - 1], spans[n])
  <2> HIDE DEF After
  <2>1. \A n \in 0..N : K[n] = After(K, n)
    BY <1>5
  <2> USE DEF After
  <2>2. 0 \in 0..N /\ \A n \in 1..N : n \in 0..N /\ n # 0
    BY <1>3
  <2> QED
    BY <2>1, <2>2
<1> QED
  BY <1>1, <1>6 DEF N, FollowsRanges

(* The ranges of a document lie apart and hold each window of its results. *)
RangesHold(ranges, hs, d, k) ==
    \A b \in Bucket(hs, d), y \in Nat :
        y \in (hs[b].index - k)..(hs[b].index + k) =>
            \E i \in DOMAIN ranges : y \in ranges[i].lo..ranges[i].hi

(* What the merged ranges are, by AbsorbKeeps for one span after the other. *)
LEMMA RangesAre ==
    ASSUME NEW hs, Results(hs), NEW d, NEW k \in Nat,
           NEW ranges, ranges = ComputeRanges(hs, d, k)
    PROVE  ranges \in Seq(Span) /\ Apart(ranges) /\ RangesHold(ranges, hs, d, k)
<1> DEFINE spans == Spans(hs, d, k)
           N == Len(spans)
<1>1. /\ spans \in Seq(Span)
      /\ \A i, j \in DOMAIN spans : i < j => spans[i].lo <= spans[j].lo
      /\ \A b \in Bucket(hs, d) : \E n \in DOMAIN spans : SpanOf(spans[n], hs[b].index, k)
  BY SpansAre
<1>2. PICK merged : FollowsRanges(merged, spans) /\ ranges = merged[N]
  BY RangesStep
<1> HIDE DEF spans
<1>3. N \in Nat /\ DOMAIN spans = 1..N
  BY <1>1
<1>4. \A n \in 1..N : spans[n] \in Span
  BY <1>1, ElementOfSeq
<1> HIDE DEF N
<1>5. merged[0] = <<>> /\ \A n \in 1..N : merged[n] = Absorb(merged[n - 1], spans[n])
  BY <1>2 DEF FollowsRanges, N
<1> DEFINE Good(n) ==
             /\ merged[n] \in Seq(Span) /\ Apart(merged[n])
             /\ merged[n] # <<>> => n > 0 /\ merged[n][Len(merged[n])].lo <= spans[n].lo
             /\ \A i \in 1..n : Covers(merged[n], spans[i])
           S == { n \in 0..N : Good(n) }
<1>6. S \in SUBSET (0..N) /\ 0 \in S
  <2>1. Good(0)
    BY <1>5 DEF Apart
  <2> HIDE DEF Good
  <2> QED
    BY <1>3, <2>1
<1>7. ASSUME NEW n \in 1..N, n - 1 \in S
      PROVE  n \in S
  <2> DEFINE m == merged[n - 1]
             a == merged[n]
  <2>1. n \in 0..N /\ n > 0
    BY <1>3
  <2>2. Good(n - 1)
    BY <1>7
  <2>3. a = Absorb(m, spans[n]) /\ spans[n] \in Span
    BY <1>4, <1>5
  <2>4. m # <<>> => m[Len(m)].lo <= spans[n].lo
    <3>1. ASSUME m # <<>>
          PROVE  m[Len(m)].lo <= spans[n].lo
      <4>1. n - 1 \in 1..N /\ n \in 1..N /\ n - 1 < n
        BY <1>3, <2>2, <3>1
      <4>2. m[Len(m)].lo <= spans[n - 1].lo
        BY <2>2, <3>1
      <4>3. spans[n - 1].lo <= spans[n].lo
        BY <1>1, <1>3, <4>1
      <4>4. spans[n - 1].lo \in Nat /\ spans[n].lo \in Nat
        BY <1>4, <4>1 DEF Span
      <4>5. m[Len(m)].lo \in Nat
        <5>1. m \in Seq(Span) /\ Len(m) \in 1..Len(m)
          BY <2>2, <3>1, EmptySeq
        <5>2. m[Len(m)] \in Span
          BY <5>1, ElementOfSeq
        <5> QED
          BY <5>2 DEF Span
      <4> QED
        BY <4>2, <4>3, <4>4, <4>5
    <3> QED
      BY <3>1
  <2>5. m \in Seq(Span) /\ Apart(m) /\ \A i \in 1..(n - 1) : Covers(m, spans[i])
    BY <2>2
  <2> HIDE DEF m, a, Good
  <2>6. /\ a \in Seq(Span) /\ Apart(a)
        /\ a # <<>> /\ a[Len(a)].lo <= spans[n].lo
        /\ Covers(a, spans[n])
        /\ \A s \in Span : Covers(m, s) => Covers(a, s)
    BY <2>3, <2>4, <2>5, AbsorbKeeps
  <2>7. ASSUME NEW i \in 1..n
        PROVE  Covers(a, spans[i])
    <3>1. CASE i = n
      BY <2>6, <3>1
    <3>2. CASE i # n
      <4>1. i \in 1..(n - 1) /\ i \in 1..N
        BY <1>3, <3>2
      <4>2. spans[i] \in Span /\ Covers(m, spans[i])
        BY <1>4, <2>5, <4>1
      <4> QED
        BY <2>6, <4>2
    <3> QED
      BY <3>1, <3>2
  <2>8. Good(n)
    BY <2>1, <2>6, <2>7 DEF Good, a
  <2> QED
    BY <2>1, <2>8
<1>8. \A n \in 0..N : n \in S
  <2> HIDE DEF S
  <2> QED
    BY <1>3, <1>6, <1>7, UpTo
<1>9. Good(N)
  <2> HIDE DEF Good
  <2>1. N \in 0..N
    BY <1>3
  <2> QED
    BY <1>8, <2>1
<1>10. /\ ranges \in Seq(Span) /\ Apart(ranges)
       /\ \A i \in 1..N : Covers(ranges, spans[i])
  BY <1>2, <1>9 DEF N
<1>11. ASSUME NEW b \in Bucket(hs, d), NEW y \in Nat,
              y \in (hs[b].index - k)..(hs[b].index + k)
       PROVE  \E i \in DOMAIN ranges : y \in ranges[i].lo..ranges[i].hi
  <2>1. PICK n \in 1..N : SpanOf(spans[n], hs[b].index, k)
    BY <1>1, <1>3
  <2>2. hs[b].index \in Nat
    <3>1. b \in DOMAIN hs /\ hs \in Seq(Result)
      BY DEF Bucket, Results
    <3>2. hs[b] \in Result
      BY <3>1
    <3> QED
      BY <3>2 DEF Result
  <2>3. spans[n].lo <= y /\ y <= spans[n].hi
    BY <1>11, <2>1, <2>2 DEF SpanOf
  <2>4. PICK i \in DOMAIN ranges : ranges[i].lo <= spans[n].lo /\ spans[n].hi <= ranges[i].hi
    BY <1>10 DEF Covers
  <2>5. spans[n] \in Span /\ ranges[i] \in Span
    <3>1. i \in 1..Len(ranges)
      BY <1>10
    <3> QED
      BY <1>4, <1>10, <3>1, ElementOfSeq
  <2>6. /\ spans[n].lo \in Nat /\ spans[n].hi \in Nat
        /\ ranges[i].lo \in Nat /\ ranges[i].hi \in Nat
    BY <2>5 DEF Span
  <2>7. y \in ranges[i].lo..ranges[i].hi
    BY <2>3, <2>4, <2>6
  <2> QED
    BY <2>7
<1> QED
  BY <1>10, <1>11 DEF RangesHold

(* Before and after each result are all the rows of its document within k  *)
(* of it, and no others.                                                   *)
LEMMA WindowsAre ==
    ASSUME Results(hits), NEW k \in Nat,
           context = AssignWindows(hits, IF k = 0 THEN {} ELSE ContextChunks(hits, k), k)
    PROVE  \A i \in DOMAIN hits :
              context[i].before \cup context[i].after =
                  { r \in Rows : /\ r[1] = hits[i].doc
                                 /\ r[2] \in (hits[i].index - k)..(hits[i].index + k)
                                 /\ r[2] # hits[i].index }
<1> DEFINE rows == IF k = 0 THEN {} ELSE ContextChunks(hits, k)
<1>1. SUFFICES ASSUME NEW i \in DOMAIN hits
               PROVE  context[i].before \cup context[i].after =
                        { r \in Rows : /\ r[1] = hits[i].doc
                                       /\ r[2] \in (hits[i].index - k)..(hits[i].index + k)
                                       /\ r[2] # hits[i].index }
  OBVIOUS
<1> DEFINE x == hits[i].index
           near == { r \in Rows : /\ r[1] = hits[i].doc
                                  /\ r[2] \in (x - k)..(x + k)
                                  /\ r[2] # x }
<1>2. x \in Nat
  <2>1. hits \in Seq(Result)
    BY DEF Results
  <2>2. hits[i] \in Result
    BY <2>1
  <2> QED
    BY <2>2 DEF Result
<1>3. /\ context[i].before = { r \in rows : r[1] = hits[i].doc /\ r[2] \in (x - k)..(x - 1) }
      /\ context[i].after = { r \in rows : r[1] = hits[i].doc /\ r[2] \in (x + 1)..(x + k) }
  BY <1>1 DEF AssignWindows
<1>4. rows \in SUBSET Rows
  BY DEF ContextChunks
<1>5. \A r \in Rows : r[2] \in Nat
  BY RankingAssumption
<1>6. ASSUME NEW r \in near
      PROVE  r \in rows
  <2>1. k # 0
    BY <1>2
  <2>2. i \in Bucket(hits, r[1])
    BY <1>1 DEF Bucket
  <2> DEFINE ranges == ComputeRanges(hits, r[1], k)
  <2>3. RangesHold(ranges, hits, r[1], k)
    BY RangesAre
  <2> HIDE DEF ranges
  <2>4. \E n \in DOMAIN ranges : r[2] \in ranges[n].lo..ranges[n].hi
    BY <1>5, <2>2, <2>3 DEF RangesHold
  <2> QED
    BY <2>1, <2>4 DEF ContextChunks, ranges
<1> HIDE DEF rows, x
<1>7. ASSUME NEW r \in Rows
      PROVE  /\ r[2] \in (x - k)..(x - 1) \/ r[2] \in (x + 1)..(x + k)
                   <=> r[2] \in (x - k)..(x + k) /\ r[2] # x
  <2>1. r[2] \in Nat
    BY <1>5
  <2> QED
    BY <1>2, <2>1
<1>8. context[i].before \cup context[i].after = near
  <2>1. ASSUME NEW r
        PROVE  r \in context[i].before \/ r \in context[i].after <=> r \in near
    <3>1. CASE r \in Rows
      BY <1>3, <1>6, <1>7, <3>1
    <3>2. CASE r \notin Rows
      BY <1>3, <1>4, <3>2
    <3> QED
      BY <3>1, <3>2
  <2> HIDE DEF near
  <2> QED
    BY <2>1
<1> QED
  BY <1>8 DEF x

(* What is reported of a similarity, read back, is that similarity. *)
LEMMA ScoresKeep ==
    ASSUME NEW s \in 0..100, NEW vector \in BOOLEAN
    PROVE  ScoreOf(Reported(s, vector)) = s
<1>1. CASE vector
  <2> DEFINE r == [score |-> 0, certainty |-> s, distance |-> 200 - 2 * s]
  <2>1. Reported(s, vector) = r
    BY <1>1 DEF Reported
  <2>2. CASE s > 0
    BY <2>1, <2>2 DEF ScoreOf
  <2>3. CASE s = 0
    <3>1. ScoreOf(r) = Max({0, 100 - 200 \div 2})
      BY <2>3 DEF ScoreOf
    <3>2. 100 - 200 \div 2 = 0
      OBVIOUS
    <3>3. Max({0, 0}) = 0
      BY GreaterOf
    <3> QED
      BY <2>1, <2>3, <3>1, <3>2, <3>3
  <2> QED
    BY <2>2, <2>3
<1>2. CASE ~vector
  BY <1>2 DEF Reported, ScoreOf
<1> QED
  BY <1>1, <1>2

(* A query asks for some number of hits. *)
LEMMA FetchTyped ==
    ASSUME rankRequest \in RankRequests
    PROVE  FetchLimit(rankRequest) \in Nat
<1> DEFINE limit == rankRequest.limit
           filtered == rankRequest.minScore > 0 \/ rankRequest.documents # Documents
           wide == Min({FetchMost, 3 * limit})
           needed == IF filtered THEN wide ELSE limit
<1>1. limit \in Nat /\ FetchMost \in Nat
  BY RequestsTyped, RankingAssumption
<1>2. wide \in Nat
  <2> DEFINE l3 == 3 * limit
  <2>1. l3 \in Nat
    BY <1>1
  <2> HIDE DEF l3
  <2>2. Min({FetchMost, l3}) = IF FetchMost <= l3 THEN FetchMost ELSE l3
    BY <1>1, <2>1, LesserOf
  <2> QED
    BY <1>1, <2>1, <2>2 DEF l3
<1>3. needed \in Nat
  BY <1>1, <1>2
<1>4. FetchLimit(rankRequest) = IF rankRequest.diversify THEN Max({needed, wide}) ELSE needed
  BY DEF FetchLimit
<1> HIDE DEF wide, needed
<1>5. Max({needed, wide}) = IF needed >= wide THEN needed ELSE wide
  BY <1>2, <1>3, GreaterOf
<1> QED
  BY <1>2, <1>3, <1>4, <1>5

(* An answer is a list of distinct chunks, the most similar first. *)
LEMMA AnswersAre ==
    ASSUME NEW n \in Nat, NEW a \in Answers(n)
    PROVE  /\ a \in Seq(Chunks \X Scores)
           /\ \A i, j \in DOMAIN a : i < j => a[i][1] # a[j][1] /\ a[i][2] >= a[j][2]
<1>1. a \in SeqOf(Chunks \X Scores, Min({n, LongestAnswer}))
  BY DEF Answers
<1>2. Min({n, LongestAnswer}) \in Nat
  <2>1. LongestAnswer \in Nat
    BY RankingAssumption
  <2>2. Min({n, LongestAnswer}) = IF n <= LongestAnswer THEN n ELSE LongestAnswer
    BY <2>1, LesserOf
  <2> QED
    BY <2>1, <2>2
<1>3. PICK m \in Nat : a \in [1..m -> Chunks \X Scores]
  <2> DEFINE most == Min({n, LongestAnswer})
             P == Chunks \X Scores
  <2>1. most \in Nat /\ a \in SeqOf(P, most)
    BY <1>1, <1>2
  <2> HIDE DEF most, P
  <2>2. a \in UNION { [1..m -> P] : m \in 0..most }
    BY <2>1 DEF SeqOf
  <2>3. PICK m \in 0..most : a \in [1..m -> P]
    BY <2>2, Zenon
  <2>4. m \in Nat
    BY <2>1
  <2>5. a \in [1..m -> Chunks \X Scores]
    BY <2>3, Zenon DEF P
  <2> QED
    BY <2>4, <2>5
<1>4. a \in Seq(Chunks \X Scores)
  BY <1>3
<1> QED
  BY <1>4 DEF Answers

(* What is kept of a list of distinct chunks, best first, is one as well. *)
LEMMA SomeKept ==
    ASSUME rankRequest.minScore \in Int,
           NEW N \in Nat, NEW scored \in [1..N -> Result], NEW kept \in SUBSET (1..N),
           \A i, j \in 1..N : i < j => /\ ~SameChunk(scored[i], scored[j])
                                       /\ scored[i].score >= scored[j].score,
           \A i \in 1..N : <<scored[i].doc, scored[i].index>> \in Chunks,
           \A i \in kept : Kept(rankRequest, scored[i])
    PROVE  /\ Results(Arranged(scored, kept, Less(kept)))
           /\ Descending(Arranged(scored, kept, Less(kept)))
<1> DEFINE C == Cardinality(kept)
           before == Less(kept)
           hs == Arranged(scored, kept, before)
<1>1. Orders(before, kept) /\ \A x, y \in kept : <<x, y>> \in before <=> x < y
  <2>1. kept \in SUBSET Int
    OBVIOUS
  <2> QED
    BY <2>1, LessOrders
<1> HIDE DEF before
<1>2. Arranges(hs, Result, scored, kept, before)
  BY <1>1, ArrangedIs
<1>3. PICK order : /\ Sorts(order, kept, before)
                   /\ hs \in Seq(Result) /\ Len(hs) = C
                   /\ \A m \in 1..C : hs[m] = scored[order[m]]
  BY <1>2 DEF Arranges
<1> HIDE DEF hs
<1>4. /\ C \in Nat /\ order \in [1..C -> kept]
      /\ \A i, j \in 1..C : i < j => order[i] < order[j]
      /\ \A i, j \in 1..C : order[i] = order[j] => i = j
  <2>1. /\ C \in Nat /\ order \in [1..C -> kept]
        /\ \A i, j \in 1..C : i < j <=> <<order[i], order[j]>> \in before
        /\ \A i, j \in 1..C : order[i] = order[j] => i = j
    BY <1>3 DEF Sorts
  <2> HIDE DEF C
  <2> QED
    BY <1>1, <2>1
<1> HIDE DEF C
<1>5. \A i \in 1..C : order[i] \in kept /\ order[i] \in 1..N /\ hs[i] = scored[order[i]]
  BY <1>3, <1>4
<1>6. DOMAIN hs = 1..C
  BY <1>3, <1>4
<1>7. ASSUME NEW i \in 1..C, NEW j \in 1..C, SameChunk(hs[i], hs[j])
      PROVE  i = j
  <2> DEFINE p == order[i]
             q == order[j]
  <2>1. p \in 1..N /\ q \in 1..N /\ SameChunk(scored[p], scored[q])
    BY <1>5, <1>7
  <2> HIDE DEF p, q
  <2>2. SameChunk(scored[q], scored[p])
    BY <2>1 DEF SameChunk
  <2>3. ~(p < q) /\ ~(q < p)
    BY <2>1, <2>2
  <2>4. p = q
    BY <2>1, <2>3
  <2> QED
    BY <1>4, <2>4 DEF p, q
<1>8. ASSUME NEW i \in 1..C
      PROVE  /\ <<hs[i].doc, hs[i].index>> \in Chunks
             /\ hs[i].doc \in rankRequest.documents
             /\ hs[i].score >= rankRequest.minScore
  <2>1. Kept(rankRequest, hs[i]) /\ hs[i] = scored[order[i]] /\ order[i] \in 1..N
    BY <1>5
  <2> QED
    BY <2>1 DEF Kept
<1>9. Results(hs)
  BY <1>3, <1>6, <1>7, <1>8 DEF Results
<1>10. ASSUME NEW i \in 1..C, NEW j \in 1..C, i < j
       PROVE  hs[i].score >= hs[j].score
  <2>1. /\ order[i] \in 1..N /\ order[j] \in 1..N /\ order[i] < order[j]
        /\ hs[i] = scored[order[i]] /\ hs[j] = scored[order[j]]
    BY <1>4, <1>5, <1>10
  <2> QED
    BY <2>1
<1>11. Descending(hs)
  BY <1>6, <1>10 DEF Descending
<1> QED
  BY <1>9, <1>11 DEF hs, before

(* A search starts from distinct chunks the request asks for, best first.  *)
LEMMA AnswerIsRead ==
    ASSUME rankRequest \in RankRequests,
           NEW n \in Nat, NEW a \in Answers(n), NEW vector \in BOOLEAN,
           NEW scored, scored = [i \in DOMAIN a |-> Hit(a[i], vector)],
           NEW kept, kept = { i \in DOMAIN a : Kept(rankRequest, scored[i]) }
    PROVE  /\ Results(Arranged(scored, kept, Less(kept)))
           /\ Descending(Arranged(scored, kept, Less(kept)))
<1> DEFINE N == Len(a)
<1>1. /\ a \in Seq(Chunks \X Scores)
      /\ \A i, j \in DOMAIN a : i < j => a[i][1] # a[j][1] /\ a[i][2] >= a[j][2]
  BY AnswersAre
<1>2. N \in Nat /\ DOMAIN a = 1..N
  BY <1>1
<1>3. \A i \in 1..N : a[i] \in Chunks \X Scores
  BY <1>1, <1>2
<1> HIDE DEF N
<1>4. ASSUME NEW i \in 1..N
      PROVE  /\ scored[i] \in Result /\ scored[i].score = a[i][2] /\ a[i][1] \in Chunks
             /\ <<scored[i].doc, scored[i].index>> = a[i][1]
  <2> DEFINE c == a[i][1]
             s == a[i][2]
  <2>1. c \in Chunks /\ s \in 0..100
    BY <1>3, RankingAssumption
  <2>2. c \in Documents \X Nat /\ ReuseCount(c) \in Nat
    BY <2>1, RankingAssumption
  <2>3. scored[i] = Hit(a[i], vector)
    BY <1>2
  <2>4. scored[i] = [doc |-> c[1], index |-> c[2], reuse |-> ReuseCount(c),
                     score |-> ScoreOf(Reported(s, vector))]
    BY <2>3 DEF Hit
  <2> HIDE DEF c, s
  <2>5. ScoreOf(Reported(s, vector)) = s
    BY <2>1, ScoresKeep
  <2>6. c[1] \in Documents /\ c[2] \in Nat /\ c = <<c[1], c[2]>>
    BY <2>2
  <2>7. s \in Nat
    BY <2>1
  <2> DEFINE r == [doc |-> c[1], index |-> c[2], reuse |-> ReuseCount(c), score |-> s]
  <2>8. scored[i] = r
    BY <2>4, <2>5
  <2>9. r \in Result /\ r.score = s /\ <<r.doc, r.index>> = c
    BY <2>2, <2>6, <2>7 DEF Result
  <2> HIDE DEF r
  <2>10. scored[i] \in Result /\ scored[i].score = s /\ <<scored[i].doc, scored[i].index>> = c
    BY <2>8, <2>9
  <2> QED
    BY <2>1, <2>10 DEF c, s
<1>5. scored \in [1..N -> Result]
  BY <1>2, <1>4
<1>6. kept \in SUBSET (1..N) /\ \A i \in kept : Kept(rankRequest, scored[i])
  BY <1>2
<1>7. ASSUME NEW i \in 1..N, NEW j \in 1..N, i < j
      PROVE  ~SameChunk(scored[i], scored[j]) /\ scored[i].score >= scored[j].score
  <2>1. a[i][1] # a[j][1] /\ a[i][2] >= a[j][2]
    BY <1>1, <1>2, <1>7
  <2>2. /\ scored[i].score = a[i][2] /\ <<scored[i].doc, scored[i].index>> = a[i][1]
        /\ scored[j].score = a[j][2] /\ <<scored[j].doc, scored[j].index>> = a[j][1]
    BY <1>4
  <2> QED
    BY <2>1, <2>2 DEF SameChunk
<1>8. \A i \in 1..N : <<scored[i].doc, scored[i].index>> \in Chunks
  BY <1>4
<1>9. rankRequest.minScore \in Int
  BY RequestsTyped
<1> QED
  BY <1>2, <1>5, <1>6, <1>7, <1>8, <1>9, SomeKept

-----------------------------------------------------------------------------
(* Each step of a search keeps the invariant. *)
LEMMA InitRankInv == RankInit => RankInv
<1>1. SUFFICES ASSUME RankInit PROVE RankInv
  OBVIOUS
<1>2. Results(<<>>)
  BY DEF Results
<1> QED
  BY <1>1, <1>2 DEF RankInit, RankInv

LEMMA ReadKeeps == RankInv /\ ReadAnswer => RankInv'
<1>1. SUFFICES ASSUME RankInv, ReadAnswer PROVE RankInv'
  OBVIOUS
<1>2. PICK a \in Answers(FetchLimit(rankRequest)), vector \in BOOLEAN :
         LET scored == [i \in DOMAIN a |-> Hit(a[i], vector)]
             kept == { i \in DOMAIN a : Kept(rankRequest, scored[i]) }
         IN  hits' = Arranged(scored, kept, Less(kept))
  BY <1>1 DEF ReadAnswer
<1>3. rankRequest \in RankRequests /\ Results(candidates)
  BY <1>1 DEF RankInv
<1>4. Results(hits') /\ Descending(hits')
  <2> DEFINE n == FetchLimit(rankRequest)
             scored == [i \in DOMAIN a |-> Hit(a[i], vector)]
             kept == { i \in DOMAIN a : Kept(rankRequest, scored[i]) }
  <2>1. hits' = Arranged(scored, kept, Less(kept))
    BY <1>2
  <2>2. n \in Nat
    BY <1>3, FetchTyped
  <2>3. a \in Answers(n) /\ vector \in BOOLEAN
    BY <1>2
  <2>4. scored = [i \in DOMAIN a |-> Hit(a[i], vector)]
    OBVIOUS
  <2>5. kept = { i \in DOMAIN a : Kept(rankRequest, scored[i]) }
    OBVIOUS
  <2> HIDE DEF n, scored, kept
  <2> QED
    BY <1>3, <2>1, <2>2, <2>3, <2>4, <2>5, AnswerIsRead
<1>5. rankStep' = "read" /\ UNCHANGED <<rankRequest, candidates, context>>
  BY <1>1 DEF ReadAnswer
<1> QED
  BY <1>3, <1>4, <1>5 DEF RankInv, Results, Descending

LEMMA BoostKeeps == RankInv /\ ApplyReuseBoost => RankInv'
<1>1. SUFFICES ASSUME RankInv, ApplyReuseBoost PROVE RankInv'
  OBVIOUS
<1>2. PICK weight \in Weights : candidates' = Boosted(hits, weight)
  BY <1>1 DEF ApplyReuseBoost
<1>3. rankRequest \in RankRequests /\ Results(hits) /\ Descending(hits)
  BY <1>1 DEF RankInv, ApplyReuseBoost
<1>4. weight \in Nat /\ rankRequest.minScore \in Int
  BY <1>3, RequestsTyped, RankingAssumption
<1>5. Results(candidates')
  BY <1>2, <1>3, <1>4, BoostedIs
<1>6. rankStep' = "boosted" /\ UNCHANGED <<rankRequest, hits, context>>
  BY <1>1 DEF ApplyReuseBoost
<1>7. \E w \in Weights : candidates' = Boosted(hits', w)
  BY <1>2, <1>6
<1> QED
  BY <1>3, <1>5, <1>6, <1>7 DEF RankInv, Results, Descending

LEMMA CutKeepsInv == RankInv /\ CutToLimit => RankInv'
<1>1. SUFFICES ASSUME RankInv, CutToLimit PROVE RankInv'
  OBVIOUS
<1>2. rankRequest \in RankRequests /\ Results(candidates)
  BY <1>1 DEF RankInv
<1>3. hits' = Cut(candidates)
  BY <1>1 DEF CutToLimit, Cut
<1>4. Results(hits') /\ Len(hits') <= rankRequest.limit
  BY <1>2, <1>3, CutKeeps
<1>5. rankStep' = "served" /\ UNCHANGED <<rankRequest, candidates, context>>
  BY <1>1 DEF CutToLimit
<1>6. hits' = Cut(candidates)'
  BY <1>3, <1>5 DEF Cut
<1> QED
  BY <1>2, <1>4, <1>5, <1>6 DEF RankInv, Results

LEMMA ExpandKeeps == RankInv /\ Expand => RankInv'
<1>1. SUFFICES ASSUME RankInv, Expand PROVE RankInv'
  OBVIOUS
<1>2. /\ rankRequest \in RankRequests /\ Results(candidates) /\ Results(hits)
      /\ Len(hits) <= rankRequest.limit
  BY <1>1 DEF RankInv, Expand
<1>3. UNCHANGED <<rankRequest, hits, candidates>>
  BY <1>1 DEF Expand
<1>4. \/ /\ rankStep' = "expanded"
         /\ \E k \in Windows :
              context' = AssignWindows(hits, IF k = 0 THEN {} ELSE ContextChunks(hits, k), k)
      \/ rankStep' = "expansion_failed"
  BY <1>1 DEF Expand
<1>5. rankStep' = "expanded" =>
        \E k \in Windows :
          context' = AssignWindows(hits', IF k = 0 THEN {} ELSE ContextChunks(hits', k), k)
  BY <1>3, <1>4
<1> QED
  BY <1>2, <1>3, <1>4, <1>5 DEF RankInv, Results

LEMMA RankInvStep == RankInv /\ [RankNext]_rankVars => RankInv'
<1>1. ASSUME RankInv, UNCHANGED rankVars
      PROVE  RankInv'
  BY <1>1 DEF rankVars, RankInv, Results, Descending, Cut
<1> QED
  BY <1>1, ReadKeeps, BoostKeeps, CutKeepsInv, ExpandKeeps DEF RankNext

(* Each part of RankingSound follows from the invariant. *)
LEMMA RankInvTyped == RankInv => RankTypeOK
  BY DEF RankInv, RankTypeOK, Results

LEMMA RankInvBounds == RankInv => BoostIsBounded
<1>1. SUFFICES ASSUME RankInv, rankStep = "boosted"
               PROVE  BoostIsBounded
  BY DEF BoostIsBounded
<1>2. PICK weight \in Weights : candidates = Boosted(hits, weight)
  BY <1>1 DEF RankInv
<1>3. rankRequest \in RankRequests /\ Results(hits) /\ Descending(hits)
  BY <1>1 DEF RankInv
<1>4. weight \in Nat /\ rankRequest.minScore \in Int
  BY <1>3, RequestsTyped, RankingAssumption
<1> QED
  BY <1>2, <1>3, <1>4, BoostKeepsOrder DEF BoostIsBounded

LEMMA RankInvSpreads == RankInv => SpreadOverDocuments
<1>1. SUFFICES ASSUME RankInv, rankStep = "served"
               PROVE  SpreadOverDocuments
  BY DEF SpreadOverDocuments
<1> QED
  BY <1>1, CutSpreads DEF RankInv

LEMMA RankInvExpands == RankInv => WindowsExact /\ RangesApart
<1>1. SUFFICES ASSUME RankInv PROVE WindowsExact /\ RangesApart
  OBVIOUS
<1>2. Results(hits) /\ Windows \in SUBSET Nat
  BY <1>1, RankingAssumption DEF RankInv
<1>3. ASSUME rankStep = "expanded"
      PROVE  WindowsExact
  <2>1. PICK k \in Windows :
           context = AssignWindows(hits, IF k = 0 THEN {} ELSE ContextChunks(hits, k), k)
    BY <1>1, <1>3 DEF RankInv
  <2>2. k \in Nat
    BY <1>2
  <2> QED
    BY <1>2, <2>1, <2>2, WindowsAre DEF WindowsExact
<1>4. ASSUME NEW d \in Documents, NEW k \in Windows \ {0}
      PROVE  Apart(ComputeRanges(hits, d, k))
  <2>1. k \in Nat
    BY <1>2
  <2> QED
    BY <1>2, <2>1, RangesAre
<1> QED
  BY <1>3, <1>4 DEF WindowsExact, RangesApart, Apart

(* Whatever the vector store answers and however the limit, the boost, the
   diversification and the window are set: a search serves no chunk the request
   did not ask for and never more than its limit, a boost takes no result past
   one more than half better, the limit is spread over the documents, the merged
   ranges lie apart, and each result has exactly the rows around it. *)
THEOREM RankingIsSound == RankSpec => []RankingSound
<1>1. RankInv => RankingSound
  BY RankInvTyped, RankInvBounds, RankInvSpreads, RankInvExpands DEF RankingSound
<1> QED
  BY <1>1, InitRankInv, RankInvStep, PTL DEF RankSpec
=============================================================================
