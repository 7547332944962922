--------------------------- MODULE ChunkingProofs ---------------------------
(***************************************************************************)
(* Proofs about Chunking, for texts of any length, any limit, overlap and  *)
(* budget, and every splitter.                                             *)
(***************************************************************************)
EXTENDS Chunking, SequenceTheorems, FiniteSetTheorems, WellFoundedInduction, TLAPS

(* A non-empty set of naturals has a least element. *)
LEMMA LeastOf ==
    ASSUME NEW S \in SUBSET Nat, S # {}
    PROVE  \E x \in S : \A y \in S : x <= y
<1>1. PICK x \in S : \A y \in S : ~(<<y, x>> \in OpToRel(<, Nat))
  BY NatLessThanWellFounded, WFMin
<1>2. ASSUME NEW y \in S, y < x
      PROVE  FALSE
  <2>1. <<y, x>> \in {p \in Nat \X Nat : p[1] < p[2]}
    BY <1>2
  <2>2. <<y, x>> \in OpToRel(<, Nat)
    BY <2>1, Zenon DEF OpToRel
  <2> QED
    BY <1>1, <2>2
<1> QED
  BY <1>2

(* What holds of 0 and of each number after one of which it holds.          *)
LEMMA UpTo ==
    ASSUME NEW N \in Nat, NEW S \in SUBSET (0..N), 0 \in S,
           \A n \in 1..N : n - 1 \in S => n \in S
    PROVE  \A n \in 0..N : n \in S
<1> DEFINE missing == (0..N) \ S
<1>1. ASSUME missing # {}
      PROVE  FALSE
  <2>1. missing \in SUBSET Nat
    OBVIOUS
  <2>2. PICK n \in missing : \A m \in missing : n <= m
    BY <1>1, <2>1, LeastOf
  <2>3. n \in 1..N /\ n \notin S
    BY <2>2
  <2>4. n - 1 \in 0..N /\ ~(n <= n - 1)
    BY <2>3
  <2>5. n - 1 \in S
    BY <2>2, <2>4
  <2> QED
    BY <2>3, <2>5
<1> QED
  BY <1>1

(* A definition by steps, each from the value before it, defines a function. *)
FollowsSteps(k, N, V, first, step) ==
    k \in [0..N -> V] /\ k[0] = first /\ \A n \in 1..N : k[n] = step[<<n, k[n - 1]>>]

LEMMA StepsDefine ==
    ASSUME NEW N \in Nat, NEW V, NEW first \in V, NEW step \in [(1..N) \X V -> V]
    PROVE  \E k : FollowsSteps(k, N, V, first, step)
<1> DEFINE Defined(n) == \E k \in [0..n -> V] : /\ k[0] = first
                                                /\ \A m \in 1..n : k[m] = step[<<m, k[m - 1]>>]
<1>1. Defined(0)
  <2> DEFINE j == [m \in 0..0 |-> first]
  <2>1. j \in [0..0 -> V] /\ j[0] = first
    OBVIOUS
  <2>2. \A m \in 1..0 : j[m] = step[<<m, j[m - 1]>>]
    OBVIOUS
  <2> HIDE DEF j
  <2> QED
    BY <2>1, <2>2
<1>2. ASSUME NEW n \in 1..N, Defined(n - 1)
      PROVE  Defined(n)
  <2>1. PICK k \in [0..(n - 1) -> V] : /\ k[0] = first
                                       /\ \A m \in 1..(n - 1) : k[m] = step[<<m, k[m - 1]>>]
    BY <1>2
  <2> DEFINE j == [m \in 0..n |-> IF m = n THEN step[<<n, k[n - 1]>>] ELSE k[m]]
  <2>2. j \in [0..n -> V] /\ j[0] = first
    BY <2>1
  <2>3. ASSUME NEW m \in 1..n
        PROVE  j[m] = step[<<m, j[m - 1]>>]
    <3>1. m - 1 \in 0..n /\ m - 1 # n /\ j[m - 1] = k[m - 1]
      OBVIOUS
    <3>2. CASE m = n
      BY <3>1, <3>2
    <3>3. CASE m # n
      BY <2>1, <3>1, <3>3
    <3> QED
      BY <3>2, <3>3
  <2> HIDE DEF j
  <2> QED
    BY <2>2, <2>3
<1> HIDE DEF Defined
<1> DEFINE S == { n \in 0..N : Defined(n) }
<1>3. S \in SUBSET (0..N) /\ 0 \in S
  BY <1>1
<1>4. ASSUME NEW n \in 1..N, n - 1 \in S
      PROVE  n \in S
  BY <1>2, <1>4
<1>5. \A n \in 0..N : n \in S
  <2> HIDE DEF S
  <2> QED
    BY <1>3, <1>4, UpTo
<1>6. Defined(N)
  BY <1>5
<1> QED
  BY <1>6 DEF Defined, FollowsSteps

LEMMA GreatestOf ==
    ASSUME NEW N \in Nat, NEW S \in SUBSET (1..N), S # {}
    PROVE  \E x \in S : \A y \in S : y <= x
<1> DEFINE T == { N - x : x \in S }
<1>1. T \in SUBSET Nat /\ T # {}
  <2>1. ASSUME NEW x \in S
        PROVE  N - x \in Nat
    <3>1. x \in 1..N
      OBVIOUS
    <3> QED
      BY <3>1
  <2> QED
    BY <2>1
<1>2. PICK t \in T : \A u \in T : t <= u
  <2> HIDE DEF T
  <2> QED
    BY <1>1, LeastOf
<1>3. PICK x \in S : t = N - x
  BY <1>2
<1>4. \A y \in S : N - y \in T
  OBVIOUS
<1>5. \A y \in S : N - x <= N - y
  BY <1>2, <1>3, <1>4
<1> QED
  BY <1>5

LEMMA GreaterOf ==
    ASSUME NEW a \in Int, NEW b \in Int
    PROVE  Max({a, b}) = IF a >= b THEN a ELSE b
<1> DEFINE m == IF a >= b THEN a ELSE b
<1>1. m \in {a, b} /\ \A y \in {a, b} : m >= y
  OBVIOUS
<1>2. \A x \in {a, b} : (\A y \in {a, b} : x >= y) => x = m
  OBVIOUS
<1> HIDE DEF m
<1>3. Max({a, b}) = m
  BY <1>1, <1>2 DEF Max
<1> QED
  BY <1>3 DEF m

LEMMA LesserOf ==
    ASSUME NEW a \in Nat, NEW b \in Nat
    PROVE  Min({a, b}) = IF a <= b THEN a ELSE b
<1> DEFINE m == IF a <= b THEN a ELSE b
<1>1. m \in {a, b} /\ \A y \in {a, b} : m <= y
  OBVIOUS
<1>2. \A x \in {a, b} : (\A y \in {a, b} : x <= y) => x = m
  OBVIOUS
<1> HIDE DEF m
<1>3. Min({a, b}) = m
  BY <1>1, <1>2 DEF Min
<1> QED
  BY <1>3 DEF m

-----------------------------------------------------------------------------
(* Lengths and places of the units of a text.                              *)

UnitShape ==
    { u \in [kind : Headings \cup {"text", "blank"}, len : Nat] : u.len = 0 <=> u.kind = "blank" }

(* The lengths of the units in S, added up unit by unit. *)
LenIn(us, S, n) == IF n \in S THEN us[n].len ELSE 0
SumsUp(f, us, S) ==
    /\ f \in [0..Len(us) -> Nat]
    /\ f[0] = 0
    /\ \A n \in 1..Len(us) : f[n] = f[n - 1] + LenIn(us, S, n)

(* A unit has a length, and only a blank one has none. *)
LEMMA UnitLengths ==
    ASSUME NEW us \in Seq(UnitShape)
    PROVE  /\ Len(us) \in Nat /\ DOMAIN us = 1..Len(us)
           /\ \A i \in 1..Len(us) : us[i] \in UnitShape /\ us[i].len \in Nat
           /\ \A S : \A i \in 1..Len(us) : LenIn(us, S, i) \in Nat
<1>1. Len(us) \in Nat /\ DOMAIN us = 1..Len(us)
  OBVIOUS
<1>2. \A i \in 1..Len(us) : us[i] \in UnitShape
  BY <1>1, ElementOfSeq
<1>3. \A u \in UnitShape : u.len \in Nat
  BY DEF UnitShape
<1> QED
  BY <1>1, <1>2, <1>3 DEF LenIn

(* The sum over a set of units is the last of its partial sums. *)
LEMMA SumSteps ==
    ASSUME NEW us \in Seq(UnitShape), NEW S
    PROVE  \E f : SumsUp(f, us, S) /\ SumOver(us, S) = f[Len(us)]
<1> DEFINE N == Len(us)
           After(s, n) == IF n = 0 THEN 0 ELSE s[n - 1] + LenIn(us, S, n)
           Is(s) == s = [n \in 0..N |-> After(s, n)]
           K == CHOOSE s : Is(s)
<1>1. SumOver(us, S) = K[N]
  BY DEF SumOver, LenIn
<1>2. N \in Nat /\ \A n \in 1..N : LenIn(us, S, n) \in Nat
  BY UnitLengths
<1> HIDE DEF N
<1>3. \E s : Is(s) /\ s \in [0..N -> Nat]
  <2> DEFINE step == [q \in (1..N) \X Nat |-> q[2] + LenIn(us, S, q[1])]
  <2>1. step \in [(1..N) \X Nat -> Nat]
    BY <1>2
  <2>2. \A n \in 1..N, s \in Nat : step[<<n, s>>] = s + LenIn(us, S, n)
    OBVIOUS
  <2> HIDE DEF step
  <2>3. PICK s : FollowsSteps(s, N, Nat, 0, step)
    BY <1>2, <2>1, StepsDefine
  <2>4. /\ s \in [0..N -> Nat] /\ s[0] = 0
        /\ \A n \in 1..N : s[n] = step[<<n, s[n - 1]>>]
    BY <2>3 DEF FollowsSteps
  <2>5. ASSUME NEW n \in 0..N
        PROVE  s[n] = After(s, n)
    <3>1. CASE n = 0
      BY <2>4, <3>1
    <3>2. CASE n # 0
      <4>1. n \in 1..N /\ n - 1 \in 0..N
        BY <1>2, <3>2
      <4>2. s[n - 1] \in Nat
        BY <2>4, <4>1
      <4> QED
        BY <2>2, <2>4, <3>2, <4>1, <4>2
    <3> QED
      BY <3>1, <3>2
  <2> HIDE DEF After
  <2>6. s = [n \in 0..N |-> s[n]]
    BY <2>4
  <2>7. Is(s)
    BY <2>5, <2>6
  <2> QED
    BY <2>4, <2>7
<1>4. Is(K)
  <2> HIDE DEF Is
  <2> QED
    BY <1>3
<1> HIDE DEF K
<1>5. K[0] = 0 /\ \A n \in 1..N : K[n] = K[n - 1] + LenIn(us, S, n)
  <2> HIDE DEF After
  <2>1. \A n \in 0..N : K[n] = After(K, n)
    BY <1>4
  <2> USE DEF After
  <2>2. 0 \in 0..N /\ \A n \in 1..N : n \in 0..N /\ n # 0
    BY <1>2
  <2> QED
    BY <2>1, <2>2
<1>6. \A n \in 0..N : K[n] \in Nat
  <2> DEFINE T == { n \in 0..N : K[n] \in Nat }
  <2>1. 0 \in T
    BY <1>2, <1>5
  <2>2. \A n \in 1..N : n - 1 \in T => n \in T
    BY <1>2, <1>5
  <2>3. T \in SUBSET (0..N)
    OBVIOUS
  <2>4. \A n \in 0..N : n \in T
    <3> HIDE DEF T
    <3> QED
      BY <1>2, <2>1, <2>2, <2>3, UpTo
  <2> QED
    BY <2>4
<1>7. K \in [0..N -> Nat]
  <2> HIDE DEF After
  <2>1. K = [n \in 0..N |-> K[n]]
    BY <1>4
  <2> QED
    BY <1>6, <2>1
<1> QED
  BY <1>1, <1>5, <1>7 DEF N, SumsUp

(* More units are not shorter than fewer; one more adds its length. *)
LEMMA SumGrows ==
    ASSUME NEW us \in Seq(UnitShape), NEW S, NEW T,
           \A i \in 1..Len(us) : i \in S => i \in T
    PROVE  SumOver(us, S) \in Nat /\ SumOver(us, S) <= SumOver(us, T)
<1> DEFINE N == Len(us)
<1>1. N \in Nat /\ \A i \in 1..N : us[i].len \in Nat
  BY UnitLengths
<1>2. PICK f : SumsUp(f, us, S) /\ SumOver(us, S) = f[N]
  BY SumSteps
<1>3. PICK g : SumsUp(g, us, T) /\ SumOver(us, T) = g[N]
  BY SumSteps
<1>4. /\ \A n \in 0..N : f[n] \in Nat /\ g[n] \in Nat
      /\ f[0] = 0 /\ g[0] = 0
      /\ \A n \in 1..N : f[n] = f[n - 1] + LenIn(us, S, n) /\ g[n] = g[n - 1] + LenIn(us, T, n)
  BY <1>2, <1>3 DEF SumsUp
<1> HIDE DEF N
<1> DEFINE R == { n \in 0..N : f[n] <= g[n] }
<1>5. 0 \in R /\ R \in SUBSET (0..N)
  BY <1>1, <1>4
<1>6. ASSUME NEW n \in 1..N, n - 1 \in R
      PROVE  n \in R
  <2>1. f[n - 1] \in Nat /\ g[n - 1] \in Nat /\ f[n - 1] <= g[n - 1]
    BY <1>4, <1>6
  <2>2. LenIn(us, S, n) \in Nat /\ LenIn(us, T, n) \in Nat /\ LenIn(us, S, n) <= LenIn(us, T, n)
    BY <1>1 DEF LenIn, N
  <2> QED
    BY <1>4, <2>1, <2>2
<1>7. \A n \in 0..N : n \in R
  <2> HIDE DEF R
  <2> QED
    BY <1>1, <1>5, <1>6, UpTo
<1> QED
  BY <1>1, <1>2, <1>3, <1>4, <1>7

(* One unit more adds its length. *)
LEMMA SumAdds ==
    ASSUME NEW us \in Seq(UnitShape), NEW S, NEW T, NEW i \in 1..Len(us), i \notin S,
           \A n \in 1..Len(us) : n \in T <=> n \in S \/ n = i
    PROVE  SumOver(us, T) = SumOver(us, S) + us[i].len
<1> DEFINE N == Len(us)
<1>1. N \in Nat /\ \A n \in 1..N : us[n].len \in Nat
  BY UnitLengths
<1>2. PICK f : SumsUp(f, us, S) /\ SumOver(us, S) = f[N]
  BY SumSteps
<1>3. PICK g : SumsUp(g, us, T) /\ SumOver(us, T) = g[N]
  BY SumSteps
<1>4. /\ \A n \in 0..N : f[n] \in Nat /\ g[n] \in Nat
      /\ f[0] = 0 /\ g[0] = 0
      /\ \A n \in 1..N : f[n] = f[n - 1] + LenIn(us, S, n) /\ g[n] = g[n - 1] + LenIn(us, T, n)
  BY <1>2, <1>3 DEF SumsUp
<1>5. \A n \in 1..N : /\ LenIn(us, S, n) \in Nat
                      /\ LenIn(us, T, n) = IF n = i THEN us[i].len ELSE LenIn(us, S, n)
  BY <1>1 DEF LenIn
<1>6. LenIn(us, S, i) = 0
  BY DEF LenIn
<1>7. i \in 1..N
  OBVIOUS
<1> HIDE DEF N
<1> DEFINE R == { n \in 0..N : g[n] = IF n < i THEN f[n] ELSE f[n] + us[i].len }
<1>8. 0 \in R /\ R \in SUBSET (0..N)
  BY <1>1, <1>4, <1>7
<1>9. ASSUME NEW n \in 1..N, n - 1 \in R
      PROVE  n \in R
  <2>1. f[n - 1] \in Nat /\ g[n - 1] = IF n - 1 < i THEN f[n - 1] ELSE f[n - 1] + us[i].len
    BY <1>4, <1>9
  <2>2. us[i].len \in Nat
    BY <1>1, <1>7
  <2>3. f[n] = f[n - 1] + LenIn(us, S, n) /\ g[n] = g[n - 1] + LenIn(us, T, n)
    BY <1>4
  <2>4. CASE n < i
    <3>1. n - 1 < i /\ n # i
      BY <1>7, <2>4
    <3>2. LenIn(us, T, n) = LenIn(us, S, n)
      BY <1>5, <3>1
    <3> QED
      BY <2>1, <2>3, <2>4, <3>1, <3>2
  <2>5. CASE n = i
    <3>1. n - 1 < i /\ ~(n < i)
      BY <1>7, <2>5
    <3>2. LenIn(us, T, n) = us[i].len /\ LenIn(us, S, n) = 0
      BY <1>5, <1>6, <2>5
    <3> QED
      BY <2>1, <2>2, <2>3, <3>1, <3>2
  <2>6. CASE n > i
    <3>1. ~(n - 1 < i) /\ ~(n < i) /\ n # i
      BY <1>7, <2>6
    <3>2. LenIn(us, T, n) = LenIn(us, S, n) /\ LenIn(us, S, n) \in Nat
      BY <1>5, <3>1
    <3>3. g[n - 1] = f[n - 1] + us[i].len
      BY <2>1, <3>1
    <3>4. g[n] = f[n] + us[i].len
      BY <2>1, <2>2, <2>3, <3>2, <3>3
    <3> QED
      BY <3>1, <3>4
  <2> QED
    BY <1>7, <2>4, <2>5, <2>6
<1>10. \A n \in 0..N : n \in R
  <2> HIDE DEF R
  <2> QED
    BY <1>1, <1>8, <1>9, UpTo
<1>11. N \in 0..N /\ ~(N < i)
  BY <1>1, <1>7
<1> QED
  BY <1>2, <1>3, <1>10, <1>11

(* Blank units have no length, and other units have one. *)
LEMMA SumBlank ==
    ASSUME NEW us \in Seq(UnitShape), NEW S,
           \A i \in 1..Len(us) : i \in S => us[i].len = 0
    PROVE  SumOver(us, S) = 0
<1> DEFINE N == Len(us)
<1>1. N \in Nat
  BY UnitLengths
<1>2. PICK f : SumsUp(f, us, S) /\ SumOver(us, S) = f[N]
  BY SumSteps
<1>3. f[0] = 0 /\ \A n \in 1..N : f[n] = f[n - 1] + LenIn(us, S, n) /\ LenIn(us, S, n) = 0
  BY <1>2 DEF SumsUp, LenIn
<1> HIDE DEF N
<1> DEFINE R == { n \in 0..N : f[n] = 0 }
<1>4. 0 \in R /\ R \in SUBSET (0..N) /\ \A n \in 1..N : n - 1 \in R => n \in R
  BY <1>1, <1>3
<1>5. \A n \in 0..N : n \in R
  <2> HIDE DEF R
  <2> QED
    BY <1>1, <1>4, UpTo
<1> QED
  BY <1>1, <1>2, <1>5

(* A sum is no less than any of its terms. *)
LEMMA SumHas ==
    ASSUME NEW us \in Seq(UnitShape), NEW S, NEW i \in 1..Len(us), i \in S
    PROVE  SumOver(us, S) >= us[i].len
<1> DEFINE R == S \ {i}
<1>1. i \notin R /\ \A n \in 1..Len(us) : n \in S <=> n \in R \/ n = i
  OBVIOUS
<1> HIDE DEF R
<1>2. SumOver(us, S) = SumOver(us, R) + us[i].len
  BY <1>1, SumAdds
<1>3. SumOver(us, R) \in Nat /\ us[i].len \in Nat
  BY SumGrows, UnitLengths
<1> QED
  BY <1>2, <1>3

(* The lengths of some of the units of the text. *)
LEMMA SumsAre ==
    ASSUME units \in Seq(UnitShape), NEW S
    PROVE  /\ SumLengths(S) \in Nat
           /\ \A i \in 1..Len(units) : i \in S => units[i].len <= SumLengths(S)
           /\ \A T : (\A n \in 1..Len(units) : n \in S => n \in T) => SumLengths(S) <= SumLengths(T)
<1>1. SumLengths(S) \in Nat
  BY SumGrows DEF SumLengths
<1>2. ASSUME NEW i \in 1..Len(units), i \in S
      PROVE  units[i].len <= SumLengths(S)
  <2>1. units[i].len \in Nat
    BY UnitLengths
  <2>2. SumOver(units, S) >= units[i].len
    BY <1>2, SumHas
  <2> QED
    BY <1>1, <2>1, <2>2 DEF SumLengths
<1>3. ASSUME NEW T, \A n \in 1..Len(units) : n \in S => n \in T
      PROVE  SumLengths(S) <= SumLengths(T)
  BY <1>3, SumGrows DEF SumLengths
<1> QED
  BY <1>1, <1>2, <1>3

(* One unit more adds its length to that of the others. *)
LEMMA SumOfMore ==
    ASSUME units \in Seq(UnitShape), NEW S, NEW i \in 1..Len(units), i \notin S
    PROVE  SumLengths(S \cup {i}) = SumLengths(S) + units[i].len
<1> DEFINE T == S \cup {i}
<1>1. \A n \in 1..Len(units) : n \in T <=> n \in S \/ n = i
  OBVIOUS
<1> HIDE DEF T
<1>2. SumOver(units, T) = SumOver(units, S) + units[i].len
  BY <1>1, SumAdds
<1> QED
  BY <1>2 DEF T, SumLengths

(* No units have no text. *)
LEMMA SumOfNone ==
    ASSUME units \in Seq(UnitShape)
    PROVE  SumLengths({}) = 0
BY SumBlank DEF SumLengths

(* Where there is text, one of the units has it. *)
LEMMA SumOfText ==
    ASSUME units \in Seq(UnitShape), NEW S, SumLengths(S) # 0
    PROVE  \E i \in 1..Len(units) : i \in S /\ units[i].len > 0
<1>1. ASSUME \A i \in 1..Len(units) : i \in S => units[i].len = 0
      PROVE  FALSE
  BY <1>1, SumBlank DEF SumLengths
<1>2. PICK i \in 1..Len(units) : i \in S /\ units[i].len # 0
  BY <1>1
<1>3. units[i].len \in Nat
  BY UnitLengths
<1> QED
  BY <1>2, <1>3

(* The units lie apart, one after the other, in the text. *)
LEMMA SeparatorIs == Separator \in {1, 2}
BY DEF Separator

(* Where a unit begins and ends. *)
LEMMA UnitPlaces ==
    ASSUME units \in Seq(UnitShape), NEW i \in 1..Len(units)
    PROVE  /\ UnitStart(i) \in Nat /\ UnitEnd(i) \in Nat /\ units[i].len \in Nat
           /\ UnitEnd(i) = UnitStart(i) + units[i].len
           /\ UnitEnd(i) = SumLengths(1..i) + (i - 1) * Separator
<1>1. SumLengths(1..i - 1) \in Nat /\ units[i].len \in Nat /\ Len(units) \in Nat
  BY SumsAre, UnitLengths
<1>2. SumLengths(1..i) = SumLengths(1..i - 1) + units[i].len
  <2> DEFINE S == 1..i - 1
             T == 1..i
  <2>1. i \notin S /\ T = S \cup {i}
    BY <1>1
  <2> HIDE DEF S, T
  <2>2. SumLengths(S \cup {i}) = SumLengths(S) + units[i].len
    BY <2>1, SumOfMore
  <2>3. SumLengths(T) = SumLengths(S) + units[i].len
    BY <2>1, <2>2
  <2> QED
    BY <2>3 DEF S, T
<1>3. (i - 1) * Separator \in Nat
  <2>1. i - 1 \in Nat
    BY <1>1
  <2>2. CASE Separator = 1
    BY <2>1, <2>2
  <2>3. CASE Separator = 2
    BY <2>1, <2>3
  <2> QED
    BY <2>2, <2>3, SeparatorIs
<1> QED
  BY <1>1, <1>2, <1>3 DEF UnitStart, UnitEnd

(* A unit begins after those before it, and one separator after the last. *)
LEMMA UnitsApart ==
    ASSUME units \in Seq(UnitShape), NEW i \in 1..Len(units), NEW j \in 1..Len(units), i < j
    PROVE  /\ UnitEnd(i) + Separator <= UnitStart(j)
           /\ j = i + 1 => UnitStart(j) = UnitEnd(i) + Separator
<1> DEFINE a == SumLengths(1..i)
           b == SumLengths(1..j - 1)
<1>1. Len(units) \in Nat /\ a \in Nat /\ b \in Nat
  BY SumsAre, UnitLengths
<1>2. a <= b
  <2>1. \A n \in 1..Len(units) : n \in 1..i => n \in 1..j - 1
    BY <1>1
  <2> QED
    BY <2>1, SumsAre
<1>3. j = i + 1 => a = b
  BY <1>1
<1>4. UnitEnd(i) = a + (i - 1) * Separator
  BY UnitPlaces
<1>5. UnitStart(j) = b + (j - 1) * Separator
  BY DEF UnitStart
<1> HIDE DEF a, b
<1>6. CASE Separator = 1
  BY <1>1, <1>2, <1>3, <1>4, <1>5, <1>6
<1>7. CASE Separator = 2
  BY <1>1, <1>2, <1>3, <1>4, <1>5, <1>7
<1> QED
  BY <1>6, <1>7, SeparatorIs

(* The units follow one another in the text. *)
LEMMA UnitsOrdered ==
    ASSUME units \in Seq(UnitShape), NEW i \in 1..Len(units), NEW j \in 1..Len(units), i <= j
    PROVE  UnitStart(i) <= UnitStart(j) /\ UnitEnd(i) <= UnitEnd(j) /\ UnitStart(i) <= UnitEnd(j)
           /\ (i < j => UnitStart(i) < UnitStart(j) /\ UnitEnd(i) < UnitEnd(j))
<1>1. /\ UnitStart(i) \in Nat /\ UnitEnd(i) \in Nat /\ units[i].len \in Nat
      /\ UnitEnd(i) = UnitStart(i) + units[i].len
      /\ UnitStart(j) \in Nat /\ UnitEnd(j) \in Nat /\ units[j].len \in Nat
      /\ UnitEnd(j) = UnitStart(j) + units[j].len
  BY UnitPlaces
<1>2. CASE i = j
  BY <1>1, <1>2
<1>3. CASE i < j
  <2>1. UnitEnd(i) + Separator <= UnitStart(j)
    BY <1>3, UnitsApart
  <2> DEFINE a == UnitStart(i)
             b == UnitEnd(i)
             c == UnitStart(j)
             d == UnitEnd(j)
  <2>2. /\ a \in Nat /\ b \in Nat /\ c \in Nat /\ d \in Nat
        /\ a <= b /\ b + Separator <= c /\ c <= d
    BY <1>1, <2>1
  <2> HIDE DEF a, b, c, d
  <2>3. b < c
    BY <2>2, SeparatorIs
  <2>4. a <= c /\ b <= d /\ a <= d /\ a < c /\ b < d
    BY <2>2, <2>3
  <2> QED
    BY <2>4 DEF a, b, c, d
<1>4. Len(units) \in Nat
  BY UnitLengths
<1> QED
  BY <1>2, <1>3, <1>4

(* Every unit lies within the text. *)
LEMMA UnitsInText ==
    ASSUME units \in Seq(UnitShape), ~BySize, NEW i \in 1..Len(units)
    PROVE  /\ TextEnd \in Nat /\ UnitEnd(i) <= TextEnd
           /\ i < Len(units) => UnitEnd(i) + Separator <= TextEnd
<1> DEFINE N == Len(units)
<1>1. N \in Nat /\ DOMAIN units = 1..N
  BY UnitLengths
<1>2. N \in 1..N
  BY <1>1
<1>3. TextEnd = UnitEnd(N)
  <2>1. UnitEnd(N) = SumLengths(1..N) + (N - 1) * Separator
    BY <1>2, UnitPlaces
  <2>2. TextEnd = SumLengths(1..N) + (N - 1) * Separator
    BY <1>1 DEF TextEnd
  <2> QED
    BY <2>1, <2>2
<1>4. UnitEnd(N) \in Nat /\ UnitEnd(i) \in Nat /\ UnitStart(N) \in Nat
      /\ units[N].len \in Nat /\ UnitEnd(N) = UnitStart(N) + units[N].len
  BY <1>2, UnitPlaces
<1>5. i <= N
  BY <1>1
<1>6. UnitEnd(i) <= UnitEnd(N)
  BY <1>2, <1>5, UnitsOrdered
<1>7. i < N => UnitEnd(i) + Separator <= UnitStart(N)
  BY <1>2, UnitsApart
<1> QED
  BY <1>3, <1>4, <1>6, <1>7, SeparatorIs

-----------------------------------------------------------------------------
(* The units of a chunk: their indices in ascending order.                 *)
Run(g) ==
    /\ g \in Seq(1..Len(units))
    /\ \A a, b \in 1..Len(g) : a < b => g[a] < g[b]

First(g) == g[1]
Latest(g) == g[Len(g)]

(* The first and the last unit of a run enclose the others. *)
LEMMA RunEnds ==
    ASSUME units \in Seq(UnitShape), NEW g, Run(g)
    PROVE  /\ Len(g) \in Nat /\ DOMAIN g = 1..Len(g) /\ (g = <<>> <=> Len(g) = 0)
           /\ Members(g) \subseteq 1..Len(units) /\ (g = <<>> => Members(g) = {})
           /\ g # <<>> => /\ Len(g) \in 1..Len(g) /\ 1 \in 1..Len(g)
                          /\ First(g) \in Members(g) /\ Latest(g) \in Members(g)
                          /\ First(g) <= Latest(g)
           /\ \A i \in Members(g) : First(g) <= i /\ i <= Latest(g)
<1> DEFINE N == Len(g)
           M == Len(units)
<1>1. M \in Nat
  BY UnitLengths
<1> HIDE DEF M
<1>2. /\ N \in Nat /\ DOMAIN g = 1..N /\ (g = <<>> <=> N = 0)
      /\ g \in Seq(1..M) /\ \A a, b \in 1..N : a < b => g[a] < g[b]
  BY DEF Run, M
<1>3. \A a \in 1..N : g[a] \in 1..M
  BY <1>2, ElementOfSeq
<1> HIDE DEF N
<1>4. Members(g) = {g[a] : a \in 1..N}
  BY <1>2 DEF Members
<1>5. \A a \in 1..N : g[a] \in Members(g)
  BY <1>4
<1>6. ASSUME NEW i \in Members(g)
      PROVE  g[1] <= i /\ i <= g[N]
  <2>1. PICK a \in 1..N : i = g[a]
    BY <1>4, <1>6
  <2>2. 1 \in 1..N /\ N \in 1..N /\ 1 <= a /\ a <= N
    BY <1>2
  <2>3. g[1] \in Nat /\ g[N] \in Nat /\ g[a] \in Nat
    BY <1>1, <1>3, <2>2
  <2>4. g[1] <= g[a]
    BY <1>2, <2>2, <2>3
  <2>5. g[a] <= g[N]
    BY <1>2, <2>2, <2>3
  <2> QED
    BY <2>1, <2>4, <2>5
<1>7. Members(g) \subseteq 1..M
  BY <1>3, <1>4
<1>8. g = <<>> => Members(g) = {}
  <2>1. g = <<>> => 1..N = {}
    BY <1>2
  <2> QED
    BY <1>4, <2>1
<1>9. g # <<>> => N \in 1..N /\ 1 \in 1..N
  BY <1>2
<1>10. g # <<>> => /\ g[1] \in Members(g) /\ g[N] \in Members(g) /\ g[1] <= g[N]
  BY <1>5, <1>6, <1>9
<1> QED
  BY <1>2, <1>6, <1>7, <1>8, <1>9, <1>10 DEF N, M, First, Latest

(* A run goes on with a later unit. *)
LEMMA RunGrows ==
    ASSUME units \in Seq(UnitShape), NEW g, Run(g), NEW i \in 1..Len(units),
           g # <<>> => Latest(g) < i
    PROVE  /\ Run(Append(g, i)) /\ Append(g, i) # <<>>
           /\ Len(Append(g, i)) = Len(g) + 1
           /\ Latest(Append(g, i)) = i /\ i \notin Members(g)
           /\ Members(Append(g, i)) = Members(g) \cup {i}
           /\ First(Append(g, i)) = IF g = <<>> THEN i ELSE First(g)
<1> DEFINE N == Len(g)
           h == Append(g, i)
           M == Len(units)
<1>1. M \in Nat
  BY UnitLengths
<1>2. /\ N \in Nat /\ g \in Seq(1..M) /\ (g = <<>> <=> N = 0) /\ DOMAIN g = 1..N
      /\ \A a, b \in 1..N : a < b => g[a] < g[b]
  <2>1. g \in Seq(1..M) /\ \A a, b \in 1..N : a < b => g[a] < g[b]
    BY DEF Run
  <2>2. N \in Nat /\ (g = <<>> <=> N = 0) /\ DOMAIN g = 1..N
    BY RunEnds
  <2> QED
    BY <2>1, <2>2
<1>3. /\ h \in Seq(1..M) /\ h # <<>> /\ Len(h) = N + 1
      /\ \A a \in 1..N : h[a] = g[a]
      /\ h[N + 1] = i
  <2>1. g \in Seq(1..M) /\ i \in 1..M
    BY <1>2
  <2> HIDE DEF M
  <2> QED
    BY <2>1, AppendProperties
<1>4. \A j \in Members(g) : j <= Latest(g) /\ j \in 1..M
  BY RunEnds
<1>5. g # <<>> => Latest(g) \in 1..M
  BY RunEnds
<1> HIDE DEF h, M
<1>6. i \notin Members(g) /\ \A j \in Members(g) : j < i
  <2>1. ASSUME NEW j \in Members(g)
        PROVE  j < i
    <3>1. g # <<>>
      BY <2>1, RunEnds
    <3>2. Latest(g) < i /\ Latest(g) \in 1..M /\ j <= Latest(g) /\ j \in 1..M
      BY <1>4, <1>5, <3>1
    <3>3. i \in Nat
      BY DEF M
    <3> QED
      BY <1>1, <3>2, <3>3
  <2>2. i \in Nat
    OBVIOUS
  <2> QED
    BY <2>1, <2>2
<1>7. \A a \in 1..N : g[a] \in Members(g)
  BY <1>2 DEF Members
<1> HIDE DEF N
<1>8. ASSUME NEW a \in 1..Len(h), NEW b \in 1..Len(h), a < b
      PROVE  h[a] < h[b]
  <2>1. a \in 1..N
    BY <1>2, <1>3, <1>8
  <2>2. CASE b = N + 1
    BY <1>3, <1>6, <1>7, <2>1, <2>2
  <2>3. CASE b # N + 1
    <3>1. b \in 1..N
      BY <1>2, <1>3, <2>3
    <3> QED
      BY <1>2, <1>3, <1>8, <2>1, <3>1
  <2> QED
    BY <2>2, <2>3
<1>9. Members(h) = Members(g) \cup {i}
  <2>1. DOMAIN h = 1..N + 1
    BY <1>2, <1>3
  <2>2. Members(h) = {h[a] : a \in 1..N + 1} /\ Members(g) = {g[a] : a \in 1..N}
    BY <1>2, <2>1 DEF Members
  <2>3. \A a \in 1..N + 1 : a \in 1..N \/ a = N + 1
    BY <1>2
  <2>4. (N + 1) \in 1..N + 1 /\ \A a \in 1..N : a \in 1..N + 1
    BY <1>2
  <2> QED
    BY <1>3, <2>2, <2>3, <2>4
<1>10. h[1] = IF g = <<>> THEN i ELSE g[1]
  <2>1. CASE g = <<>>
    BY <1>2, <1>3, <2>1
  <2>2. CASE g # <<>>
    <3>1. 1 \in 1..N
      BY <1>2, <2>2
    <3> QED
      BY <1>3, <2>2, <3>1
  <2> QED
    BY <2>1, <2>2
<1>11. h[Len(h)] = i
  BY <1>3
<1>12. Run(h)
  BY <1>3, <1>8 DEF Run, M
<1> QED
  BY <1>3, <1>6, <1>9, <1>10, <1>11, <1>12 DEF h, N, First, Latest

(* The tail that is carried over is a run with the same end, and fits the  *)
(* overlap.                                                                *)
TailFits(t, g, room) ==
    /\ Run(t) /\ Members(t) \subseteq Members(g)
    /\ t # <<>> => First(g) <= First(t) /\ Latest(t) = Latest(g)
    /\ SumLengths(Members(t)) <= room

(* What a closed chunk leaves to the next is its own end, within the room. *)
LEMMA TailIs ==
    ASSUME units \in Seq(UnitShape), NEW g, Run(g), NEW room \in Nat
    PROVE  TailFits(TailOf(g, room), g, room)
<1> DEFINE N == Len(g)
           M == Len(units)
           fits(k) == SumLengths({g[j] : j \in k..N}) <= room
           C == {k \in 1..N : fits(k)} \cup {N + 1}
           k == Min(C)
           t == SubSeq(g, k, N)
<1>1. TailOf(g, room) = t
  BY DEF TailOf
<1>2. /\ N \in Nat /\ DOMAIN g = 1..N /\ (g = <<>> <=> N = 0)
      /\ g \in Seq(1..M) /\ \A a, b \in 1..N : a < b => g[a] < g[b]
  <2>1. g \in Seq(1..M) /\ \A a, b \in 1..N : a < b => g[a] < g[b]
    BY DEF Run
  <2>2. N \in Nat /\ (g = <<>> <=> N = 0) /\ DOMAIN g = 1..N
    BY RunEnds
  <2> QED
    BY <2>1, <2>2
<1>3. \A a \in 1..N : g[a] \in 1..M /\ g[a] \in Members(g) /\ First(g) <= g[a]
  <2>1. \A a \in 1..N : g[a] \in Members(g)
    BY <1>2 DEF Members
  <2>2. Members(g) \subseteq 1..M /\ \A i \in Members(g) : First(g) <= i
    BY RunEnds
  <2> QED
    BY <2>1, <2>2
<1>4. k \in 1..N + 1 /\ (k = N + 1 \/ fits(k))
  <2> HIDE DEF fits, N
  <2>1. C \in SUBSET Nat /\ C # {}
    BY <1>2
  <2>2. \E x \in C : \A y \in C : x <= y
    <3> HIDE DEF C
    <3> QED
      BY <2>1, LeastOf
  <2>3. k \in C
    <3> HIDE DEF C
    <3> QED
      BY <2>2 DEF Min
  <2> HIDE DEF k
  <2> QED
    BY <1>2, <2>3
<1> HIDE DEF k
<1>5. /\ t \in Seq(1..M)
      /\ Len(t) = IF k <= N THEN N - k + 1 ELSE 0
      /\ \A a \in 1..N - k + 1 : t[a] = g[k + a - 1]
  <2>1. \A a \in k..N : g[a] \in 1..M
    BY <1>2, <1>3, <1>4
  <2>2. k \in Int /\ N \in Int
    BY <1>2, <1>4
  <2> HIDE DEF N, M
  <2> QED
    BY <2>1, <2>2, SubSeqProperties
<1>6. Len(t) = N - k + 1
  BY <1>2, <1>4, <1>5
<1> HIDE DEF t, M
<1>7. DOMAIN t = 1..N - k + 1
  BY <1>5, <1>6
<1>8. \A a \in 1..N - k + 1 : k + a - 1 \in k..N /\ k + a - 1 \in 1..N
  BY <1>2, <1>4
<1>9. \A j \in k..N : j - k + 1 \in 1..N - k + 1 /\ k + (j - k + 1) - 1 = j
  BY <1>2, <1>4
<1>10. Members(t) = {g[j] : j \in k..N}
  <2>1. Members(t) = {t[a] : a \in 1..N - k + 1}
    BY <1>7 DEF Members
  <2>2. \A a \in 1..N - k + 1 : t[a] \in {g[j] : j \in k..N}
    BY <1>5, <1>8
  <2>3. ASSUME NEW j \in k..N
        PROVE  g[j] \in {t[a] : a \in 1..N - k + 1}
    <3> DEFINE a == j - k + 1
    <3>1. a \in 1..N - k + 1 /\ k + a - 1 = j
      BY <1>9
    <3> HIDE DEF a
    <3>2. t[a] = g[j]
      BY <1>5, <3>1
    <3> QED
      BY <3>1, <3>2
  <2> QED
    BY <2>1, <2>2, <2>3
<1>11. Members(t) \subseteq Members(g)
  <2>1. \A j \in k..N : j \in 1..N
    BY <1>2, <1>4
  <2> QED
    BY <1>3, <1>10, <2>1
<1>12. SumLengths(Members(t)) <= room
  <2>1. CASE k = N + 1
    <3>1. k..N = {}
      BY <1>2, <2>1
    <3>2. Members(t) = {}
      BY <1>10, <3>1
    <3>3. SumLengths({}) = 0
      BY SumOfNone
    <3> QED
      BY <3>2, <3>3
  <2>2. CASE fits(k)
    BY <1>10, <2>2
  <2> QED
    BY <1>4, <2>1, <2>2
<1> HIDE DEF fits, N
<1>13. \A a, b \in 1..Len(t) : a < b => t[a] < t[b]
  <2>1. ASSUME NEW a \in 1..Len(t), NEW b \in 1..Len(t), a < b
        PROVE  t[a] < t[b]
    <3>1. t[a] = g[k + a - 1] /\ t[b] = g[k + b - 1] /\ k + a - 1 \in 1..N /\ k + b - 1 \in 1..N
      BY <1>5, <1>6, <1>8
    <3>2. k + a - 1 < k + b - 1
      BY <1>2, <1>4, <2>1
    <3> QED
      BY <1>2, <3>1, <3>2
  <2> QED
    BY <2>1
<1>14. Run(t)
  BY <1>5, <1>13 DEF Run, M
<1>15. ASSUME t # <<>>
       PROVE  First(g) <= First(t) /\ Latest(t) = Latest(g)
  <2>1. Len(t) \in Nat /\ Len(t) # 0
    BY <1>5, <1>15
  <2>2. 1 \in 1..N - k + 1 /\ Len(t) \in 1..N - k + 1 /\ k + Len(t) - 1 = N /\ k \in 1..N
        /\ k + 1 - 1 = k
    BY <1>2, <1>4, <1>6, <2>1
  <2>3. t[1] = g[k] /\ t[Len(t)] = g[N]
    BY <1>5, <2>2
  <2> QED
    BY <1>3, <2>2, <2>3 DEF First, Latest, N
<1> QED
  BY <1>1, <1>11, <1>12, <1>14, <1>15 DEF TailFits

(* One sentence more: the open chunk ends with it, and the chunk it was is  *)
(* closed, or part of it, or blank.                                        *)
TakesOne(acc, next, i, room, carry) ==
    /\ Run(next.open) /\ next.open # <<>> /\ Latest(next.open) = i /\ i \in Members(next.open)
    /\ Members(next.open) \subseteq Members(acc.open) \cup {i}
    /\ acc.open # <<>> => First(acc.open) <= First(next.open)
    /\ \/ /\ next.closed = acc.closed
          /\ Members(acc.open) \subseteq Members(next.open) \/ SumLengths(Members(acc.open)) = 0
       \/ /\ next.closed = Append(acc.closed, acc.open)
          /\ acc.open # <<>> /\ SumLengths(Members(acc.open)) # 0
    /\ \/ SumLengths(Members(next.open)) <= room
       \/ SumLengths(Members(next.open) \ {i}) <= carry

(* What Take returns, whichever way it goes. *)
LEMMA TakeIs ==
    ASSUME units \in Seq(UnitShape), NEW acc, Run(acc.open), NEW i \in 1..Len(units),
           acc.open # <<>> => Latest(acc.open) < i, NEW room \in Nat, NEW carry \in Nat
    PROVE  TakesOne(acc, Take(acc, i, room, carry), i, room, carry)
<1> DEFINE o == acc.open
           full == o # <<>> /\ SumLengths(Members(o)) + units[i].len > room
           tail == TailOf(o, carry)
           rest == IF full THEN tail ELSE o
           p == Append(rest, i)
           closed == IF full THEN Shut(acc) ELSE acc.closed
           next == Take(acc, i, room, carry)
<1>1. next.open = p /\ next.closed = closed
  BY DEF Take
<1> HIDE DEF next
<1>2. TailFits(tail, o, carry)
  BY TailIs
<1> HIDE DEF tail
<1>3. SumLengths(Members(o)) \in Nat /\ units[i].len \in Nat
  BY SumsAre, UnitLengths
<1> HIDE DEF full
<1>4. /\ Run(rest) /\ (rest # <<>> => Latest(rest) < i /\ First(o) <= First(rest))
      /\ Members(rest) \subseteq Members(o)
  <2>1. CASE full
    <3>1. rest = tail
      BY <2>1
    <3>2. o # <<>>
      BY <2>1 DEF full
    <3> QED
      BY <1>2, <3>1, <3>2 DEF TailFits
  <2>2. CASE ~full
    <3>1. rest = o
      BY <2>2
    <3>2. o # <<>> => First(o) \in Nat
      <4>1. o # <<>> => First(o) \in 1..Len(units)
        BY RunEnds
      <4> QED
        BY <4>1
    <3> QED
      BY <3>1, <3>2
  <2> QED
    BY <2>1, <2>2
<1> HIDE DEF rest
<1>5. /\ Run(p) /\ p # <<>> /\ Latest(p) = i /\ i \notin Members(rest)
      /\ Members(p) = Members(rest) \cup {i}
      /\ First(p) = IF rest = <<>> THEN i ELSE First(rest)
  BY <1>4, RunGrows
<1> HIDE DEF p
<1>6. o # <<>> => First(o) <= First(p)
  <2>1. ASSUME o # <<>>
        PROVE  First(o) <= First(p)
    <3>1. CASE rest # <<>>
      BY <1>4, <1>5, <3>1
    <3>2. CASE rest = <<>>
      <4>1. First(o) \in 1..Len(units) /\ Latest(o) \in 1..Len(units) /\ First(o) <= Latest(o)
        BY <2>1, RunEnds
      <4> QED
        BY <1>5, <2>1, <3>2, <4>1
    <3> QED
      BY <3>1, <3>2
  <2> QED
    BY <2>1
<1>7. \/ closed = acc.closed /\ (Members(o) \subseteq Members(p) \/ SumLengths(Members(o)) = 0)
      \/ closed = Append(acc.closed, o) /\ o # <<>> /\ SumLengths(Members(o)) # 0
  <2>1. CASE full
    <3>1. closed = Shut(acc) /\ o # <<>>
      BY <2>1 DEF full
    <3> QED
      BY <3>1 DEF Shut
  <2>2. CASE ~full
    BY <1>5, <2>2 DEF rest
  <2> QED
    BY <2>1, <2>2
<1>8. SumLengths(Members(p)) <= room \/ SumLengths(Members(p) \ {i}) <= carry
  <2>1. Members(p) \ {i} = Members(rest)
    BY <1>5
  <2>2. CASE full
    BY <1>2, <2>1, <2>2 DEF TailFits, rest
  <2>3. CASE o = <<>>
    <3>1. ~full /\ rest = o
      BY <2>3 DEF full, rest
    <3>2. Members(rest) = {}
      BY <2>3, <3>1, RunEnds
    <3>3. SumLengths(Members(p) \ {i}) = 0
      BY <2>1, <3>2, SumOfNone
    <3> QED
      BY <3>3
  <2>4. CASE ~full /\ o # <<>>
    <3>1. rest = o
      BY <2>4 DEF rest
    <3>2. ~(SumLengths(Members(o)) + units[i].len > room)
      BY <2>4 DEF full
    <3>3. i \notin Members(o) /\ Members(p) = Members(o) \cup {i}
      BY <1>5, <3>1
    <3>4. SumLengths(Members(o) \cup {i}) = SumLengths(Members(o)) + units[i].len
      BY <3>3, SumOfMore
    <3> QED
      BY <1>3, <3>2, <3>3, <3>4
  <2> QED
    BY <2>2, <2>3, <2>4
<1> HIDE DEF closed
<1>9. Members(p) \subseteq Members(o) \cup {i} /\ i \in Members(p)
  BY <1>4, <1>5
<1> QED
  BY <1>1, <1>5, <1>6, <1>7, <1>8, <1>9 DEF TakesOne, next

-----------------------------------------------------------------------------
(* The invariant of the splitters.  Its parts speak of the text and of the *)
(* values a state gives to the rest, so that a step, which leaves the text *)
(* as it is, is a matter of other values.                                  *)

TextOK ==
    /\ units \in Seq(UnitShape) /\ chars \in Seq(BOOLEAN) /\ request \in Requests
    /\ limit \in Nat \ {0} /\ overlap \in Nat
    /\ BySize => /\ units = <<>> /\ Chosen(request) = "tokens"
                 /\ budget \in Nat \ {0} /\ limit = CharCap(budget)
    /\ units # <<>> => Chosen(request) # "tokens"

(* A chunk as the properties want it. *)
PieceShape ==
    [from : Nat, to : Nat, length : Nat, members : SUBSET (1..Len(units)), words : Nat,
     parents : SUBSET (1..Len(units))]

Explained(p) ==
    CASE BySize -> p.length <= limit /\ EstimateTokens(p.words, p.length) <= budget + 1
      [] Chosen(request) \in {"sentences", "paragraphs", "prose"} ->
           \/ SumLengths(p.members) <= limit
           \/ SumLengths(p.members) - units[Max(p.members)].len <= overlap
      [] Chosen(request) \in {"rows", "sections"} ->
           \/ p.length <= limit
           \/ \E i \in p.members : /\ p.members = {i}
                                   /\ SumLengths(p.members) <= limit \/ IsHeading(i)
      [] OTHER -> TRUE

EnclosedBy(j, i) ==
    /\ j < i /\ IsHeading(j) /\ Level(j) < Level(i)
    /\ ~\E m \in j + 1 .. i - 1 : IsHeading(m) /\ Level(m) <= Level(j)
Enclosed(p) ==
    Chosen(request) = "numbered" =>
        p.parents = {j \in DOMAIN units : \E i \in {i \in p.members : IsHeading(i)} : EnclosedBy(j, i)}

PieceOK(p) ==
    /\ p \in PieceShape
    /\ p.from < p.to /\ p.to <= TextEnd
    /\ Explained(p) /\ Enclosed(p)
    /\ Chosen(request) # "numbered" => \A i \in p.members : UnitStart(i) <= p.to

Follows(p, q) ==
    p.from <= q.from /\ p.to <= q.to /\ (p.from < q.from \/ p.to < q.to)

PiecesOK(ps) ==
    /\ ps \in Seq(PieceShape)
    /\ \A k \in 1..Len(ps) : PieceOK(ps[k])
    /\ \A k \in 2..Len(ps) : Follows(ps[k - 1], ps[k])

(* Chunks that keep a unit, and go on keeping it with more of them. *)
Keeps(ps, i) ==
    IF Chosen(request) = "numbered"
    THEN \E k \in 1..Len(ps) : i \in ps[k].members /\ ps[k].to - ps[k].from >= units[i].len
    ELSE \A q \in UnitStart(i)..UnitEnd(i) - 1 :
            \E k \in 1..Len(ps) : i \in ps[k].members /\ ps[k].from <= q /\ q < ps[k].to
Exempt(i) ==
    \/ units[i].kind = "blank"
    \/ Chosen(request) \in {"rows", "sections"} /\ ContextOnly(i)
    \/ Chosen(request) = "numbered" /\ IsHeading(i)
LetterKept(ps, p) == \E k \in 1..Len(ps) : ps[k].from <= p /\ p < ps[k].to

(* What is not yet in a chunk begins after the last of them. *)
Behind(ps, g, a) ==
    ps # <<>> => \A i \in 1..Len(units) : i \in Members(g) \/ i >= a =>
                    ps[Len(ps)].to <= UnitStart(i)

(* The splitter by size: the next chunk will not end before the last one.   *)
LastBefore(last, a) ==
    /\ last.from < a
    /\ \/ last.to <= a
       \/ /\ last.to < a + limit
          /\ \/ last.to = Len(chars)
             \/ ~chars[last.to + 1]
             \/ \A p \in a + 1..last.to - 1 : chars[p + 1]
SizeInv(a, ps) ==
    /\ BySize /\ a <= Len(chars)
    /\ \A p \in 0..a - 1 : chars[p + 1] => LetterKept(ps, p)
    /\ ps # <<>> => LastBefore(ps[Len(ps)], a)

(* The splitters by sentence. *)
ProseFits(g) ==
    \/ SumLengths(Members(g)) <= limit
    \/ SumLengths(Members(g) \ {Latest(g)}) <= overlap
SentenceInv(a, g, ps) ==
    /\ Chosen(request) \in {"sentences", "paragraphs", "prose"}
    /\ a \in 1..Len(units) + 1
    /\ g # <<>> => Latest(g) < a /\ ProseFits(g)
    /\ \A i \in 1..a - 1 : units[i].kind = "blank" \/ i \in Members(g) \/ Keeps(ps, i)
    /\ ps # <<>> => /\ g # <<>>
                    /\ ps[Len(ps)].from <= UnitStart(First(g))
                    /\ ps[Len(ps)].to < UnitEnd(Latest(g))

(* The splitters by line. *)
ContextOf(hd, hr) ==
    LET part(i) == IF i = 0 THEN 0 ELSE BoundedContext(units[i].len)
    IN part(hd) + (IF hd # 0 /\ hr # 0 THEN 1 ELSE 0) + part(hr)
ContextIn(hc, hd, hr) == IF hc \/ ContextOf(hd, hr) = 0 THEN 0 ELSE ContextOf(hd, hr) + 2
RowsFit(g, hc, hd, hr) ==
    \/ ContextIn(hc, hd, hr) + JoinedLength(g) <= limit
    \/ Len(g) = 1 /\ (units[First(g)].len <= limit \/ IsHeading(First(g)))
HeadingsInv(a, hd, hr) ==
    /\ hd < a /\ hr < a
    /\ hd # 0 => IsHeading(hd)
    /\ hr # 0 => HeaderRow(hr) /\ hd < hr
    /\ \A i \in hd + 1..a - 1 : ~IsHeading(i)
    /\ Chosen(request) = "rows" /\ hr = 0 =>
          \A i \in hd + 1..a - 1 : ~(units[i].kind = "text" /\ units[i].len <= limit)
RowInv(a, g, sz, hc, hd, hr, ps) ==
    /\ Chosen(request) \in {"rows", "sections"}
    /\ a \in 1..Len(units) + 1
    /\ g # <<>> => /\ Latest(g) < a
                   /\ \A i \in First(g)..a - 1 : i \in Members(g) \/ units[i].kind = "blank"
                   /\ \A i \in Members(g) : units[i].kind # "blank"
                   /\ JoinedLength(g) <= sz /\ RowsFit(g, hc, hd, hr)
    /\ HeadingsInv(a, hd, hr)
    /\ \A i \in 1..a - 1 : Exempt(i) \/ i \in Members(g) \/ Keeps(ps, i)
    /\ Behind(ps, g, a)

(* The splitter of numbered sections. *)
OpenInv(a, op) ==
    \A l \in 1..3, j \in 1..Len(units) :
        op[l] = j <=> /\ j < a /\ IsHeading(j) /\ Level(j) = l
                      /\ ~\E m \in j + 1..a - 1 : IsHeading(m) /\ Level(m) <= l
NumberedInv(a, g, op, ps) ==
    /\ Chosen(request) = "numbered"
    /\ a \in 1..Len(units) + 1
    /\ g = <<>> => a = 1
    /\ g # <<>> => /\ Latest(g) = a - 1
                   /\ \A i \in First(g)..a - 1 : i \in Members(g)
                   /\ \A i \in First(g) + 1..a - 1 : ~IsHeading(i)
                   /\ ~IsHeading(First(g)) => First(g) = 1
    /\ OpenInv(a, op)
    /\ \A i \in 1..a - 1 : Exempt(i) \/ i \in Members(g) \/ Keeps(ps, i)
    /\ Behind(ps, g, a)

AllKept(ps) ==
    /\ \A p \in 0..Len(chars) - 1 : chars[p + 1] => LetterKept(ps, p)
    /\ \A i \in 1..Len(units) : Exempt(i) \/ Keeps(ps, i)

StateOK(sp, a, g, sz, hc, hd, hr, op, ps) ==
    /\ sp \in {"none", "done", "failed", Chosen(request)}
    /\ a \in Nat /\ Run(g) /\ sz \in Nat /\ hc \in BOOLEAN
    /\ hd \in 0..Len(units) /\ hr \in 0..Len(units) /\ op \in [1..3 -> 0..Len(units)]
    /\ PiecesOK(ps)
    /\ sp = "none" => g = <<>> /\ hd = 0 /\ hr = 0 /\ op = [l \in 1..3 |-> 0] /\ ps = <<>>
    /\ sp = "tokens" => SizeInv(a, ps)
    /\ sp \in {"sentences", "paragraphs", "prose"} => SentenceInv(a, g, ps)
    /\ sp \in {"rows", "sections"} => RowInv(a, g, sz, hc, hd, hr, ps)
    /\ sp = "numbered" => NumberedInv(a, g, op, ps)
    /\ sp \in {"done", "failed"} => AllKept(ps)

SplitInv ==
    TextOK /\ StateOK(splitter, at, group, size, hasContext, heading, header, open, pieces)

-----------------------------------------------------------------------------
(* Lists of chunks.                                                        *)

(* The type of a list of chunks and of each of them. *)
LEMMA PiecesAre ==
    ASSUME NEW ps, PiecesOK(ps)
    PROVE  /\ Len(ps) \in Nat /\ DOMAIN ps = 1..Len(ps) /\ (ps = <<>> <=> Len(ps) = 0)
           /\ \A k \in 1..Len(ps) : /\ ps[k].from \in Nat /\ ps[k].to \in Nat
                                    /\ ps[k].from < ps[k].to /\ PieceOK(ps[k])
           /\ ps # <<>> => Len(ps) \in 1..Len(ps)
<1>1. ps \in Seq(PieceShape) /\ \A k \in 1..Len(ps) : PieceOK(ps[k])
  BY DEF PiecesOK
<1>2. \A p : PieceOK(p) => p.from \in Nat /\ p.to \in Nat /\ p.from < p.to
  BY DEF PieceOK, PieceShape
<1> QED
  BY <1>1, <1>2

(* Two lists make one if the second follows the first. *)
LEMMA PiecesJoin ==
    ASSUME NEW ps, PiecesOK(ps), NEW qs, PiecesOK(qs),
           ps # <<>> /\ qs # <<>> => Follows(ps[Len(ps)], qs[1])
    PROVE  /\ PiecesOK(ps \o qs) /\ Len(ps \o qs) = Len(ps) + Len(qs)
           /\ \A k \in 1..Len(ps) : (ps \o qs)[k] = ps[k]
           /\ \A k \in 1..Len(qs) : (ps \o qs)[Len(ps) + k] = qs[k]
<1> DEFINE N == Len(ps)
           M == Len(qs)
           rs == ps \o qs
<1>1. /\ ps \in Seq(PieceShape) /\ \A k \in 1..N : PieceOK(ps[k])
      /\ \A k \in 2..N : Follows(ps[k - 1], ps[k])
      /\ qs \in Seq(PieceShape) /\ \A k \in 1..M : PieceOK(qs[k])
      /\ \A k \in 2..M : Follows(qs[k - 1], qs[k])
  BY DEF PiecesOK
<1>2. N \in Nat /\ M \in Nat /\ (ps = <<>> <=> N = 0) /\ (qs = <<>> <=> M = 0)
  BY <1>1
<1>3. /\ rs \in Seq(PieceShape) /\ Len(rs) = N + M
      /\ \A k \in 1..N : rs[k] = ps[k]
      /\ \A k \in 1..M : rs[N + k] = qs[k]
  <2>1. /\ rs \in Seq(PieceShape) /\ Len(rs) = N + M
        /\ \A k \in 1..Len(rs) : rs[k] = IF k <= N THEN ps[k] ELSE qs[k - N]
    BY <1>1, ConcatProperties
  <2> HIDE DEF rs, N, M
  <2>2. \A k \in 1..N : k \in 1..Len(rs) /\ k <= N
    BY <1>2, <2>1
  <2>3. ASSUME NEW k \in 1..M
        PROVE  rs[N + k] = qs[k]
    <3> DEFINE n == N + k
    <3>1. n \in 1..Len(rs) /\ ~(n <= N) /\ n - N = k
      BY <1>2, <2>1
    <3> HIDE DEF n
    <3>2. rs[n] = qs[n - N]
      BY <2>1, <3>1
    <3> QED
      BY <3>1, <3>2 DEF n
  <2> QED
    BY <2>1, <2>2, <2>3
<1> HIDE DEF rs, N, M
<1>4. \A k \in 1..N + M : k \in 1..N \/ (k - N \in 1..M /\ k = N + (k - N))
  BY <1>2
<1>5. \A k \in 1..N + M : PieceOK(rs[k])
  BY <1>1, <1>3, <1>4
<1>6. ASSUME NEW k \in 2..N + M
      PROVE  Follows(rs[k - 1], rs[k])
  <2>1. CASE k <= N
    <3>1. k \in 2..N /\ k \in 1..N /\ k - 1 \in 1..N
      BY <1>2, <2>1
    <3> QED
      BY <1>1, <1>3, <3>1
  <2>2. CASE k = N + 1
    <3>1. 1 \in 1..M /\ N \in 1..N /\ k - 1 = N /\ ps # <<>> /\ qs # <<>>
      BY <1>2, <2>2
    <3> QED
      BY <1>3, <2>2, <3>1 DEF N
  <2>3. CASE k > N + 1
    <3>1. k - N \in 2..M /\ k - N \in 1..M /\ (k - N) - 1 \in 1..M
          /\ k = N + (k - N) /\ k - 1 = N + ((k - N) - 1)
      BY <1>2, <2>3
    <3>2. rs[k] = qs[k - N] /\ rs[k - 1] = qs[(k - N) - 1]
      BY <1>3, <3>1
    <3> QED
      BY <1>1, <3>1, <3>2
  <2> QED
    BY <1>2, <2>1, <2>2, <2>3
<1>7. PiecesOK(rs)
  BY <1>3, <1>5, <1>6 DEF PiecesOK
<1> QED
  BY <1>3, <1>7 DEF rs, N, M

(* A chunk that follows the last one may be appended. *)
LEMMA PiecesGrow ==
    ASSUME NEW ps, PiecesOK(ps), NEW p, PieceOK(p),
           ps # <<>> => Follows(ps[Len(ps)], p)
    PROVE  /\ PiecesOK(Append(ps, p)) /\ Append(ps, p) # <<>>
           /\ Len(Append(ps, p)) = Len(ps) + 1
           /\ \A k \in 1..Len(ps) : Append(ps, p)[k] = ps[k]
           /\ Append(ps, p)[Len(Append(ps, p))] = p
           /\ Append(ps, p)[Len(ps) + 1] = p
<1> DEFINE N == Len(ps)
           rs == Append(ps, p)
<1>1. /\ ps \in Seq(PieceShape) /\ \A k \in 1..N : PieceOK(ps[k])
      /\ \A k \in 2..N : Follows(ps[k - 1], ps[k])
      /\ p \in PieceShape
  BY DEF PiecesOK, PieceOK
<1>2. N \in Nat /\ (ps = <<>> <=> N = 0)
  BY <1>1
<1>3. /\ rs \in Seq(PieceShape) /\ Len(rs) = N + 1 /\ rs # <<>>
      /\ \A k \in 1..N : rs[k] = ps[k]
      /\ rs[N + 1] = p
  BY <1>1, AppendProperties
<1> HIDE DEF rs, N
<1>4. \A k \in 1..N + 1 : k \in 1..N \/ k = N + 1
  BY <1>2
<1>5. \A k \in 1..N + 1 : PieceOK(rs[k])
  BY <1>1, <1>3, <1>4
<1>6. ASSUME NEW k \in 2..N + 1
      PROVE  Follows(rs[k - 1], rs[k])
  <2>1. CASE k <= N
    <3>1. k \in 2..N /\ k \in 1..N /\ k - 1 \in 1..N
      BY <1>2, <2>1
    <3> QED
      BY <1>1, <1>3, <3>1
  <2>2. CASE k = N + 1
    <3>1. N \in 1..N /\ k - 1 = N /\ ps # <<>>
      BY <1>2, <2>2
    <3> QED
      BY <1>3, <2>2, <3>1 DEF N
  <2> QED
    BY <1>2, <2>1, <2>2
<1>7. PiecesOK(rs)
  BY <1>3, <1>5, <1>6 DEF PiecesOK
<1> QED
  BY <1>3, <1>7 DEF rs, N

(* A list that goes on from another keeps what the other keeps. *)
GoesOn(ps, rs) == Len(rs) >= Len(ps) /\ \A k \in 1..Len(ps) : rs[k] = ps[k]

(* Chunks that are added take nothing away from those there are. *)
LEMMA KeepsMore ==
    ASSUME NEW ps, NEW rs, GoesOn(ps, rs), Len(ps) \in Nat, Len(rs) \in Nat
    PROVE  /\ \A i : Keeps(ps, i) => Keeps(rs, i)
           /\ \A p : LetterKept(ps, p) => LetterKept(rs, p)
<1>1. \A k \in 1..Len(ps) : k \in 1..Len(rs) /\ rs[k] = ps[k]
  BY DEF GoesOn
<1>2. \A p : LetterKept(ps, p) => LetterKept(rs, p)
  BY <1>1 DEF LetterKept
<1>3. ASSUME NEW i, Keeps(ps, i)
      PROVE  Keeps(rs, i)
  <2>1. CASE Chosen(request) = "numbered"
    BY <1>1, <1>3, <2>1 DEF Keeps
  <2>2. CASE Chosen(request) # "numbered"
    <3> SUFFICES ASSUME NEW q \in UnitStart(i)..UnitEnd(i) - 1
                 PROVE  \E k \in 1..Len(rs) : i \in rs[k].members /\ rs[k].from <= q /\ q < rs[k].to
      BY <2>2 DEF Keeps
    <3>1. PICK k \in 1..Len(ps) : i \in ps[k].members /\ ps[k].from <= q /\ q < ps[k].to
      BY <1>3, <2>2 DEF Keeps
    <3> QED
      BY <1>1, <3>1
  <2> QED
    BY <2>1, <2>2
<1> QED
  BY <1>2, <1>3

(* A chunk that has a unit and all of its span keeps it. *)
LEMMA KeptWhole ==
    ASSUME units \in Seq(UnitShape), NEW i \in 1..Len(units), NEW ps, NEW k \in 1..Len(ps),
           i \in ps[k].members, ps[k].from \in Nat, ps[k].to \in Nat,
           ps[k].from <= UnitStart(i), UnitEnd(i) <= ps[k].to
    PROVE  Keeps(ps, i)
<1>1. /\ UnitStart(i) \in Nat /\ UnitEnd(i) \in Nat /\ units[i].len \in Nat
      /\ UnitEnd(i) = UnitStart(i) + units[i].len
  BY UnitPlaces
<1> DEFINE a == UnitStart(i)
           b == UnitEnd(i)
           from == ps[k].from
           to == ps[k].to
           length == units[i].len
<1>2. /\ a \in Nat /\ b \in Nat /\ from \in Nat /\ to \in Nat /\ length \in Nat
      /\ b = a + length /\ from <= a /\ b <= to
  BY <1>1
<1> HIDE DEF a, b, from, to, length
<1>3. to - from >= length /\ \A q \in a..b - 1 : from <= q /\ q < to
  BY <1>2
<1>4. ps[k].to - ps[k].from >= units[i].len
  BY <1>3 DEF from, to, length
<1>5. \A q \in UnitStart(i)..UnitEnd(i) - 1 : ps[k].from <= q /\ q < ps[k].to
  BY <1>3 DEF a, b, from, to
<1> QED
  BY <1>4, <1>5 DEF Keeps

(* A unit whose letters are all in its chunks is covered by them. *)
LEMMA KeptIsCovered ==
    ASSUME TextOK, PiecesOK(pieces), NEW i \in 1..Len(units), units[i].kind # "blank",
           Keeps(pieces, i)
    PROVE  Covered(i)
<1>1. /\ Len(pieces) \in Nat /\ DOMAIN pieces = 1..Len(pieces)
      /\ \A k \in 1..Len(pieces) : /\ pieces[k].from \in Nat /\ pieces[k].to \in Nat
                                   /\ PieceOK(pieces[k])
  BY PiecesAre
<1>2. /\ UnitStart(i) \in Nat /\ UnitEnd(i) \in Nat /\ units[i].len \in Nat
      /\ UnitEnd(i) = UnitStart(i) + units[i].len
  BY UnitPlaces DEF TextOK
<1> DEFINE of == {k \in DOMAIN pieces : i \in pieces[k].members}
<1>3. CASE Chosen(request) = "numbered"
  <2>1. PICK k \in 1..Len(pieces) : i \in pieces[k].members
                                    /\ pieces[k].to - pieces[k].from >= units[i].len
    BY <1>3 DEF Keeps
  <2>2. k \in of
    BY <1>1, <2>1
  <2> QED
    BY <1>3, <2>1, <2>2 DEF Covered
<1>4. CASE Chosen(request) # "numbered"
  <2>1. \A q \in UnitStart(i)..UnitEnd(i) - 1 : \E k \in of : pieces[k].from <= q /\ q < pieces[k].to
    <3> SUFFICES ASSUME NEW q \in UnitStart(i)..UnitEnd(i) - 1
                 PROVE  \E k \in of : pieces[k].from <= q /\ q < pieces[k].to
      OBVIOUS
    <3>1. PICK k \in 1..Len(pieces) : /\ i \in pieces[k].members
                                      /\ pieces[k].from <= q /\ q < pieces[k].to
      BY <1>4 DEF Keeps
    <3>2. k \in of
      BY <1>1, <3>1
    <3> QED
      BY <3>1, <3>2
  <2>2. \A k \in of : UnitStart(i) <= pieces[k].to /\ pieces[k].to \in Nat
    BY <1>1, <1>4 DEF PieceOK
  <2>3. ASSUME NEW q \in {UnitStart(i)} \cup {pieces[k].to : k \in of}, q < UnitEnd(i)
        PROVE  q \in UnitStart(i)..UnitEnd(i) - 1
    <3> HIDE DEF of
    <3>1. q \in Nat /\ UnitStart(i) <= q
      BY <1>2, <2>2
    <3> QED
      BY <1>2, <2>3, <3>1
  <2> QED
    BY <2>1, <2>3 DEF Covered
<1> QED
  BY <1>3, <1>4

-----------------------------------------------------------------------------
(* The invariant gives the property.                                       *)
LEMMA SplitInvIsSound == SplitInv => SplitSound
<1> SUFFICES ASSUME SplitInv
             PROVE  SplitSound
  OBVIOUS
<1>1. /\ TextOK /\ PiecesOK(pieces) /\ Run(group) /\ size \in Nat /\ hasContext \in BOOLEAN
      /\ heading \in 0..Len(units) /\ header \in 0..Len(units) /\ open \in [1..3 -> 0..Len(units)]
      /\ splitter \in {"done", "failed"} => AllKept(pieces)
  BY DEF SplitInv, StateOK
<1>2. units \in Seq(UnitShape) /\ Len(units) \in Nat /\ DOMAIN units = 1..Len(units)
  BY <1>1, UnitLengths DEF TextOK
<1>3. /\ Len(pieces) \in Nat /\ DOMAIN pieces = 1..Len(pieces)
      /\ \A k \in 1..Len(pieces) : PieceOK(pieces[k])
      /\ \A k \in 2..Len(pieces) : Follows(pieces[k - 1], pieces[k])
  BY <1>1, PiecesAre DEF PiecesOK
<1>4. SplitTypeOK
  <2>1. Members(group) \subseteq DOMAIN units
    BY <1>1, <1>2, RunEnds
  <2>2. {heading, header} \cup {open[l] : l \in DOMAIN open} \subseteq DOMAIN units \cup {0}
    <3>1. \A l \in DOMAIN open : open[l] \in 0..Len(units)
      BY <1>1
    <3>2. \A n \in 0..Len(units) : n \in 1..Len(units) \cup {0}
      BY <1>2
    <3> QED
      BY <1>1, <1>2, <3>1, <3>2
  <2>3. \A k \in DOMAIN pieces : pieces[k].from < pieces[k].to /\ pieces[k].to <= TextEnd
    BY <1>3 DEF PieceOK
  <2> QED
    BY <1>1, <2>1, <2>2, <2>3 DEF SplitTypeOK
<1>5. NothingLost
  <2> SUFFICES ASSUME splitter \in {"done", "failed"}
               PROVE  /\ \A p \in 0..Len(chars) - 1 : chars[p + 1] =>
                            \E k \in DOMAIN pieces : pieces[k].from <= p /\ p < pieces[k].to
                      /\ \A i \in DOMAIN units :
                            \/ units[i].kind = "blank"
                            \/ Covered(i)
                            \/ Chosen(request) \in {"rows", "sections"} /\ ContextOnly(i)
                            \/ Chosen(request) = "numbered" /\ IsHeading(i)
    BY DEF NothingLost
  <2>1. AllKept(pieces)
    BY <1>1
  <2>2. ASSUME NEW p \in 0..Len(chars) - 1, chars[p + 1]
        PROVE  \E k \in DOMAIN pieces : pieces[k].from <= p /\ p < pieces[k].to
    BY <1>3, <2>1, <2>2 DEF AllKept, LetterKept
  <2>3. ASSUME NEW i \in DOMAIN units
        PROVE  \/ units[i].kind = "blank"
               \/ Covered(i)
               \/ Chosen(request) \in {"rows", "sections"} /\ ContextOnly(i)
               \/ Chosen(request) = "numbered" /\ IsHeading(i)
    <3>1. Exempt(i) \/ Keeps(pieces, i)
      BY <1>2, <2>1 DEF AllKept
    <3>2. CASE Exempt(i)
      BY <3>2 DEF Exempt
    <3>3. CASE ~Exempt(i)
      <4>1. units[i].kind # "blank" /\ i \in 1..Len(units)
        BY <1>2, <3>3 DEF Exempt
      <4>2. Covered(i)
        BY <1>1, <3>1, <3>3, <4>1, KeptIsCovered
      <4> QED
        BY <4>2
    <3> QED
      BY <3>2, <3>3
  <2> QED
    BY <2>2, <2>3
<1>6. ChunksAdvance
  BY <1>3 DEF ChunksAdvance, Follows
<1>7. OversizeExplained
  BY <1>3 DEF OversizeExplained, PieceOK, Explained
<1>8. ParentsEnclose
  BY <1>3 DEF ParentsEnclose, PieceOK, Enclosed, EnclosedBy
<1> QED
  BY <1>4, <1>5, <1>6, <1>7, <1>8 DEF SplitSound

(* A text as it is given. *)
LEMMA InitTextOK == SplitInit => TextOK
<1> SUFFICES ASSUME SplitInit
             PROVE  TextOK
  OBVIOUS
<1>1. /\ Lengths \subseteq Nat \ {0} /\ HeadingLengths \subseteq Nat \ {0}
      /\ TokenBudgets \subseteq Nat \ {0}
      /\ Limit \in Nat \ {0} /\ CarryOver \in Nat /\ MaxUnits \in Nat /\ MaxChars \in Nat
  BY ChunkingAssumption
<1>2. request \in Requests
  BY DEF SplitInit
<1>3. CASE /\ units = <<>>
           /\ chars \in UNION {[1 .. n -> BOOLEAN] : n \in 0 .. MaxChars}
           /\ budget \in TokenBudgets /\ limit = CharCap(budget)
           /\ overlap \in 0 .. CharCap(budget) + 1
           /\ request = [strategy |-> "none", pack |-> FALSE, hint |-> "none", setting |-> "tokens"]
  <2>1. budget \in Nat \ {0}
    BY <1>1, <1>3
  <2>2. CharCap(budget) \in Nat \ {0}
    <3>1. 4 * budget \in Nat /\ (20 * budget) \div 13 \in Nat
      BY <2>1
    <3>2. Smaller(4 * budget, (20 * budget) \div 13) \in Nat
      BY <3>1, LesserOf DEF Smaller
    <3>3. 1 \in Int /\ \A n \in Nat : Larger(1, n) = IF 1 >= n THEN 1 ELSE n
      BY GreaterOf DEF Larger
    <3> QED
      BY <3>2, <3>3 DEF CharCap
  <2>3. chars \in Seq(BOOLEAN)
    <3>1. PICK n \in 0..MaxChars : chars \in [1..n -> BOOLEAN]
      BY <1>3
    <3> QED
      BY <1>1, <3>1
  <2>4. units \in Seq(UnitShape)
    BY <1>3
  <2>5. Chosen(request) = "tokens"
    BY <1>3 DEF Chosen
  <2>6. overlap \in Nat
    BY <1>3, <2>2
  <2> QED
    BY <1>2, <1>3, <2>1, <2>2, <2>3, <2>4, <2>5, <2>6 DEF TextOK
<1>4. CASE /\ chars = <<>>
           /\ units \in UNION {[1 .. n -> Units(IF request.pack THEN Headings ELSE {"heading"})] :
                              n \in 1 .. MaxUnits}
           /\ limit = Limit /\ overlap = CarryOver /\ Chosen(request) # "tokens"
  <2> DEFINE headings == IF request.pack THEN Headings ELSE {"heading"}
  <2>1. Units(headings) \subseteq UnitShape
    <3>1. headings \subseteq Headings /\ "blank" \notin headings
      BY DEF Headings
    <3> HIDE DEF headings
    <3>2. [kind : {"text"}, len : Lengths] \subseteq UnitShape
      BY <1>1 DEF UnitShape
    <3>3. [kind : headings, len : HeadingLengths] \subseteq UnitShape
      BY <1>1, <3>1 DEF UnitShape
    <3>4. [kind |-> "blank", len |-> 0] \in UnitShape
      BY DEF UnitShape
    <3> QED
      BY <3>2, <3>3, <3>4 DEF Units
  <2>2. PICK n \in 1..MaxUnits : units \in [1..n -> Units(headings)]
    BY <1>4
  <2> HIDE DEF headings
  <2>3. units \in Seq(UnitShape)
    <3>1. units \in [1..n -> UnitShape] /\ n \in Nat
      BY <1>1, <2>1, <2>2
    <3> QED
      BY <3>1
  <2>4. chars \in Seq(BOOLEAN) /\ ~BySize
    BY <1>4 DEF BySize
  <2> QED
    BY <1>1, <1>2, <1>4, <2>3, <2>4 DEF TextOK
<1> QED
  BY <1>3, <1>4 DEF SplitInit

(* Before the first chunk there is nothing that could be wrong. *)
LEMMA NoPieces == PiecesOK(<<>>)
BY DEF PiecesOK

(* Before the first unit there is nothing in the open chunk. *)
LEMMA NoRun == ASSUME units \in Seq(UnitShape) PROVE Run(<<>>)
BY DEF Run

(* Every text and every request may be the first. *)
LEMMA InitSplitInv == SplitInit => SplitInv
<1> SUFFICES ASSUME SplitInit
             PROVE  SplitInv
  OBVIOUS
<1>1. TextOK
  BY InitTextOK
<1>2. /\ splitter = "none" /\ at = 0 /\ group = <<>> /\ size = 0 /\ hasContext = FALSE
      /\ heading = 0 /\ header = 0 /\ open = [l \in 1 .. 3 |-> 0] /\ pieces = <<>>
  BY DEF SplitInit
<1>3. Len(units) \in Nat /\ units \in Seq(UnitShape)
  BY <1>1, UnitLengths DEF TextOK
<1>4. Run(group) /\ PiecesOK(pieces)
  BY <1>2, <1>3, NoPieces, NoRun
<1>5. 0 \in 0..Len(units)
  BY <1>3
<1>6. open \in [1..3 -> 0..Len(units)]
  BY <1>2, <1>5
<1> QED
  BY <1>1, <1>2, <1>4, <1>5, <1>6 DEF SplitInv, StateOK

(* A step leaves the text as it is.                                        *)
LEMMA TextStays ==
    ASSUME TextOK, UNCHANGED textVars,
           StateOK(splitter', at', group', size', hasContext', heading', header', open', pieces')
    PROVE  SplitInv'
<1>1. /\ request' = request /\ chars' = chars /\ units' = units
      /\ limit' = limit /\ overlap' = overlap /\ budget' = budget
  BY DEF textVars
<1>2. TextOK'
  BY <1>1 DEF TextOK, BySize, Chosen, HasMarkers, OpensWithHeader, IsHeading
<1>3. /\ \A S : SumLengths(S)' = SumLengths(S)
      /\ Separator' = Separator /\ (BySize' <=> BySize)
      /\ \A i : (IsHeading(i)' <=> IsHeading(i)) /\ Level(i)' = Level(i)
      /\ \A n : BoundedContext(n)' = BoundedContext(n)
  <2>1. \A S : SumLengths(S)' = SumLengths(S)
    BY <1>1 DEF SumLengths
  <2>2. \A n : BoundedContext(n)' = BoundedContext(n)
    BY <1>1 DEF BoundedContext
  <2> QED
    BY <1>1, <2>1, <2>2 DEF Separator, BySize, IsHeading, Level
<1>4. /\ \A i : UnitStart(i)' = UnitStart(i) /\ UnitEnd(i)' = UnitEnd(i)
      /\ \A g : JoinedLength(g)' = JoinedLength(g)
      /\ TextEnd' = TextEnd /\ PieceShape' = PieceShape
  BY <1>1, <1>3 DEF UnitStart, UnitEnd, JoinedLength, TextEnd, PieceShape
<1>5. \A r : Chosen(r)' = Chosen(r)
  <2>1. (HasMarkers' <=> HasMarkers) /\ (OpensWithHeader' <=> OpensWithHeader)
    BY <1>1, <1>3 DEF HasMarkers, OpensWithHeader
  <2> QED
    BY <2>1 DEF Chosen
<1>6. \A i : HeaderRow(i)' <=> HeaderRow(i)
  BY <1>1, <1>3, <1>5 DEF HeaderRow
<1>7. \A i : ContextOnly(i)' <=> ContextOnly(i)
  BY <1>1, <1>3, <1>6 DEF ContextOnly
<1>8. \A i : Exempt(i)' <=> Exempt(i)
  BY <1>1, <1>3, <1>5, <1>7 DEF Exempt
<1>9. \A ps, i : Keeps(ps, i)' <=> Keeps(ps, i)
  BY <1>1, <1>4, <1>5 DEF Keeps
<1>10. \A p : PieceOK(p)' <=> PieceOK(p)
  <2>1. \A p : Explained(p)' <=> Explained(p)
    BY <1>1, <1>3, <1>5 DEF Explained
  <2>2. \A i, j : EnclosedBy(j, i)' <=> EnclosedBy(j, i)
    BY <1>3 DEF EnclosedBy
  <2>3. \A p : Enclosed(p)' <=> Enclosed(p)
    BY <1>1, <1>3, <1>5, <2>2 DEF Enclosed
  <2> QED
    BY <1>1, <1>4, <1>5, <2>1, <2>3 DEF PieceOK
<1>11. \A ps : PiecesOK(ps)' <=> PiecesOK(ps)
  BY <1>4, <1>10 DEF PiecesOK
<1>12. \A g : Run(g)' <=> Run(g)
  BY <1>1 DEF Run
<1>13. \A a, ps : SizeInv(a, ps)' <=> SizeInv(a, ps)
  BY <1>1, <1>3 DEF SizeInv, LastBefore
<1>14. \A a, g, ps : SentenceInv(a, g, ps)' <=> SentenceInv(a, g, ps)
  <2>1. \A g : ProseFits(g)' <=> ProseFits(g)
    BY <1>1, <1>3 DEF ProseFits
  <2> QED
    BY <1>1, <1>4, <1>5, <1>9, <2>1 DEF SentenceInv
<1>15. \A ps, g, a : Behind(ps, g, a)' <=> Behind(ps, g, a)
  BY <1>1, <1>4 DEF Behind
<1>16. \A a, g, sz, hc, hd, hr, ps :
          RowInv(a, g, sz, hc, hd, hr, ps)' <=> RowInv(a, g, sz, hc, hd, hr, ps)
  <2>1. \A hd, hr : ContextOf(hd, hr)' = ContextOf(hd, hr)
    BY <1>1, <1>3 DEF ContextOf
  <2>2. \A hc, hd, hr : ContextIn(hc, hd, hr)' = ContextIn(hc, hd, hr)
    BY <2>1 DEF ContextIn
  <2>3. \A g, hc, hd, hr : RowsFit(g, hc, hd, hr)' <=> RowsFit(g, hc, hd, hr)
    BY <1>1, <1>3, <1>4, <2>2 DEF RowsFit
  <2>4. \A a, hd, hr : HeadingsInv(a, hd, hr)' <=> HeadingsInv(a, hd, hr)
    BY <1>1, <1>3, <1>5, <1>6 DEF HeadingsInv
  <2> QED
    BY <1>1, <1>4, <1>5, <1>8, <1>9, <1>15, <2>3, <2>4 DEF RowInv
<1>17. \A a, g, op, ps : NumberedInv(a, g, op, ps)' <=> NumberedInv(a, g, op, ps)
  <2>1. \A a, op : OpenInv(a, op)' <=> OpenInv(a, op)
    BY <1>1, <1>3 DEF OpenInv
  <2> QED
    BY <1>1, <1>3, <1>5, <1>8, <1>9, <1>15, <2>1 DEF NumberedInv
<1>18. \A ps : AllKept(ps)' <=> AllKept(ps)
  BY <1>1, <1>8, <1>9 DEF AllKept
<1>19. StateOK(splitter, at, group, size, hasContext, heading, header, open, pieces)'
  BY <1>1, <1>5, <1>11, <1>12, <1>13, <1>14, <1>16, <1>17, <1>18 DEF StateOK
<1> QED
  BY <1>2, <1>19 DEF SplitInv

-----------------------------------------------------------------------------
(* The choice of a splitter, and the splitter by size.                     *)

(* The splitters a request can lead to. *)
LEMMA ChosenIs ==
    request \in Requests =>
        Chosen(request) \in {"sentences", "paragraphs", "prose", "rows", "sections", "numbered", "tokens"}
BY DEF Requests, Chosen

(* The parts of the invariant that hold in every state. *)
LEMMA StateIs ==
    ASSUME SplitInv
    PROVE  /\ TextOK /\ units \in Seq(UnitShape) /\ Len(units) \in Nat
           /\ StateOK(splitter, at, group, size, hasContext, heading, header, open, pieces)
           /\ at \in Nat /\ Run(group) /\ size \in Nat /\ hasContext \in BOOLEAN
           /\ heading \in 0..Len(units) /\ header \in 0..Len(units)
           /\ open \in [1..3 -> 0..Len(units)] /\ PiecesOK(pieces)
           /\ splitter \in {"none", "done", "failed", Chosen(request)}
           /\ limit \in Nat \ {0} /\ overlap \in Nat
BY UnitLengths DEF SplitInv, TextOK, StateOK

(* The chosen splitter starts at the beginning of the text with nothing done. *)
LEMMA DispatchKeeps == SplitInv /\ Dispatch => SplitInv'
<1> SUFFICES ASSUME SplitInv, Dispatch
             PROVE  SplitInv'
  OBVIOUS
<1>1. TextOK /\ units \in Seq(UnitShape) /\ Len(units) \in Nat /\ at \in Nat /\ request \in Requests
  BY StateIs DEF TextOK
<1>2. /\ group = <<>> /\ heading = 0 /\ header = 0 /\ open = [l \in 1..3 |-> 0] /\ pieces = <<>>
      /\ size \in Nat /\ hasContext \in BOOLEAN
  BY DEF SplitInv, StateOK, Dispatch
<1>3. /\ UNCHANGED textVars
      /\ UNCHANGED <<group, size, hasContext, heading, header, open, pieces>>
      /\ splitter' = IF chars = <<>> /\ units = <<>> THEN "done" ELSE Chosen(request)
      /\ at' = IF BySize THEN 0 ELSE 1
  BY DEF Dispatch
<1>4. Chosen(request) \notin {"none", "done", "failed"}
  BY <1>1, ChosenIs
<1>5. Run(<<>>) /\ PiecesOK(<<>>) /\ Members(<<>>) = {}
  BY <1>1, NoRun, NoPieces, RunEnds
<1>6. open \in [1..3 -> 0..Len(units)] /\ 0 \in 0..Len(units)
  BY <1>1, <1>2
<1>7. CASE chars = <<>> /\ units = <<>>
  <2>1. AllKept(<<>>)
    BY <1>7 DEF AllKept
  <2>2. StateOK(splitter', at', group', size', hasContext', heading', header', open', pieces')
    BY <1>2, <1>3, <1>5, <1>6, <1>7, <2>1 DEF StateOK
  <2> QED
    BY <1>1, <1>3, <2>2, TextStays
<1>8. CASE chars # <<>>
  <2>1. Chosen(request) = "tokens" /\ BySize /\ splitter' = "tokens" /\ at' = 0
    BY <1>1, <1>3, <1>8 DEF TextOK, BySize
  <2>2. SizeInv(0, <<>>)
    <3>1. Len(chars) \in Nat
      BY <1>1 DEF TextOK
    <3> QED
      BY <2>1, <3>1 DEF SizeInv
  <2>3. StateOK(splitter', at', group', size', hasContext', heading', header', open', pieces')
    BY <1>2, <1>3, <1>5, <1>6, <2>1, <2>2 DEF StateOK
  <2> QED
    BY <1>1, <1>3, <2>3, TextStays
<1>9. CASE chars = <<>> /\ units # <<>>
  <2>1. Chosen(request) # "tokens" /\ splitter' = Chosen(request) /\ at' = 1
    BY <1>1, <1>3, <1>9 DEF TextOK, BySize
  <2>2. 1 \in 1..Len(units) + 1
    BY <1>1
  <2>3. Chosen(request) \in {"sentences", "paragraphs", "prose"} => SentenceInv(1, <<>>, <<>>)
    BY <2>2 DEF SentenceInv
  <2>4. Chosen(request) \in {"rows", "sections"} =>
            RowInv(1, <<>>, size, hasContext, 0, 0, <<>>)
    <3>1. HeadingsInv(1, 0, 0)
      BY DEF HeadingsInv
    <3>2. Behind(<<>>, <<>>, 1)
      BY DEF Behind
    <3> QED
      BY <2>2, <3>1, <3>2 DEF RowInv
  <2>5. Chosen(request) = "numbered" => NumberedInv(1, <<>>, open, <<>>)
    <3>1. OpenInv(1, open)
      BY <1>1, <1>2 DEF OpenInv
    <3>2. Behind(<<>>, <<>>, 1)
      BY DEF Behind
    <3> QED
      BY <2>2, <3>1, <3>2 DEF NumberedInv
  <2>6. StateOK(splitter', at', group', size', hasContext', heading', header', open', pieces')
    BY <1>2, <1>3, <1>4, <1>5, <1>6, <2>1, <2>3, <2>4, <2>5 DEF StateOK
  <2> QED
    BY <1>1, <1>3, <2>6, TextStays
<1> QED
  BY <1>7, <1>8, <1>9

(* No two words start next to each other. *)
LEMMA FewWords ==
    ASSUME chars \in Seq(BOOLEAN), NEW a \in Nat, NEW b \in 1..Len(chars), a < b
    PROVE  /\ WordsIn(a..b - 1) \in Nat
           /\ WordsIn(a..b - 1) <= (b - a + 1) \div 2
<1> DEFINE S == a..b - 1
           W == {p \in S : chars[p + 1] /\ (p - 1 \in S => ~chars[p])}
           half == (b - a + 1) \div 2
           f == [p \in W |-> (p - a) \div 2]
<1>1. b \in Nat /\ Len(chars) \in Nat
  OBVIOUS
<1>2. half \in Nat /\ half >= 1
  BY <1>1
<1>3. ASSUME NEW p \in W
      PROVE  (p - a) \div 2 \in 0..half - 1
  <2>1. p \in Nat /\ a <= p /\ p <= b - 1
    BY <1>1
  <2> QED
    BY <1>1, <2>1
<1>4. \A p, q \in W : p < q => q # p + 1
  <2> SUFFICES ASSUME NEW p \in W, NEW q \in W, q = p + 1
               PROVE  FALSE
    OBVIOUS
  <2>1. p \in Nat /\ q \in Nat /\ q - 1 = p /\ p \in S
    BY <1>1
  <2>2. chars[p + 1] /\ ~chars[q]
    BY <2>1
  <2> QED
    BY <2>2
<1>5. \A p, q \in W : (p - a) \div 2 = (q - a) \div 2 => p = q
  <2> SUFFICES ASSUME NEW p \in W, NEW q \in W, (p - a) \div 2 = (q - a) \div 2, p < q
               PROVE  FALSE
    <3>1. \A p \in W : p \in Nat
      BY <1>1
    <3> QED
      BY <3>1
  <2>1. p \in Nat /\ q \in Nat /\ a <= p /\ a <= q
    BY <1>1
  <2>2. q # p + 1
    BY <1>4
  <2> HIDE DEF W
  <2> QED
    BY <2>1, <2>2
<1> HIDE DEF half
<1>6. f \in Injection(W, 0..half - 1)
  <2>1. f \in [W -> 0..half - 1]
    BY <1>3
  <2>2. \A p, q \in W : f[p] = f[q] => p = q
    BY <1>5
  <2> HIDE DEF f, W
  <2> QED
    BY <2>1, <2>2, Zenon DEF Injection, IsInjective
<1>7. IsFiniteSet(0..half - 1) /\ Cardinality(0..half - 1) = half
  BY <1>2, FS_Interval
<1> HIDE DEF f
<1>8. IsFiniteSet(W) /\ Cardinality(W) <= half
  <2> DEFINE T == 0..half - 1
  <2>1. f \in Injection(W, T) /\ IsFiniteSet(T) /\ Cardinality(T) = half
    BY <1>6, <1>7
  <2> HIDE DEF T, W
  <2>2. IsFiniteSet(W) /\ Cardinality(W) <= Cardinality(T)
    BY <2>1, FS_Injection
  <2> QED
    BY <2>1, <2>2
<1>9. Cardinality(W) \in Nat
  BY <1>8, FS_CardinalityType
<1> QED
  BY <1>8, <1>9 DEF WordsIn, half

(* The greatest of some numbers. *)
LEMMA MaxIs ==
    ASSUME NEW N \in Nat, NEW S \in SUBSET (0..N), S # {}
    PROVE  Max(S) \in S /\ \A y \in S : y <= Max(S)
<1> DEFINE T == {y + 1 : y \in S}
           M == N + 1
<1>1. T \in SUBSET (1..M) /\ T # {} /\ M \in Nat
  <2>1. ASSUME NEW y \in S
        PROVE  y + 1 \in 1..M
    <3>1. y \in 0..N
      OBVIOUS
    <3> QED
      BY <3>1
  <2>2. T \in SUBSET (1..M)
    <3> HIDE DEF M
    <3> QED
      BY <2>1
  <2>3. T # {}
    <3>1. PICK y \in S : TRUE
      OBVIOUS
    <3>2. y + 1 \in T
      OBVIOUS
    <3> QED
      BY <3>2
  <2>4. M \in Nat
    OBVIOUS
  <2> HIDE DEF T, M
  <2> QED
    BY <2>2, <2>3, <2>4
<1>2. PICK t \in T : \A y \in T : y <= t
  <2> HIDE DEF T, M
  <2> QED
    BY <1>1, GreatestOf
<1>3. PICK x \in S : t = x + 1
  BY <1>2
<1>4. \A y \in S : x >= y
  <2>1. \A y \in S : y + 1 \in T /\ y \in Nat
    OBVIOUS
  <2> HIDE DEF T
  <2> QED
    BY <1>2, <1>3, <2>1
<1>5. Max(S) \in S /\ \A y \in S : Max(S) >= y
  BY <1>4 DEF Max
<1>6. \A y \in S : y \in Nat
  OBVIOUS
<1> QED
  BY <1>5, <1>6

(* The least of some numbers. *)
LEMMA MinIs ==
    ASSUME NEW S \in SUBSET Nat, S # {}
    PROVE  Min(S) \in S /\ \A y \in S : Min(S) <= y
<1>1. \E x \in S : \A y \in S : x <= y
  BY LeastOf
<1> QED
  BY <1>1 DEF Min

(* What fits the limit of a budget is estimated at one token over it at    *)
(* most: a word is at least a letter and what stands behind it.            *)
LEMMA EstimateBounded ==
    ASSUME NEW b \in Nat \ {0}, NEW words \in Nat, NEW length \in Nat,
           length <= CharCap(b), words <= (CharCap(b) + 1) \div 2
    PROVE  EstimateTokens(words, length) <= b + 1
<1> DEFINE c == (20 * b) \div 13
<1>1. c \in Nat /\ c >= 1 /\ c <= 4 * b /\ 13 * c <= 20 * b
  OBVIOUS
<1>2. CharCap(b) = c
  <2>1. Smaller(4 * b, c) = c
    BY <1>1, LesserOf DEF Smaller
  <2>2. Larger(1, c) = c
    BY <1>1, GreaterOf DEF Larger
  <2> QED
    BY <2>1, <2>2 DEF CharCap
<1> HIDE DEF c
<1>3. CeilDiv(length, 4) \in Nat /\ CeilDiv(length, 4) <= b + 1
  BY <1>1, <1>2 DEF CeilDiv
<1>4. CeilDiv(13 * words, 10) \in Nat /\ CeilDiv(13 * words, 10) <= b + 1
  BY <1>1, <1>2 DEF CeilDiv
<1> QED
  BY <1>3, <1>4, GreaterOf DEF EstimateTokens, Larger

(* Where the splitter by size cuts: at a space, or at the limit if there is  *)
(* none, or at the end of the text.                                        *)
SizeEnd == Smaller(at + limit, Len(chars))
SizeCut ==
    LET spaces == {p \in at + 1 .. SizeEnd - 1 : ~chars[p + 1]}
    IN IF SizeEnd < Len(chars) /\ spaces # {} THEN Max(spaces) ELSE SizeEnd

CutIs(cut, end) ==
    /\ cut \in Nat /\ end \in Nat /\ at < cut /\ cut <= end /\ end <= Len(chars) /\ end <= at + limit
    /\ end = Len(chars) \/ end = at + limit
    /\ cut = end \/ ~chars[cut + 1]
    /\ end < Len(chars) => \A p \in at + 1..end - 1 : ~chars[p + 1] => p <= cut /\ cut < end
    /\ end = Len(chars) => cut = Len(chars)

(* The place of the cut, after the start and within the limit. *)
LEMMA SizeCutIs ==
    ASSUME TextOK, at \in Nat, at < Len(chars)
    PROVE  CutIs(SizeCut, SizeEnd)
<1> DEFINE end == SizeEnd
           spaces == {p \in at + 1 .. end - 1 : ~chars[p + 1]}
           cut == SizeCut
<1>1. Len(chars) \in Nat /\ limit \in Nat \ {0}
  BY DEF TextOK
<1>2. end = IF at + limit <= Len(chars) THEN at + limit ELSE Len(chars)
  <2>1. at + limit \in Nat
    BY <1>1
  <2> QED
    BY <1>1, <2>1, LesserOf DEF SizeEnd, Smaller
<1>3. cut = IF end < Len(chars) /\ spaces # {} THEN Max(spaces) ELSE end
  BY DEF SizeCut
<1> HIDE DEF end, cut
<1>4. end \in Nat /\ at < end /\ end <= Len(chars) /\ end <= at + limit
  BY <1>1, <1>2
<1>5. CASE end < Len(chars) /\ spaces # {}
  <2>1. spaces \in SUBSET (0..end)
    BY <1>4
  <2>2. cut \in spaces /\ \A p \in spaces : p <= cut
    <3> HIDE DEF spaces
    <3> QED
      BY <1>3, <1>4, <1>5, <2>1, MaxIs
  <2>3. cut \in at + 1..end - 1 /\ ~chars[cut + 1]
    BY <2>2
  <2>4. \A p \in at + 1..end - 1 : ~chars[p + 1] => p <= cut
    BY <2>2
  <2>5. cut \in Nat /\ at < cut /\ cut < end
    BY <1>4, <2>3
  <2> HIDE DEF spaces
  <2> QED
    BY <1>1, <1>2, <1>4, <1>5, <2>3, <2>4, <2>5 DEF CutIs, end, cut
<1>6. CASE ~(end < Len(chars) /\ spaces # {})
  <2>1. cut = end
    BY <1>3, <1>6
  <2>2. end < Len(chars) => \A p \in at + 1..end - 1 : chars[p + 1]
    BY <1>6
  <2> HIDE DEF spaces
  <2> QED
    BY <1>1, <1>2, <1>4, <2>1, <2>2 DEF CutIs, end, cut
<1> QED
  BY <1>5, <1>6

(* The next chunk goes beyond the last, whatever the overlap.              *)
LEMMA CutGoesOn ==
    ASSUME TextOK, at \in Nat, at < Len(chars), NEW cut, NEW end, CutIs(cut, end),
           NEW last, last.from \in Nat, last.to \in Nat, last.to <= Len(chars), LastBefore(last, at)
    PROVE  last.to <= cut
<1>1. /\ cut \in Nat /\ end \in Nat /\ at < cut /\ cut <= end /\ end <= Len(chars)
      /\ end = Len(chars) \/ end = at + limit
      /\ cut = end \/ ~chars[cut + 1]
      /\ end < Len(chars) => \A p \in at + 1..end - 1 : ~chars[p + 1] => p <= cut
      /\ end = Len(chars) => cut = Len(chars)
      /\ Len(chars) \in Nat /\ limit \in Nat
  BY DEF CutIs, TextOK
<1> SUFFICES ASSUME cut < last.to
             PROVE  FALSE
  BY <1>1
<1>2. /\ last.to < at + limit
      /\ \/ last.to = Len(chars)
         \/ ~chars[last.to + 1]
         \/ \A p \in at + 1..last.to - 1 : chars[p + 1]
  BY <1>1 DEF LastBefore
<1>3. end < Len(chars) /\ end = at + limit
  BY <1>1
<1>4. cut < end /\ last.to < end /\ last.to \in at + 1..end - 1
  BY <1>1, <1>2, <1>3
<1>5. ~chars[cut + 1] /\ cut \in at + 1..last.to - 1
  BY <1>1, <1>4
<1>6. last.to # Len(chars)
  BY <1>1, <1>3, <1>4
<1>7. ~chars[last.to + 1] => last.to <= cut
  BY <1>1, <1>3, <1>4
<1> QED
  BY <1>1, <1>2, <1>5, <1>6, <1>7

(* The next chunk starts within this one, behind its start, and will end no earlier. *)
LEMMA NextStartIs ==
    ASSUME TextOK, at \in Nat, at < Len(chars), NEW cut, NEW end, CutIs(cut, end)
    PROVE  /\ NextStart(cut) \in Nat /\ at < NextStart(cut) /\ NextStart(cut) <= cut
           /\ NextStart(cut) <= Len(chars)
           /\ \A last : last.from = at /\ last.to = cut => LastBefore(last, NextStart(cut))
           /\ \A last : last.to \in Nat /\ last.from \in Nat /\ LastBefore(last, at) =>
                  LastBefore(last, NextStart(cut))
<1> DEFINE next == NextStart(cut)
<1>1. /\ cut \in Nat /\ end \in Nat /\ at < cut /\ cut <= end /\ end <= Len(chars)
      /\ end <= at + limit
      /\ cut = end \/ ~chars[cut + 1]
      /\ end < Len(chars) => \A p \in at + 1..end - 1 : ~chars[p + 1] => p <= cut /\ cut < end
      /\ Len(chars) \in Nat /\ limit \in Nat /\ overlap \in Nat
  BY DEF CutIs, TextOK
<1>2. next = IF cut > at + overlap THEN cut - overlap ELSE cut
  BY DEF NextStart
<1> HIDE DEF next
<1>3. next \in Nat /\ at < next /\ next <= cut
  BY <1>1, <1>2
<1>4. ASSUME NEW last, last.from = at, last.to = cut
      PROVE  LastBefore(last, next)
  <2>1. cut < next + limit
    BY <1>1, <1>3
  <2>2. ASSUME cut # Len(chars), chars[cut + 1], NEW p \in next + 1..cut - 1
        PROVE  chars[p + 1]
    <3>1. cut = end /\ end < Len(chars)
      BY <1>1, <2>2
    <3>2. p \in at + 1..end - 1
      BY <1>1, <1>3, <3>1
    <3> QED
      BY <1>1, <3>1, <3>2
  <2> QED
    BY <1>3, <1>4, <2>1, <2>2 DEF LastBefore
<1>5. ASSUME NEW last, last.to \in Nat, last.from \in Nat, LastBefore(last, at)
      PROVE  LastBefore(last, next)
  <2>1. last.from < next
    BY <1>3, <1>5 DEF LastBefore
  <2>2. CASE last.to <= at
    BY <1>3, <1>5, <2>1, <2>2 DEF LastBefore
  <2>3. CASE ~(last.to <= at)
    <3>1. last.to < next + limit
      BY <1>1, <1>3, <1>5, <2>3 DEF LastBefore
    <3>2. \A p \in next + 1..last.to - 1 : p \in at + 1..last.to - 1
      BY <1>3, <1>5
    <3> QED
      BY <1>5, <2>1, <2>3, <3>1, <3>2 DEF LastBefore
  <2> QED
    BY <2>2, <2>3
<1> QED
  BY <1>1, <1>3, <1>4, <1>5 DEF next

SizeLetters == {p \in at .. SizeCut - 1 : chars[p + 1]}
SizePiece ==
    [Piece(at, SizeCut, Max(SizeLetters) - Min(SizeLetters) + 1, {})
        EXCEPT !.words = WordsIn(at .. SizeCut - 1)]

(* A chunk that was cut by size is within its budget. *)
LEMMA SizePieceOK ==
    ASSUME TextOK, BySize, at \in Nat, at < Len(chars), SizeLetters # {}
    PROVE  PieceOK(SizePiece) /\ SizePiece.from = at /\ SizePiece.to = SizeCut
<1> DEFINE cut == SizeCut
           L == SizeLetters
           length == Max(L) - Min(L) + 1
           p == SizePiece
<1>1. /\ units = <<>> /\ Chosen(request) = "tokens" /\ chars \in Seq(BOOLEAN)
      /\ budget \in Nat \ {0} /\ limit = CharCap(budget) /\ limit \in Nat /\ Len(chars) \in Nat
  BY DEF TextOK
<1>2. cut \in Nat /\ at < cut /\ cut <= Len(chars) /\ cut <= at + limit
  <2>1. CutIs(SizeCut, SizeEnd)
    BY SizeCutIs
  <2> QED
    BY <1>1, <2>1 DEF CutIs
<1>3. WordsIn(at..cut - 1) \in Nat /\ WordsIn(at..cut - 1) <= (cut - at + 1) \div 2
  <2>1. cut \in 1..Len(chars)
    BY <1>1, <1>2
  <2> HIDE DEF cut
  <2> QED
    BY <1>1, <1>2, <2>1, FewWords
<1>4. p = [from |-> at, to |-> cut, length |-> length, members |-> {},
           words |-> WordsIn(at..cut - 1), parents |-> {}]
  <2> DEFINE w == WordsIn(at..cut - 1)
  <2>1. p = [Piece(at, cut, length, {}) EXCEPT !.words = w]
    BY DEF SizePiece
  <2> HIDE DEF p, length, cut, w
  <2>2. p = [from |-> at, to |-> cut, length |-> length, members |-> {},
             words |-> w, parents |-> {}]
    BY <2>1 DEF Piece
  <2> QED
    BY <2>2 DEF w
<1> HIDE DEF cut, p
<1>5. L \in SUBSET (at..cut - 1)
  BY DEF SizeLetters, cut
<1> HIDE DEF L
<1>6. length \in Nat /\ length <= cut - at
  <2>1. L \in SUBSET (0..cut) /\ L \in SUBSET Nat
    BY <1>2, <1>5
  <2>2. L # {}
    BY DEF L
  <2>3. Max(L) \in L /\ \A y \in L : y <= Max(L)
    BY <1>2, <2>1, <2>2, MaxIs
  <2>4. Min(L) \in L
    BY <2>1, <2>2, MinIs
  <2>5. Min(L) <= Max(L) /\ Max(L) \in at..cut - 1 /\ Min(L) \in at..cut - 1
    BY <1>5, <2>3, <2>4
  <2> QED
    BY <1>2, <2>5
<1> HIDE DEF length
<1>7. p \in PieceShape
  BY <1>2, <1>3, <1>4, <1>6 DEF PieceShape
<1>8. p.from < p.to /\ p.to <= TextEnd
  BY <1>2, <1>4 DEF TextEnd
<1>9. Explained(p)
  <2>1. p.length <= limit
    BY <1>1, <1>2, <1>4, <1>6
  <2>2. p.words <= (CharCap(budget) + 1) \div 2
    <3>1. cut - at <= limit /\ cut - at \in Nat
      BY <1>1, <1>2
    <3> QED
      BY <1>1, <1>3, <1>4, <3>1
  <2>3. EstimateTokens(p.words, p.length) <= budget + 1
    <3>1. p.words \in Nat /\ p.length \in Nat
      BY <1>3, <1>4, <1>6
    <3> QED
      BY <1>1, <2>1, <2>2, <3>1, EstimateBounded
  <2> QED
    BY <1>1, <2>1, <2>3 DEF Explained
<1>10. Enclosed(p)
  BY <1>1 DEF Enclosed
<1>11. p.members = {}
  BY <1>4
<1>12. PieceOK(p)
  BY <1>7, <1>8, <1>9, <1>10, <1>11 DEF PieceOK
<1> QED
  BY <1>4, <1>12 DEF p, cut

(* A cut by size leaves no letter behind. *)
LEMMA SplitBySizeKeeps == SplitInv /\ SplitBySize => SplitInv'
<1> SUFFICES ASSUME SplitInv, SplitBySize
             PROVE  SplitInv'
  OBVIOUS
<1> DEFINE cut == SizeCut
           next == NextStart(cut)
<1>1. /\ splitter = "tokens" /\ at < Len(chars)
      /\ pieces' = IF SizeLetters = {} THEN pieces ELSE Append(pieces, SizePiece)
      /\ at' = next
      /\ UNCHANGED textVars
      /\ UNCHANGED <<splitter, group, size, hasContext, heading, header, open>>
  BY DEF SplitBySize, SizeLetters, SizePiece, SizeCut, SizeEnd
<1>2. /\ TextOK /\ at \in Nat /\ PiecesOK(pieces) /\ SizeInv(at, pieces)
      /\ Chosen(request) = "tokens" /\ chars \in Seq(BOOLEAN) /\ Len(chars) \in Nat
  <2>1. SizeInv(at, pieces)
    BY <1>1, StateIs DEF StateOK
  <2> QED
    BY <1>1, <2>1, StateIs DEF TextOK
<1>3. /\ BySize /\ at <= Len(chars)
      /\ \A p \in 0..at - 1 : chars[p + 1] => LetterKept(pieces, p)
      /\ pieces # <<>> => LastBefore(pieces[Len(pieces)], at)
  BY <1>2 DEF SizeInv
<1>4. CutIs(cut, SizeEnd)
  BY <1>1, <1>2, SizeCutIs
<1>5. cut \in Nat /\ at < cut /\ cut <= Len(chars)
  BY <1>2, <1>4 DEF CutIs
<1>6. /\ Len(pieces) \in Nat /\ (pieces = <<>> <=> Len(pieces) = 0)
      /\ pieces # <<>> => /\ pieces[Len(pieces)].from \in Nat /\ pieces[Len(pieces)].to \in Nat
                          /\ pieces[Len(pieces)].to <= Len(chars)
  <2>1. TextEnd = Len(chars)
    BY <1>3 DEF TextEnd
  <2>2. \A p : PieceOK(p) => p.to <= TextEnd
    BY DEF PieceOK
  <2> QED
    BY <1>2, <2>1, <2>2, PiecesAre
<1> HIDE DEF cut
<1>7. /\ next \in Nat /\ at < next /\ next <= cut /\ next <= Len(chars)
      /\ \A last : last.from = at /\ last.to = cut => LastBefore(last, next)
      /\ \A last : last.to \in Nat /\ last.from \in Nat /\ LastBefore(last, at) =>
            LastBefore(last, next)
  BY <1>1, <1>2, <1>4, NextStartIs
<1> HIDE DEF next
<1>8. PiecesOK(pieces') /\ SizeInv(next, pieces')
  <2>1. CASE SizeLetters = {}
    <3>1. pieces' = pieces
      BY <1>1, <2>1
    <3>2. \A p \in 0..next - 1 : chars[p + 1] => p \in 0..at - 1
      <4>1. ASSUME NEW p \in 0..next - 1, chars[p + 1], ~(p < at)
            PROVE  FALSE
        <5>1. p \in at..cut - 1
          BY <1>2, <1>5, <1>7, <4>1
        <5>2. p \in SizeLetters
          BY <4>1, <5>1 DEF SizeLetters, cut
        <5> QED
          BY <2>1, <5>2
      <4>2. \A p \in 0..next - 1 : p \in Nat
        OBVIOUS
      <4> QED
        BY <1>2, <4>1, <4>2
    <3>3. pieces # <<>> => LastBefore(pieces[Len(pieces)], next)
      BY <1>3, <1>6, <1>7
    <3> QED
      BY <1>2, <1>3, <1>7, <3>1, <3>2, <3>3 DEF SizeInv
  <2>2. CASE SizeLetters # {}
    <3> DEFINE p == SizePiece
               rs == Append(pieces, p)
    <3>1. pieces' = rs
      BY <1>1, <2>2
    <3>2. PieceOK(p) /\ p.from = at /\ p.to = cut
      BY <1>1, <1>2, <1>3, <2>2, SizePieceOK DEF cut
    <3> HIDE DEF p
    <3>3. ASSUME pieces # <<>>
          PROVE  Follows(pieces[Len(pieces)], p)
      <4>1. pieces[Len(pieces)].from < at
        BY <1>3, <3>3 DEF LastBefore
      <4>2. pieces[Len(pieces)].to <= cut
        BY <1>1, <1>2, <1>3, <1>4, <1>6, <3>3, CutGoesOn
      <4> QED
        BY <1>2, <1>6, <3>2, <3>3, <4>1, <4>2 DEF Follows
    <3>4. /\ PiecesOK(rs) /\ rs # <<>> /\ Len(rs) = Len(pieces) + 1
          /\ \A k \in 1..Len(pieces) : rs[k] = pieces[k]
          /\ rs[Len(rs)] = p
      BY <1>2, <3>2, <3>3, PiecesGrow
    <3> HIDE DEF rs
    <3>5. Len(rs) \in 1..Len(rs)
      BY <1>6, <3>4
    <3>6. GoesOn(pieces, rs) /\ Len(rs) \in Nat
      BY <1>6, <3>4 DEF GoesOn
    <3>7. \A q : LetterKept(pieces, q) => LetterKept(rs, q)
      BY <1>6, <3>6, KeepsMore
    <3>8. ASSUME NEW q \in 0..next - 1, chars[q + 1]
          PROVE  LetterKept(rs, q)
      <4>1. CASE q < at
        <5>1. q \in 0..at - 1
          BY <1>2, <4>1
        <5> QED
          BY <1>3, <3>7, <3>8, <5>1
      <4>2. CASE ~(q < at)
        <5>1. rs[Len(rs)].from <= q /\ q < rs[Len(rs)].to
          BY <1>2, <1>5, <1>7, <3>2, <3>4, <4>2
        <5> QED
          BY <3>5, <5>1 DEF LetterKept
      <4> QED
        BY <4>1, <4>2
    <3>9. LastBefore(rs[Len(rs)], next)
      BY <1>7, <3>2, <3>4
    <3> QED
      BY <1>3, <1>7, <3>1, <3>4, <3>8, <3>9 DEF SizeInv
  <2> QED
    BY <2>1, <2>2
<1>9. StateOK(splitter', at', group', size', hasContext', heading', header', open', pieces')
  BY <1>1, <1>2, <1>7, <1>8, StateIs DEF StateOK
<1> QED
  BY <1>1, <1>2, <1>9, TextStays

-----------------------------------------------------------------------------
(* The splitters by sentence.                                              *)

(* A run without one of its units. *)
LEMMA SumWithout ==
    ASSUME units \in Seq(UnitShape), NEW S, NEW i \in 1..Len(units), i \in S
    PROVE  SumLengths(S) = SumLengths(S \ {i}) + units[i].len
<1> DEFINE R == S \ {i}
<1>1. i \notin R /\ R \cup {i} = S
  OBVIOUS
<1> HIDE DEF R
<1>2. SumLengths(R \cup {i}) = SumLengths(R) + units[i].len
  BY <1>1, SumOfMore
<1> QED
  BY <1>1, <1>2 DEF R

(* The last unit of a run is the greatest of its members. *)
LEMMA LatestIsMax ==
    ASSUME units \in Seq(UnitShape), NEW g, Run(g), g # <<>>
    PROVE  Max(Members(g)) = Latest(g)
<1> DEFINE M == Members(g)
           N == Len(units)
<1>1. /\ M \subseteq 1..N /\ Latest(g) \in M /\ \A i \in M : i <= Latest(g)
  BY RunEnds
<1>2. N \in Nat
  BY UnitLengths
<1> HIDE DEF M, N
<1>3. M \in SUBSET (0..N) /\ M # {}
  BY <1>1, <1>2
<1>4. Max(M) \in M /\ \A y \in M : y <= Max(M)
  BY <1>2, <1>3, MaxIs
<1> DEFINE x == Max(M)
           y == Latest(g)
<1>5. x \in M /\ y \in M /\ x <= y /\ y <= x
  BY <1>1, <1>4
<1> HIDE DEF x, y
<1>6. x \in Nat /\ y \in Nat
  BY <1>3, <1>5
<1>7. x = y
  BY <1>5, <1>6
<1> QED
  BY <1>7 DEF x, y, M

(* The length of the joined units of a run. *)
LEMMA JoinedIs ==
    ASSUME units \in Seq(UnitShape), NEW g, Run(g), g # <<>>
    PROVE  JoinedLength(g) \in Nat
<1>1. Len(g) \in 1..Len(g) /\ Len(g) \in Nat
  BY RunEnds
<1>2. SumLengths(Members(g)) \in Nat
  BY SumsAre
<1>3. (Len(g) - 1) * Separator \in Nat
  <2>1. Len(g) - 1 \in Nat
    BY <1>1
  <2>2. CASE Separator = 1
    BY <2>1, <2>2
  <2>3. CASE Separator = 2
    BY <2>1, <2>3
  <2> QED
    BY <2>2, <2>3, SeparatorIs
<1> QED
  BY <1>2, <1>3 DEF JoinedLength

(* The span of a run with text in it. *)
LEMMA RunSpan ==
    ASSUME TextOK, NEW g, Run(g), g # <<>>
    PROVE  /\ ~BySize
           /\ UnitStart(First(g)) \in Nat /\ UnitEnd(Latest(g)) \in Nat
           /\ UnitStart(First(g)) <= UnitEnd(Latest(g)) /\ UnitEnd(Latest(g)) <= TextEnd
           /\ SumLengths(Members(g)) # 0 => UnitStart(First(g)) < UnitEnd(Latest(g))
           /\ \A i \in Members(g) : /\ i \in 1..Len(units)
                                    /\ UnitStart(First(g)) <= UnitStart(i)
                                    /\ UnitStart(i) <= UnitEnd(i)
                                    /\ UnitEnd(i) <= UnitEnd(Latest(g))
           /\ First(g) \in 1..Len(units) /\ Latest(g) \in 1..Len(units)
<1>1. units \in Seq(UnitShape)
  BY DEF TextOK
<1>2. /\ Members(g) \subseteq 1..Len(units)
      /\ First(g) \in Members(g) /\ Latest(g) \in Members(g) /\ First(g) <= Latest(g)
      /\ \A i \in Members(g) : First(g) <= i /\ i <= Latest(g)
  BY <1>1, RunEnds
<1>3. First(g) \in 1..Len(units) /\ Latest(g) \in 1..Len(units)
  BY <1>2
<1>4. ~BySize
  <2>1. BySize => units = <<>> /\ Len(units) = 0
    BY DEF TextOK
  <2> QED
    BY <1>3, <2>1
<1>5. UnitStart(First(g)) \in Nat /\ UnitEnd(Latest(g)) \in Nat
  BY <1>1, <1>3, UnitPlaces
<1>6. ASSUME NEW i \in Members(g)
      PROVE  /\ UnitStart(First(g)) <= UnitStart(i) /\ UnitStart(i) <= UnitEnd(i)
             /\ UnitEnd(i) <= UnitEnd(Latest(g))
             /\ UnitEnd(i) = UnitStart(i) + units[i].len
             /\ UnitStart(i) \in Nat /\ UnitEnd(i) \in Nat /\ units[i].len \in Nat
             /\ i \in 1..Len(units)
  <2>1. i \in 1..Len(units) /\ First(g) <= i /\ i <= Latest(g)
    BY <1>2
  <2>2. UnitStart(First(g)) <= UnitStart(i)
    BY <1>1, <1>3, <2>1, UnitsOrdered
  <2>3. UnitEnd(i) <= UnitEnd(Latest(g))
    BY <1>1, <1>3, <2>1, UnitsOrdered
  <2>4. /\ UnitStart(i) \in Nat /\ UnitEnd(i) \in Nat /\ units[i].len \in Nat
        /\ UnitEnd(i) = UnitStart(i) + units[i].len
    BY <1>1, <2>1, UnitPlaces
  <2> QED
    BY <2>1, <2>2, <2>3, <2>4
<1>7. UnitStart(First(g)) <= UnitEnd(Latest(g))
  BY <1>1, <1>2, <1>3, UnitsOrdered
<1>8. UnitEnd(Latest(g)) <= TextEnd
  BY <1>1, <1>3, <1>4, UnitsInText
<1>9. ASSUME SumLengths(Members(g)) # 0
      PROVE  UnitStart(First(g)) < UnitEnd(Latest(g))
  <2>1. PICK i \in 1..Len(units) : i \in Members(g) /\ units[i].len > 0
    BY <1>1, <1>9, SumOfText
  <2>2. /\ UnitStart(First(g)) <= UnitStart(i) /\ UnitEnd(i) <= UnitEnd(Latest(g))
        /\ UnitEnd(i) = UnitStart(i) + units[i].len
        /\ UnitStart(i) \in Nat /\ UnitEnd(i) \in Nat /\ units[i].len \in Nat
    BY <1>6, <2>1
  <2> QED
    BY <1>5, <2>1, <2>2
<1> QED
  BY <1>3, <1>4, <1>5, <1>6, <1>7, <1>8, <1>9

Prose == {"sentences", "paragraphs", "prose"}

(* A chunk of sentences is within the limit, or what it carries over is. *)
LEMMA ProsePieceOK ==
    ASSUME TextOK, Chosen(request) \in Prose, NEW g, Run(g), g # <<>>,
           SumLengths(Members(g)) # 0, ProseFits(g)
    PROVE  /\ PieceOK(ProsePiece(g))
           /\ ProsePiece(g).from = UnitStart(First(g)) /\ ProsePiece(g).to = UnitEnd(Latest(g))
           /\ ProsePiece(g).members = Members(g)
<1> DEFINE from == UnitStart(First(g))
           to == UnitEnd(Latest(g))
           prefix == IF HeaderApplies /\ from >= HeaderLength THEN HeaderLength + 2 ELSE 0
           length == prefix + JoinedLength(g)
           p == ProsePiece(g)
<1>1. units \in Seq(UnitShape)
  BY DEF TextOK
<1>2. /\ ~BySize /\ from \in Nat /\ to \in Nat /\ from < to /\ to <= TextEnd
      /\ \A i \in Members(g) : UnitStart(i) <= to
      /\ Latest(g) \in 1..Len(units)
  <2>1. \A i \in Members(g) : /\ UnitStart(i) <= UnitEnd(i) /\ UnitEnd(i) <= to
                              /\ UnitStart(i) \in Nat /\ UnitEnd(i) \in Nat
    BY <1>1, RunSpan, UnitPlaces
  <2> QED
    BY <2>1, RunSpan
<1>3. p = [from |-> from, to |-> to, length |-> length, members |-> Members(g), words |-> 0,
           parents |-> {}]
  BY DEF ProsePiece, Piece, First, Latest
<1> HIDE DEF from, to, p
<1>4. length \in Nat
  <2>1. JoinedLength(g) \in Nat
    BY <1>1, JoinedIs
  <2>2. HeaderLength \in Nat
    BY ChunkingAssumption
  <2> QED
    BY <2>1, <2>2
<1> HIDE DEF length
<1>5. Members(g) \subseteq 1..Len(units) /\ Latest(g) \in Members(g)
  BY <1>1, RunEnds
<1>6. p \in PieceShape
  BY <1>2, <1>3, <1>4, <1>5 DEF PieceShape
<1>7. Explained(p)
  <2>1. Max(p.members) = Latest(g) /\ p.members = Members(g)
    BY <1>1, <1>3, LatestIsMax
  <2>2. SumLengths(Members(g)) = SumLengths(Members(g) \ {Latest(g)}) + units[Latest(g)].len
    BY <1>1, <1>2, <1>5, SumWithout
  <2>3. SumLengths(Members(g) \ {Latest(g)}) \in Nat /\ units[Latest(g)].len \in Nat
    BY <1>1, <1>2, SumsAre, UnitLengths
  <2>4. \/ SumLengths(p.members) <= limit
        \/ SumLengths(p.members) - units[Max(p.members)].len <= overlap
    BY <2>1, <2>2, <2>3 DEF ProseFits
  <2> QED
    BY <1>2, <2>4 DEF Explained, Prose
<1>8. Enclosed(p)
  BY DEF Enclosed, Prose
<1>9. PieceOK(p)
  BY <1>2, <1>3, <1>6, <1>7, <1>8 DEF PieceOK
<1> QED
  BY <1>3, <1>9 DEF from, to, p

(* Closing the open chunk keeps its sentences.                             *)
LEMMA EmitKeeps ==
    ASSUME TextOK, Chosen(request) \in Prose, Run(group), PiecesOK(pieces),
           SentenceInv(at, group, pieces)
    PROVE  /\ PiecesOK(Emit(group)) /\ GoesOn(pieces, Emit(group))
           /\ \A i \in Members(group) : units[i].kind = "blank" \/ Keeps(Emit(group), i)
           /\ Emit(group) # <<>> =>
                 /\ group # <<>>
                 /\ Emit(group)[Len(Emit(group))].from <= UnitStart(First(group))
                 /\ Emit(group)[Len(Emit(group))].to <= UnitEnd(Latest(group))
<1> DEFINE N == Len(pieces)
           rs == Emit(group)
           p == ProsePiece(group)
<1>1. /\ units \in Seq(UnitShape) /\ Members(group) \subseteq 1..Len(units)
      /\ \A i \in 1..Len(units) : units[i] \in UnitShape
  BY RunEnds, UnitLengths DEF TextOK
<1>2. /\ group # <<>> => ProseFits(group)
      /\ pieces # <<>> => /\ group # <<>>
                          /\ pieces[N].from <= UnitStart(First(group))
                          /\ pieces[N].to < UnitEnd(Latest(group))
  BY DEF SentenceInv
<1>3. N \in Nat /\ (pieces # <<>> => pieces[N].to \in Nat /\ pieces[N].from \in Nat)
  BY PiecesAre
<1>4. CASE SumLengths(Members(group)) = 0
  <2>1. rs = pieces
    BY <1>4 DEF Emit
  <2>2. GoesOn(pieces, pieces)
    BY <1>3 DEF GoesOn
  <2>3. ASSUME NEW i \in Members(group)
        PROVE  units[i].kind = "blank"
    <3>1. units[i].len <= 0 /\ units[i].len \in Nat /\ units[i] \in UnitShape
      BY <1>1, <1>4, SumsAre, UnitLengths
    <3> QED
      BY <3>1 DEF UnitShape
  <2>4. pieces # <<>> => UnitEnd(Latest(group)) \in Nat
    BY <1>2, RunSpan
  <2> QED
    BY <1>2, <1>3, <2>1, <2>2, <2>3, <2>4
<1>5. CASE SumLengths(Members(group)) # 0
  <2>1. rs = Append(pieces, p)
    BY <1>5 DEF Emit
  <2>2. group # <<>>
    BY <1>1, <1>5, RunEnds, SumOfNone
  <2>3. /\ PieceOK(p) /\ p.from = UnitStart(First(group)) /\ p.to = UnitEnd(Latest(group))
        /\ p.members = Members(group)
    BY <1>2, <1>5, <2>2, ProsePieceOK
  <2>4. /\ UnitStart(First(group)) \in Nat /\ UnitEnd(Latest(group)) \in Nat
        /\ \A i \in Members(group) : /\ i \in 1..Len(units)
                                     /\ UnitStart(First(group)) <= UnitStart(i)
                                     /\ UnitEnd(i) <= UnitEnd(Latest(group))
    BY <2>2, RunSpan
  <2> HIDE DEF p
  <2>5. pieces # <<>> => Follows(pieces[N], p)
    BY <1>2, <1>3, <2>3, <2>4 DEF Follows
  <2>6. /\ PiecesOK(rs) /\ rs # <<>> /\ Len(rs) = N + 1
        /\ \A k \in 1..N : rs[k] = pieces[k]
        /\ rs[Len(rs)] = p
    BY <2>1, <2>3, <2>5, PiecesGrow
  <2> HIDE DEF rs
  <2>7. GoesOn(pieces, rs) /\ Len(rs) \in 1..Len(rs)
    BY <1>3, <2>6 DEF GoesOn
  <2>8. ASSUME NEW i \in Members(group)
        PROVE  Keeps(rs, i)
    <3> DEFINE k == Len(rs)
    <3>1. /\ k \in 1..Len(rs) /\ i \in rs[k].members /\ rs[k].from \in Nat /\ rs[k].to \in Nat
          /\ rs[k].from <= UnitStart(i) /\ UnitEnd(i) <= rs[k].to /\ i \in 1..Len(units)
      BY <2>3, <2>4, <2>6, <2>7
    <3> HIDE DEF k
    <3> QED
      BY <1>1, <3>1, KeptWhole
  <2> QED
    BY <2>2, <2>3, <2>4, <2>6, <2>7, <2>8 DEF rs
<1> QED
  BY <1>4, <1>5

(* The header takes its room from the limit and the overlap. *)
LEMMA SentenceRoom ==
    TextOK => /\ SentenceLimit \in Nat /\ SentenceLimit <= limit
              /\ SentenceOverlap \in Nat /\ SentenceOverlap <= overlap
<1> SUFFICES ASSUME TextOK
             PROVE  /\ SentenceLimit \in Nat /\ SentenceLimit <= limit
                    /\ SentenceOverlap \in Nat /\ SentenceOverlap <= overlap
  OBVIOUS
<1>1. limit \in Nat /\ overlap \in Nat /\ HeaderLength \in Nat
  BY ChunkingAssumption DEF TextOK
<1>2. SentenceLimit \in Nat /\ SentenceLimit <= limit
  BY <1>1 DEF SentenceLimit, HeaderApplies
<1>3. SentenceLimit \div 2 \in Nat
  BY <1>2
<1>4. Smaller(overlap, SentenceLimit \div 2) \in Nat /\ Smaller(overlap, SentenceLimit \div 2) <= overlap
  <2> DEFINE h == SentenceLimit \div 2
  <2>1. h \in Nat
    BY <1>3
  <2> HIDE DEF h
  <2>2. Smaller(overlap, h) = IF overlap <= h THEN overlap ELSE h
    BY <1>1, <2>1, LesserOf DEF Smaller
  <2>3. Smaller(overlap, h) \in Nat /\ Smaller(overlap, h) <= overlap
    BY <1>1, <2>1, <2>2
  <2> QED
    BY <2>3 DEF h
<1>5. SentenceOverlap \in {0, overlap, Smaller(overlap, SentenceLimit \div 2)}
  BY DEF SentenceOverlap
<1> QED
  BY <1>1, <1>2, <1>4, <1>5

(* One sentence more keeps those before it. *)
LEMMA AddSentenceKeeps == SplitInv /\ AddSentence => SplitInv'
<1> SUFFICES ASSUME SplitInv, AddSentence
             PROVE  SplitInv'
  OBVIOUS
<1>1. /\ splitter \in Prose /\ at <= Len(units) /\ at' = at + 1
      /\ UNCHANGED textVars
      /\ UNCHANGED <<splitter, size, hasContext, heading, header, open>>
  BY DEF AddSentence, Prose
<1>2. /\ TextOK /\ units \in Seq(UnitShape) /\ Len(units) \in Nat /\ Run(group) /\ PiecesOK(pieces)
      /\ Chosen(request) \in Prose /\ splitter = Chosen(request)
      /\ SentenceInv(at, group, pieces)
  <2>1. splitter = Chosen(request)
    BY <1>1, StateIs DEF Prose
  <2>2. SentenceInv(at, group, pieces)
    BY <1>1, StateIs DEF StateOK, Prose
  <2> QED
    BY <1>1, <2>1, <2>2, StateIs
<1>3. /\ at \in 1..Len(units) + 1
      /\ group # <<>> => Latest(group) < at /\ ProseFits(group)
      /\ \A i \in 1..at - 1 : units[i].kind = "blank" \/ i \in Members(group) \/ Keeps(pieces, i)
      /\ pieces # <<>> => /\ group # <<>>
                          /\ pieces[Len(pieces)].from <= UnitStart(First(group))
                          /\ pieces[Len(pieces)].to < UnitEnd(Latest(group))
  BY <1>2 DEF SentenceInv
<1>4. at \in 1..Len(units) /\ at' \in 1..Len(units) + 1 /\ at' \in Nat /\ at \in Nat
      /\ \A i \in 1..at' - 1 : i \in 1..at - 1 \/ i = at
  BY <1>1, <1>2, <1>3
<1>5. group # <<>> => Latest(group) \in 1..Len(units) /\ First(group) \in 1..Len(units)
  BY <1>2, RunEnds
<1>6. /\ Run(group') /\ PiecesOK(pieces') /\ SentenceInv(at', group', pieces')
  <2>1. CASE splitter = "paragraphs" /\ units[at].kind = "blank"
    <3>1. UNCHANGED <<group, pieces>>
      BY <2>1 DEF AddSentence
    <3>2. group # <<>> => Latest(group) < at'
      BY <1>1, <1>3, <1>4, <1>5
    <3>3. \A i \in 1..at' - 1 : \/ units[i].kind = "blank" \/ i \in Members(group)
                               \/ Keeps(pieces, i)
      BY <1>3, <1>4, <2>1
    <3>4. SentenceInv(at', group, pieces)
      BY <1>2, <1>3, <1>4, <3>2, <3>3 DEF SentenceInv, Prose
    <3> QED
      BY <1>2, <3>1, <3>4
  <2>2. CASE ~(splitter = "paragraphs" /\ units[at].kind = "blank")
    <3> DEFINE acc == [closed |-> <<>>, open |-> group]
               next == Take(acc, at, SentenceLimit, SentenceOverlap)
               new == next.open
    <3>1. /\ group' = next.open
          /\ pieces' = IF next.closed = <<>> THEN pieces ELSE Emit(group)
      BY <2>2 DEF AddSentence
    <3>2. acc.open = group /\ acc.closed = <<>>
      OBVIOUS
    <3> HIDE DEF acc
    <3>3. TakesOne(acc, next, at, SentenceLimit, SentenceOverlap)
      BY <1>2, <1>3, <1>4, <3>2, SentenceRoom, TakeIs
    <3> HIDE DEF next
    <3>4. /\ Run(new) /\ new # <<>> /\ Latest(new) = at /\ at \in Members(new)
          /\ group # <<>> => First(group) <= First(new)
          /\ \/ /\ next.closed = <<>>
                /\ Members(group) \subseteq Members(new) \/ SumLengths(Members(group)) = 0
             \/ /\ next.closed = Append(<<>>, group)
                /\ group # <<>> /\ SumLengths(Members(group)) # 0
          /\ \/ SumLengths(Members(new)) <= SentenceLimit
             \/ SumLengths(Members(new) \ {at}) <= SentenceOverlap
      BY <3>2, <3>3 DEF TakesOne
    <3>5. Latest(new) < at' /\ ProseFits(new)
      <4>1. SumLengths(Members(new)) \in Nat /\ SumLengths(Members(new) \ {at}) \in Nat
        BY <1>2, SumsAre
      <4>2. /\ SentenceLimit \in Nat /\ SentenceLimit <= limit
            /\ SentenceOverlap \in Nat /\ SentenceOverlap <= overlap
            /\ limit \in Nat /\ overlap \in Nat
        BY <1>2, SentenceRoom DEF TextOK
      <4> QED
        BY <1>1, <1>4, <3>4, <4>1, <4>2 DEF ProseFits
    <3>6. First(new) \in 1..Len(units) /\ UnitEnd(at) \in Nat /\ UnitStart(First(new)) \in Nat
      <4>1. First(new) \in 1..Len(units)
        BY <1>2, <3>4, RunEnds
      <4> QED
        BY <1>2, <1>4, <4>1, UnitPlaces
    <3>7. group # <<>> => /\ UnitStart(First(group)) <= UnitStart(First(new))
                          /\ UnitEnd(Latest(group)) < UnitEnd(at)
                          /\ UnitStart(First(group)) \in Nat /\ UnitEnd(Latest(group)) \in Nat
      <4> SUFFICES ASSUME group # <<>>
                   PROVE  /\ UnitStart(First(group)) <= UnitStart(First(new))
                          /\ UnitEnd(Latest(group)) < UnitEnd(at)
                          /\ UnitStart(First(group)) \in Nat /\ UnitEnd(Latest(group)) \in Nat
        OBVIOUS
      <4>1. UnitStart(First(group)) <= UnitStart(First(new))
        BY <1>2, <1>5, <3>4, <3>6, UnitsOrdered
      <4>2. UnitEnd(Latest(group)) < UnitEnd(at)
        <5>1. Latest(group) < at /\ Latest(group) <= at
          BY <1>3, <1>4, <1>5
        <5> QED
          BY <1>2, <1>4, <1>5, <5>1, UnitsOrdered
      <4>3. UnitStart(First(group)) \in Nat /\ UnitEnd(Latest(group)) \in Nat
        BY <1>2, <1>5, UnitPlaces
      <4> QED
        BY <4>1, <4>2, <4>3
    <3>8. CASE /\ next.closed = <<>>
               /\ Members(group) \subseteq Members(new) \/ SumLengths(Members(group)) = 0
      <4>1. pieces' = pieces
        BY <3>1, <3>8
      <4>2. \A i \in 1..at' - 1 : \/ units[i].kind = "blank" \/ i \in Members(new)
                                 \/ Keeps(pieces, i)
        <5> SUFFICES ASSUME NEW i \in 1..at' - 1, i \in Members(group), i \notin Members(new)
                     PROVE  units[i].kind = "blank"
          BY <1>3, <1>4, <3>4
        <5>1. SumLengths(Members(group)) = 0 /\ i \in 1..Len(units)
          BY <1>2, <3>8, RunEnds
        <5>2. units[i].len <= 0 /\ units[i].len \in Nat /\ units[i] \in UnitShape
          BY <1>2, <5>1, SumsAre, UnitLengths
        <5> QED
          BY <5>2 DEF UnitShape
      <4>3. pieces # <<>> => /\ pieces[Len(pieces)].from <= UnitStart(First(new))
                             /\ pieces[Len(pieces)].to < UnitEnd(Latest(new))
        <5>1. pieces # <<>> => /\ pieces[Len(pieces)].from \in Nat
                               /\ pieces[Len(pieces)].to \in Nat
          BY <1>2, PiecesAre
        <5> QED
          BY <1>3, <3>4, <3>6, <3>7, <5>1
      <4>4. SentenceInv(at', new, pieces)
        BY <1>2, <1>4, <3>4, <3>5, <4>2, <4>3 DEF SentenceInv, Prose
      <4> QED
        BY <1>2, <3>1, <3>4, <4>1, <4>4
    <3>9. CASE /\ next.closed = Append(<<>>, group)
               /\ group # <<>> /\ SumLengths(Members(group)) # 0
      <4> DEFINE rs == Emit(group)
      <4>1. pieces' = rs
        <5>1. Append(<<>>, group) # <<>>
          OBVIOUS
        <5> QED
          BY <3>1, <3>9, <5>1
      <4>2. /\ PiecesOK(rs) /\ GoesOn(pieces, rs)
            /\ \A i \in Members(group) : units[i].kind = "blank" \/ Keeps(rs, i)
            /\ rs # <<>> => /\ rs[Len(rs)].from <= UnitStart(First(group))
                            /\ rs[Len(rs)].to <= UnitEnd(Latest(group))
        BY <1>2, EmitKeeps
      <4> HIDE DEF rs
      <4>3. \A i : Keeps(pieces, i) => Keeps(rs, i)
        BY <1>2, <4>2, PiecesAre, KeepsMore
      <4>4. \A i \in 1..at' - 1 : units[i].kind = "blank" \/ i \in Members(new) \/ Keeps(rs, i)
        BY <1>3, <1>4, <3>4, <4>2, <4>3
      <4>5. rs # <<>> => /\ rs[Len(rs)].from <= UnitStart(First(new))
                         /\ rs[Len(rs)].to < UnitEnd(Latest(new))
        <5>1. rs # <<>> => rs[Len(rs)].from \in Nat /\ rs[Len(rs)].to \in Nat
          BY <4>2, PiecesAre
        <5> QED
          BY <3>4, <3>6, <3>7, <3>9, <4>2, <5>1
      <4>6. SentenceInv(at', new, rs)
        BY <1>2, <1>4, <3>4, <3>5, <4>4, <4>5 DEF SentenceInv, Prose
      <4> QED
        BY <3>1, <3>4, <4>1, <4>2, <4>6
    <3> QED
      BY <3>4, <3>8, <3>9
  <2> QED
    BY <2>1, <2>2
<1>7. StateOK(splitter', at', group', size', hasContext', heading', header', open', pieces')
  BY <1>1, <1>2, <1>4, <1>6, StateIs DEF StateOK, Prose
<1> QED
  BY <1>1, <1>2, <1>7, TextStays

-----------------------------------------------------------------------------
(* The slices of an oversized line.                                        *)

(* A later slice begins where the one before it ends, or after that. *)
LEMMA TimesGrows ==
    ASSUME NEW b \in Nat \ {0}, NEW j \in Int, NEW k \in Int, j < k
    PROVE  j * b + b <= k * b /\ j * b \in Int /\ k * b \in Int /\ j * b < k * b
<1> DEFINE d == k - j - 1
<1>1. d \in Nat /\ k = j + 1 + d
  OBVIOUS
<1> HIDE DEF d
<1>2. d * b \in Nat /\ j * b \in Int
  BY <1>1
<1>3. (j + 1 + d) * b = j * b + b + d * b
  BY <1>1
<1> QED
  BY <1>1, <1>2, <1>3

(* Division with its rest. *)
LEMMA DivIs ==
    ASSUME NEW a \in Nat, NEW b \in Nat \ {0}
    PROVE  /\ a \div b \in Nat
           /\ (a \div b) * b <= a /\ a < (a \div b) * b + b
OBVIOUS

Table == {"rows", "sections"}

(* The context of a group of lines has a length. *)
LEMMA ContextIs ==
    ASSUME TextOK, NEW hd \in 0..Len(units), NEW hr \in 0..Len(units)
    PROVE  ContextOf(hd, hr) \in Nat
<1>1. limit \in Nat /\ limit \div 3 \in Nat /\ units \in Seq(UnitShape)
  BY DEF TextOK
<1>2. ASSUME NEW n \in Nat
      PROVE  BoundedContext(n) \in Nat
  <2> DEFINE third == IF limit > 60 THEN limit \div 3 ELSE limit
             cap == Smaller(Larger(20, third), 500)
             cut == n - cap
             digits == IF cut < 10 THEN 1 ELSE IF cut < 100 THEN 2 ELSE 3
  <2>1. third \in Nat
    BY <1>1
  <2> HIDE DEF third
  <2>2. Larger(20, third) \in Nat
    BY <2>1, GreaterOf DEF Larger
  <2>3. cap \in Nat
    BY <2>2, LesserOf DEF Smaller
  <2>4. BoundedContext(n) = IF n <= cap THEN n ELSE cap + 12 + digits
    BY DEF BoundedContext, third
  <2> HIDE DEF cap
  <2>5. digits \in Nat
    OBVIOUS
  <2> QED
    BY <2>3, <2>4, <2>5
<1>3. \A i \in 1..Len(units) : BoundedContext(units[i].len) \in Nat
  BY <1>1, <1>2, UnitLengths
<1> DEFINE part(i) == IF i = 0 THEN 0 ELSE BoundedContext(units[i].len)
<1>4. ContextOf(hd, hr) = part(hd) + (IF hd # 0 /\ hr # 0 THEN 1 ELSE 0) + part(hr)
  BY DEF ContextOf
<1>5. \A i \in 0..Len(units) : part(i) \in Nat
  <2>1. \A i \in 0..Len(units) : i = 0 \/ i \in 1..Len(units)
    OBVIOUS
  <2> QED
    BY <1>3, <2>1
<1> HIDE DEF part
<1>6. part(hd) \in Nat /\ part(hr) \in Nat
  BY <1>5
<1> QED
  BY <1>4, <1>6

(* A slice fits the limit together with its context. *)
LEMMA SlicesFit ==
    ASSUME TextOK, ContextLength \in Nat
    PROVE  /\ SliceBlock \in Nat /\ SliceBudget \in Nat \ {0}
           /\ SliceBlock + SliceBudget <= limit
<1> DEFINE floor == Larger(1, limit \div 5)
           block == IF ContextLength = 0 THEN 0 ELSE BoundedContext(ContextLength) + 2
           room == IF limit > floor + 2 THEN limit - floor - 2 ELSE 0
           trimmed == Smaller(ContextLength, room)
<1>1. limit \in Nat \ {0} /\ limit \div 5 \in Nat /\ limit \div 5 <= limit
  BY DEF TextOK
<1>2. floor \in Nat \ {0} /\ floor <= limit
  BY <1>1, GreaterOf DEF Larger
<1>3. block \in Nat
  <2> DEFINE third == IF limit > 60 THEN limit \div 3 ELSE limit
             cap == Smaller(Larger(20, third), 500)
             cut == ContextLength - cap
             digits == IF cut < 10 THEN 1 ELSE IF cut < 100 THEN 2 ELSE 3
  <2>1. third \in Nat
    <3>1. limit \div 3 \in Nat
      BY <1>1
    <3> QED
      BY <1>1, <3>1
  <2> HIDE DEF third
  <2>2. Larger(20, third) \in Nat
    BY <2>1, GreaterOf DEF Larger
  <2>3. cap \in Nat
    BY <2>2, LesserOf DEF Smaller
  <2>4. BoundedContext(ContextLength) = IF ContextLength <= cap THEN ContextLength ELSE cap + 12 + digits
    BY DEF BoundedContext, third
  <2> HIDE DEF cap
  <2>5. digits \in Nat
    OBVIOUS
  <2>6. BoundedContext(ContextLength) \in Nat
    BY <2>3, <2>4, <2>5
  <2> QED
    BY <2>6
<1>4. /\ SliceBlock = IF block + floor <= limit THEN block
                      ELSE IF trimmed = 0 THEN 0 ELSE trimmed + 2
      /\ SliceBudget = Larger(floor, IF limit > SliceBlock THEN limit - SliceBlock ELSE 0)
  BY DEF SliceBlock, SliceBudget
<1> HIDE DEF floor, block
<1>5. room \in Nat /\ (room # 0 => room + 2 + floor <= limit)
  BY <1>1, <1>2
<1> HIDE DEF room
<1>6. trimmed \in Nat /\ trimmed <= room
  BY <1>5, LesserOf DEF Smaller
<1> HIDE DEF trimmed
<1>7. SliceBlock \in Nat /\ SliceBlock + floor <= limit
  BY <1>1, <1>2, <1>3, <1>4, <1>5, <1>6
<1>8. limit > SliceBlock /\ limit - SliceBlock \in Nat /\ limit - SliceBlock >= floor
  BY <1>1, <1>2, <1>7
<1> DEFINE left == limit - SliceBlock
<1>9. SliceBudget = Larger(floor, left) /\ left \in Nat /\ left >= floor
  BY <1>4, <1>8
<1>10. left + SliceBlock = limit
  BY <1>1, <1>7
<1> HIDE DEF left
<1>11. SliceBudget = left
  <2>1. Larger(floor, left) = IF floor >= left THEN floor ELSE left
    BY <1>2, <1>9, GreaterOf DEF Larger
  <2> QED
    BY <1>2, <1>9, <2>1
<1> QED
  BY <1>1, <1>2, <1>7, <1>9, <1>10, <1>11

(* The slices of an oversized line make up the line. *)
LEMMA SlicesKeep ==
    ASSUME TextOK, Chosen(request) \in Table, ContextLength \in Nat,
           NEW i \in 1..Len(units), units[i].len > limit
    PROVE  /\ Slices(i) # <<>> /\ PiecesOK(Slices(i)) /\ Keeps(Slices(i), i)
           /\ Slices(i)[1].from = UnitStart(i)
           /\ Slices(i)[Len(Slices(i))].to = UnitEnd(i)
<1> DEFINE B == SliceBudget
           L == units[i].len
           s == UnitStart(i)
           n == SliceCount(i)
           From(k) == (k - 1) * B
           To(k) == Smaller(k * B, L)
           qs == Slices(i)
<1>1. /\ units \in Seq(UnitShape) /\ limit \in Nat \ {0}
      /\ s \in Nat /\ L \in Nat /\ L > limit /\ UnitEnd(i) = s + L
  BY UnitPlaces DEF TextOK
<1>2. B \in Nat \ {0} /\ SliceBlock \in Nat /\ SliceBlock + B <= limit
  BY SlicesFit
<1>3. s + L <= TextEnd /\ TextEnd \in Nat /\ ~BySize
  <2>1. ~BySize
    <3>1. BySize => Chosen(request) = "tokens"
      BY DEF TextOK
    <3> QED
      BY <3>1 DEF Table
  <2> QED
    BY <1>1, <2>1, UnitsInText
<1>4. n = (L + B - 1) \div B
  BY DEF SliceCount, CeilDiv
<1>5. qs = [k \in 1..n |-> Piece(s + From(k), s + To(k), SliceBlock + To(k) - From(k), {i})]
  BY DEF Slices
<1> HIDE DEF B, L, s, n, qs
<1>6. n \in Nat /\ n >= 1 /\ n * B <= L + B - 1 /\ L + B - 1 < n * B + B /\ n * B \in Nat
  <2> DEFINE a == L + B - 1
  <2>1. a \in Nat /\ a >= B
    BY <1>1, <1>2
  <2> HIDE DEF a
  <2>2. n = a \div B
    BY <1>4 DEF a
  <2>3. n \in Nat /\ n * B <= a /\ a < n * B + B
    BY <1>2, <2>1, <2>2, DivIs
  <2>4. n # 0
    BY <1>2, <2>1, <2>3
  <2> QED
    BY <1>2, <2>3, <2>4 DEF a
<1>7. ASSUME NEW k \in 1..n
      PROVE  /\ From(k) \in Nat /\ k * B \in Nat /\ k * B = From(k) + B
             /\ From(k) < L /\ (k < n => k * B < L) /\ (k = n => L <= k * B)
  <2>1. k - 1 \in Nat /\ k \in Nat /\ k <= n
    BY <1>6
  <2>2. k * B = (k - 1) * B + B /\ k * B \in Nat /\ (k - 1) * B \in Nat
    BY <1>2, <2>1
  <2>3. k < n => k * B < n * B /\ k * B + B <= n * B
    BY <1>2, <1>6, <2>1, TimesGrows
  <2> DEFINE kb == k * B
             nb == n * B
  <2>4. kb \in Nat /\ nb \in Nat /\ nb <= L + B - 1 /\ L + B - 1 < nb + B
        /\ (k < n => kb + B <= nb) /\ (k = n => kb = nb)
    BY <1>6, <2>2, <2>3
  <2> HIDE DEF kb, nb
  <2>5. (k < n => kb < L) /\ (k = n => L <= kb) /\ kb < L + B
    BY <1>1, <1>2, <1>6, <2>1, <2>4
  <2> DEFINE f == (k - 1) * B
  <2>6. f \in Nat /\ kb = f + B
    BY <2>2 DEF kb
  <2> HIDE DEF f
  <2>7. f < L
    BY <1>1, <1>2, <2>4, <2>5, <2>6
  <2> QED
    BY <2>4, <2>5, <2>6, <2>7 DEF f, kb
<1>8. ASSUME NEW k \in 1..n
      PROVE  /\ To(k) \in Nat /\ From(k) < To(k) /\ To(k) <= From(k) + B /\ To(k) <= L
             /\ k < n => To(k) = From(k) + B
             /\ k = n => To(k) = L
  <2> DEFINE f == From(k)
             kb == k * B
  <2>1. /\ f \in Nat /\ kb \in Nat /\ kb = f + B /\ f < L
        /\ (k < n => kb < L) /\ (k = n => L <= kb)
    BY <1>7
  <2>2. To(k) = IF kb <= L THEN kb ELSE L
    <3> HIDE DEF f
    <3>1. kb \in Nat
      BY <2>1
    <3> HIDE DEF kb
    <3>2. Smaller(kb, L) = IF kb <= L THEN kb ELSE L
      BY <1>1, <3>1, LesserOf DEF Smaller
    <3> QED
      BY <3>2 DEF kb
  <2> DEFINE t == To(k)
  <2>3. t = IF kb <= L THEN kb ELSE L
    BY <2>2
  <2> HIDE DEF f, kb, t
  <2>4. t \in Nat /\ f < t /\ t <= f + B /\ t <= L /\ (k < n => t = f + B) /\ (k = n => t = L)
    BY <1>1, <1>2, <2>1, <2>3
  <2> QED
    BY <2>4 DEF f, t
<1>9. ASSUME NEW k \in 2..n
      PROVE  k \in 1..n /\ k - 1 \in 1..n /\ To(k - 1) = From(k)
  <2> DEFINE j == k - 1
  <2>1. k \in 1..n /\ j \in 1..n /\ j < n
    BY <1>6
  <2>2. From(j) = (j - 1) * B /\ From(k) = j * B
    OBVIOUS
  <2>3. j * B = From(j) + B
    BY <1>7, <2>1
  <2>4. To(j) = From(j) + B
    BY <1>8, <2>1
  <2> HIDE DEF j, From, To
  <2>5. To(j) = From(k)
    BY <2>2, <2>3, <2>4
  <2> QED
    BY <2>1, <2>5 DEF j
<1> HIDE DEF From, To
<1>20. \A k \in 1..n :
         qs[k] = [from |-> s + From(k), to |-> s + To(k),
                  length |-> SliceBlock + To(k) - From(k), members |-> {i}, words |-> 0,
                  parents |-> {}]
  BY <1>5 DEF Piece
<1>10. \A k \in 1..n :
         /\ qs[k].from = s + From(k) /\ qs[k].to = s + To(k) /\ qs[k].members = {i}
  BY <1>5 DEF Piece
<1>11. DOMAIN qs = 1..n /\ Len(qs) = n
  BY <1>5, <1>6
<1>12. ASSUME NEW k \in 1..n
       PROVE  PieceOK(qs[k])
  <2>1. /\ From(k) \in Nat /\ To(k) \in Nat /\ From(k) < To(k) /\ To(k) <= From(k) + B
        /\ To(k) <= L
    BY <1>7, <1>8
  <2> DEFINE p == qs[k]
  <2>2. /\ p = [from |-> s + From(k), to |-> s + To(k),
                length |-> SliceBlock + To(k) - From(k), members |-> {i}, words |-> 0,
                parents |-> {}]
    BY <1>20
  <2> DEFINE f == From(k)
             t == To(k)
  <2>9. /\ f \in Nat /\ t \in Nat /\ f < t /\ t <= f + B /\ t <= L
    BY <2>1
  <2> HIDE DEF f, t
  <2>10. /\ s + f \in Nat /\ s + t \in Nat /\ s + f < s + t /\ s + t <= TextEnd /\ s <= s + t
    BY <1>1, <1>3, <2>9
  <2>11. SliceBlock + t - f \in Nat /\ SliceBlock + t - f <= limit
    BY <1>1, <1>2, <2>9
  <2>3. /\ s + From(k) \in Nat /\ s + To(k) \in Nat /\ SliceBlock + To(k) - From(k) \in Nat
        /\ s + From(k) < s + To(k) /\ s + To(k) <= TextEnd /\ s <= s + To(k)
        /\ SliceBlock + To(k) - From(k) <= limit
    BY <2>10, <2>11 DEF f, t
  <2> HIDE DEF p
  <2>4. p.from < p.to /\ p.to <= TextEnd /\ p.length <= limit /\ p.members = {i}
        /\ p \in PieceShape /\ s <= p.to
    BY <2>2, <2>3 DEF PieceShape
  <2>5. Explained(p)
    BY <1>3, <2>4 DEF Explained, Table
  <2>6. Enclosed(p)
    BY DEF Enclosed, Table
  <2>7. \A j \in p.members : UnitStart(j) <= p.to
    BY <2>4 DEF s
  <2>8. PieceOK(p)
    BY <2>4, <2>5, <2>6, <2>7 DEF PieceOK
  <2> QED
    BY <2>8 DEF p
<1>13. qs \in Seq(PieceShape)
  <2>1. \A k \in 1..n : qs[k] \in PieceShape
    BY <1>12 DEF PieceOK
  <2>2. qs = [k \in 1..n |-> qs[k]]
    BY <1>5
  <2> QED
    BY <1>6, <2>1, <2>2
<1>14. ASSUME NEW k \in 2..n
       PROVE  Follows(qs[k - 1], qs[k])
  <2> DEFINE j == k - 1
  <2>1. k \in 1..n /\ j \in 1..n /\ To(j) = From(k)
    BY <1>9
  <2>2. /\ From(j) \in Nat /\ From(k) \in Nat /\ To(j) \in Nat /\ To(k) \in Nat
        /\ From(j) < To(j) /\ From(k) < To(k)
    BY <1>7, <1>8, <2>1
  <2>3. qs[j].from = s + From(j) /\ qs[j].to = s + To(j) /\ qs[k].from = s + From(k)
        /\ qs[k].to = s + To(k)
    BY <1>10, <2>1
  <2> HIDE DEF j
  <2>4. Follows(qs[j], qs[k])
    BY <1>1, <2>1, <2>2, <2>3 DEF Follows
  <2> QED
    BY <2>4 DEF j
<1>15. PiecesOK(qs)
  BY <1>11, <1>12, <1>13, <1>14 DEF PiecesOK
<1>16. 1 \in 1..n /\ n \in 1..n /\ qs # <<>>
  <2>1. 1 \in 1..n /\ n \in 1..n
    BY <1>6
  <2>2. qs = <<>> => Len(qs) = 0
    OBVIOUS
  <2> QED
    BY <1>6, <1>11, <2>1, <2>2
<1>17. qs[1].from = s
  <2>1. From(1) = 0
    BY <1>2 DEF From
  <2>2. qs[1].from = s + From(1)
    BY <1>10, <1>16
  <2>3. s + 0 = s
    BY <1>1
  <2> QED
    BY <2>1, <2>2, <2>3
<1>18. qs[Len(qs)].to = UnitEnd(i)
  <2>1. To(n) = L
    BY <1>8, <1>16
  <2> QED
    BY <1>1, <1>10, <1>11, <1>16, <2>1
<1>19. Keeps(qs, i)
  <2> SUFFICES ASSUME NEW q \in s..s + L - 1
               PROVE  \E k \in 1..n : i \in qs[k].members /\ qs[k].from <= q /\ q < qs[k].to
    <3>1. UnitEnd(i) - 1 = s + L - 1 /\ UnitStart(i) = s
      BY <1>1 DEF s
    <3> QED
      BY <1>11, <3>1 DEF Keeps, Table
  <2> DEFINE d == q - s
             k == d \div B + 1
  <2>1. d \in Nat /\ d < L /\ q = s + d
    BY <1>1
  <2> HIDE DEF d
  <2>2. /\ d \div B \in Nat /\ (d \div B) * B <= d /\ d < (d \div B) * B + B
    BY <1>2, <2>1, DivIs
  <2> DEFINE e == d \div B
  <2> HIDE DEF e
  <2>3. k = e + 1 /\ e \in Nat /\ e * B <= d /\ d < e * B + B /\ From(k) = e * B
    <3>1. (e + 1) - 1 = e /\ e \in Nat
      BY <2>2 DEF e
    <3>2. k = e + 1
      BY DEF e
    <3> HIDE DEF k
    <3>3. k - 1 = e
      BY <3>1, <3>2
    <3> QED
      BY <2>2, <3>1, <3>2, <3>3 DEF e, From
  <2>4. k \in 1..n
    <3>1. CASE e >= n
      <4>1. n * B <= e * B /\ e * B \in Int
        <5>1. CASE e = n
          BY <1>6, <5>1
        <5>2. CASE n < e
          BY <1>2, <1>6, <2>3, <5>2, TimesGrows
        <5> QED
          BY <1>6, <2>3, <3>1, <5>1, <5>2
      <4>2. L <= n * B
        BY <1>1, <1>2, <1>6
      <4> DEFINE eb == e * B
                 nb == n * B
      <4>3. nb <= eb /\ eb \in Int /\ L <= nb /\ nb \in Nat /\ eb <= d
        BY <1>6, <2>3, <4>1, <4>2
      <4> HIDE DEF eb, nb
      <4>4. FALSE
        BY <1>1, <2>1, <4>3
      <4> QED
        BY <4>4
    <3>2. CASE e < n
      BY <1>6, <2>3, <3>2
    <3> QED
      BY <1>6, <2>3, <3>1, <3>2
  <2> HIDE DEF k
  <2>5. /\ From(k) \in Nat /\ To(k) \in Nat /\ (k < n => To(k) = From(k) + B) /\ (k = n => To(k) = L)
    BY <1>7, <1>8, <2>4
  <2>6. From(k) <= d /\ d < To(k)
    <3>1. k < n \/ k = n
      BY <1>6, <2>4
    <3> DEFINE eb == e * B
    <3>2. eb <= d /\ d < eb + B /\ From(k) = eb /\ eb \in Int
      BY <2>3, <2>5
    <3> HIDE DEF eb
    <3> QED
      BY <1>1, <1>2, <2>1, <2>5, <3>1, <3>2
  <2>7. qs[k].from <= q /\ q < qs[k].to /\ i \in qs[k].members
    <3> DEFINE f == From(k)
               t == To(k)
    <3>1. qs[k].from = s + f /\ qs[k].to = s + t /\ qs[k].members = {i}
      BY <1>10, <2>4
    <3>2. f \in Nat /\ t \in Nat /\ f <= d /\ d < t
      BY <2>5, <2>6
    <3> HIDE DEF f, t
    <3>3. s + f <= q /\ q < s + t
      BY <1>1, <2>1, <3>2
    <3> QED
      BY <3>1, <3>3
  <2> QED
    BY <2>4, <2>7
<1> QED
  BY <1>15, <1>16, <1>17, <1>18, <1>19 DEF qs, s

(* A list put behind another keeps what it kept. *)
LEMMA JoinKeeps ==
    ASSUME NEW ps, PiecesOK(ps), NEW qs, PiecesOK(qs),
           ps # <<>> /\ qs # <<>> => Follows(ps[Len(ps)], qs[1])
    PROVE  /\ PiecesOK(ps \o qs)
           /\ \A i : Keeps(ps, i) \/ Keeps(qs, i) => Keeps(ps \o qs, i)
           /\ ps \o qs # <<>> => (ps \o qs)[Len(ps \o qs)] = IF qs = <<>> THEN ps[Len(ps)] ELSE qs[Len(qs)]
<1> DEFINE N == Len(ps)
           M == Len(qs)
           rs == ps \o qs
<1>1. /\ PiecesOK(rs) /\ Len(rs) = N + M
      /\ \A k \in 1..N : rs[k] = ps[k]
      /\ \A k \in 1..M : rs[N + k] = qs[k]
  BY PiecesJoin
<1>2. /\ N \in Nat /\ M \in Nat /\ (ps = <<>> <=> N = 0) /\ (qs = <<>> <=> M = 0)
      /\ (rs = <<>> <=> Len(rs) = 0)
  BY <1>1, PiecesAre
<1> HIDE DEF N, M, rs
<1>3. ASSUME NEW i, Keeps(ps, i)
      PROVE  Keeps(rs, i)
  <2>1. GoesOn(ps, rs) /\ Len(rs) \in Nat
    BY <1>1, <1>2 DEF GoesOn, N
  <2> QED
    BY <1>2, <1>3, <2>1, KeepsMore DEF N
<1>4. ASSUME NEW i, Keeps(qs, i)
      PROVE  Keeps(rs, i)
  <2>1. \A k \in 1..M : N + k \in 1..Len(rs) /\ rs[N + k] = qs[k]
    BY <1>1, <1>2
  <2>2. CASE Chosen(request) = "numbered"
    <3>1. PICK k \in 1..M : i \in qs[k].members /\ qs[k].to - qs[k].from >= units[i].len
      BY <1>4, <2>2 DEF Keeps, M
    <3> DEFINE j == N + k
    <3>2. j \in 1..Len(rs) /\ rs[j] = qs[k]
      BY <2>1
    <3> HIDE DEF j
    <3> QED
      BY <2>2, <3>1, <3>2 DEF Keeps
  <2>3. CASE Chosen(request) # "numbered"
    <3> SUFFICES ASSUME NEW q \in UnitStart(i)..UnitEnd(i) - 1
                 PROVE  \E k \in 1..Len(rs) : i \in rs[k].members /\ rs[k].from <= q /\ q < rs[k].to
      BY <2>3 DEF Keeps
    <3>1. PICK k \in 1..M : i \in qs[k].members /\ qs[k].from <= q /\ q < qs[k].to
      BY <1>4, <2>3 DEF Keeps, M
    <3> DEFINE j == N + k
    <3>2. j \in 1..Len(rs) /\ rs[j] = qs[k]
      BY <2>1
    <3> HIDE DEF j
    <3> QED
      BY <3>1, <3>2
  <2> QED
    BY <2>2, <2>3
<1>5. rs # <<>> => rs[Len(rs)] = IF M = 0 THEN ps[N] ELSE qs[M]
  <2>1. CASE M = 0
    <3>1. Len(rs) = N /\ (rs # <<>> => N \in 1..N)
      BY <1>1, <1>2, <2>1
    <3> QED
      BY <1>1, <2>1, <3>1
  <2>2. CASE M # 0
    <3>1. M \in 1..M
      BY <1>2, <2>2
    <3>2. rs[N + M] = qs[M]
      BY <1>1, <3>1
    <3> QED
      BY <1>1, <2>2, <3>2
  <2> QED
    BY <2>1, <2>2
<1> QED
  BY <1>1, <1>2, <1>3, <1>4, <1>5 DEF N, M, rs

-----------------------------------------------------------------------------
(* The splitters by line: the chunk of a group of lines.                   *)

(* A line alone is a run. *)
LEMMA SingleRun ==
    ASSUME units \in Seq(UnitShape), NEW i \in 1..Len(units)
    PROVE  /\ Run(<<i>>) /\ <<i>> # <<>> /\ Len(<<i>>) = 1
           /\ First(<<i>>) = i /\ Latest(<<i>>) = i /\ Members(<<i>>) = {i}
           /\ SumLengths({i}) = units[i].len /\ JoinedLength(<<i>>) = units[i].len
<1>1. SumLengths({i}) = units[i].len
  <2>1. SumLengths({} \cup {i}) = SumLengths({}) + units[i].len
    BY SumOfMore
  <2>2. {} \cup {i} = {i} /\ units[i].len \in Nat
    BY UnitLengths
  <2> QED
    BY <2>1, <2>2, SumOfNone
<1>2. Run(<<i>>)
  BY DEF Run
<1>3. Members(<<i>>) = {i}
  BY DEF Members
<1>4. JoinedLength(<<i>>) = units[i].len
  <2> DEFINE g == <<i>>
             n == Len(g) - 1
  <2>1. n = 0 /\ units[i].len \in Nat
    BY UnitLengths
  <2>2. JoinedLength(g) = SumLengths(Members(g)) + n * Separator
    BY DEF JoinedLength
  <2>3. SumLengths(Members(g)) = units[i].len
    BY <1>1, <1>3
  <2> HIDE DEF n, g
  <2>4. n * Separator = 0
    BY <2>1, SeparatorIs
  <2>5. JoinedLength(g) = units[i].len
    BY <2>1, <2>2, <2>3, <2>4
  <2> QED
    BY <2>5 DEF g
<1> QED
  BY <1>1, <1>2, <1>3, <1>4 DEF First, Latest

(* The length of a group with one line more. *)
LEMMA JoinedGrows ==
    ASSUME units \in Seq(UnitShape), NEW g, Run(g), g # <<>>,
           NEW i \in 1..Len(units), Latest(g) < i
    PROVE  JoinedLength(Append(g, i)) = JoinedLength(g) + Separator + units[i].len
<1> DEFINE h == Append(g, i)
           n == Len(g)
           s == SumLengths(Members(g))
<1>1. Len(h) = n + 1 /\ Members(h) = Members(g) \cup {i} /\ i \notin Members(g)
  BY RunGrows
<1>2. SumLengths(Members(h)) = s + units[i].len
  BY <1>1, SumOfMore
<1>3. n \in Nat /\ n >= 1 /\ s \in Nat /\ units[i].len \in Nat
  BY RunEnds, SumsAre, UnitLengths
<1>4. JoinedLength(h) = SumLengths(Members(h)) + (Len(h) - 1) * Separator
      /\ JoinedLength(g) = s + (n - 1) * Separator
  BY DEF JoinedLength
<1> HIDE DEF h, n, s
<1>5. (Len(h) - 1) * Separator = (n - 1) * Separator + Separator /\ (n - 1) * Separator \in Int
  <2>1. CASE Separator = 1
    BY <1>1, <1>3, <2>1
  <2>2. CASE Separator = 2
    BY <1>1, <1>3, <2>2
  <2> QED
    BY <2>1, <2>2, SeparatorIs
<1> DEFINE m == (n - 1) * Separator
<1>6. m \in Int /\ JoinedLength(h) = s + units[i].len + (m + Separator) /\ JoinedLength(g) = s + m
  BY <1>2, <1>4, <1>5
<1> HIDE DEF m
<1>7. JoinedLength(h) = JoinedLength(g) + Separator + units[i].len
  BY <1>3, <1>6, SeparatorIs
<1> QED
  BY <1>7 DEF h

(* What is split by line has units one line break apart and no numbered sections. *)
LEMMA TableIs ==
    TextOK /\ Chosen(request) \in Table => ~BySize /\ Separator = 1 /\ Chosen(request) # "numbered"
<1> SUFFICES ASSUME TextOK, Chosen(request) \in Table
             PROVE  ~BySize /\ Separator = 1 /\ Chosen(request) # "numbered"
  OBVIOUS
<1>1. ~BySize
  BY DEF TextOK, Table
<1>2. request.strategy # "paragraphs"
  BY DEF Chosen, Table
<1> QED
  BY <1>1, <1>2 DEF Separator, Table

(* The chunk of a group of lines, with its context, is within the limit. *)
LEMMA RowPieceOK ==
    ASSUME TextOK, Chosen(request) \in Table, Run(group), group # <<>>,
           heading \in 0..Len(units), header \in 0..Len(units),
           RowsFit(group, hasContext, heading, header),
           \A i \in Members(group) : units[i].kind # "blank"
    PROVE  /\ PieceOK(RowPiece)
           /\ RowPiece.from = UnitStart(First(group)) /\ RowPiece.to = UnitEnd(Latest(group))
           /\ RowPiece.members = Members(group)
<1> DEFINE from == UnitStart(First(group))
           to == UnitEnd(Latest(group))
           context == ContextIn(hasContext, heading, header)
           length == context + JoinedLength(group)
           p == RowPiece
<1>1. units \in Seq(UnitShape) /\ ~BySize
  BY TableIs DEF TextOK
<1>2. First(group) \in Members(group) /\ Members(group) \subseteq 1..Len(units)
  BY <1>1, RunEnds
<1>3. SumLengths(Members(group)) # 0
  <2>1. units[First(group)].len \in Nat /\ units[First(group)] \in UnitShape
    BY <1>1, <1>2, UnitLengths
  <2>2. units[First(group)].len # 0
    BY <1>2, <2>1 DEF UnitShape
  <2>3. units[First(group)].len <= SumLengths(Members(group)) /\ SumLengths(Members(group)) \in Nat
    BY <1>1, <1>2, SumsAre
  <2> QED
    BY <2>1, <2>2, <2>3
<1>4. /\ from \in Nat /\ to \in Nat /\ from < to /\ to <= TextEnd
      /\ \A i \in Members(group) : UnitStart(i) <= to
  <2>1. \A i \in Members(group) : /\ UnitStart(i) <= UnitEnd(i) /\ UnitEnd(i) <= to
                                  /\ UnitStart(i) \in Nat /\ UnitEnd(i) \in Nat
    BY <1>1, RunSpan, UnitPlaces
  <2> QED
    BY <1>3, <2>1, RunSpan
<1>5. p = [from |-> from, to |-> to, length |-> length, members |-> Members(group), words |-> 0,
           parents |-> {}]
  <2>1. ContextLength = ContextOf(heading, header)
    BY DEF ContextLength, ContextOf
  <2>2. context = IF hasContext \/ ContextLength = 0 THEN 0 ELSE ContextLength + 2
    BY <2>1 DEF ContextIn
  <2> HIDE DEF context
  <2> QED
    BY <2>2 DEF RowPiece, Piece, First, Latest
<1>6. context \in Nat /\ JoinedLength(group) \in Nat
  <2>1. ContextOf(heading, header) \in Nat
    BY ContextIs
  <2> QED
    BY <1>1, <2>1, JoinedIs DEF ContextIn
<1>7. \/ context + JoinedLength(group) <= limit
      \/ Len(group) = 1 /\ (units[First(group)].len <= limit \/ IsHeading(First(group)))
  BY DEF RowsFit
<1>8. length \in Nat
  BY <1>6
<1> HIDE DEF from, to, p
<1>9. p.length = length /\ p.members = Members(group) /\ p.from = from /\ p.to = to
  BY <1>5
<1>10. \/ p.length <= limit
       \/ \E i \in p.members : p.members = {i} /\ (SumLengths(p.members) <= limit \/ IsHeading(i))
  <2>1. CASE context + JoinedLength(group) <= limit
    BY <1>9, <2>1
  <2>2. CASE Len(group) = 1 /\ (units[First(group)].len <= limit \/ IsHeading(First(group)))
    <3> DEFINE i == First(group)
    <3>1. Members(group) = {i}
      <4>1. Latest(group) = i
        BY <2>2 DEF First, Latest
      <4>2. \A j \in Members(group) : i <= j /\ j <= i /\ j \in 1..Len(units)
        BY <1>1, <1>2, <4>1, RunEnds
      <4>3. i \in Members(group) /\ i \in 1..Len(units)
        BY <1>2
      <4> HIDE DEF i
      <4>4. \A j \in Members(group) : j = i
        BY <4>2, <4>3
      <4> QED
        BY <4>3, <4>4
    <3>2. SumLengths({i}) = units[i].len
      BY <1>1, <1>2, SingleRun
    <3> HIDE DEF i
    <3>3. p.members = {i} /\ (SumLengths(p.members) <= limit \/ IsHeading(i))
      BY <1>9, <2>2, <3>1, <3>2 DEF i
    <3> QED
      BY <3>3
  <2> QED
    BY <1>7, <2>1, <2>2
<1> HIDE DEF length
<1>11. p \in PieceShape
  BY <1>2, <1>4, <1>5, <1>8 DEF PieceShape
<1>12. Explained(p)
  BY <1>1, <1>10 DEF Explained, Table
<1>13. Enclosed(p)
  BY DEF Enclosed, Table
<1>14. PieceOK(p)
  BY <1>4, <1>9, <1>11, <1>12, <1>13 DEF PieceOK
<1> QED
  BY <1>9, <1>14 DEF from, to, p

(* Closing the group keeps its lines, and leaves what comes next behind.   *)
LEMMA FlushedKeeps ==
    ASSUME TextOK, Chosen(request) \in Table, Run(group), PiecesOK(pieces),
           heading \in 0..Len(units), header \in 0..Len(units),
           RowInv(at, group, size, hasContext, heading, header, pieces)
    PROVE  /\ PiecesOK(Flushed) /\ Behind(Flushed, <<>>, at)
           /\ \A i : Keeps(pieces, i) \/ i \in Members(group) => Keeps(Flushed, i)
<1> DEFINE N == Len(pieces)
           p == RowPiece
           rs == Flushed
<1>1. units \in Seq(UnitShape) /\ Len(units) \in Nat
  BY UnitLengths DEF TextOK
<1>2. /\ at \in 1..Len(units) + 1
      /\ group # <<>> => /\ Latest(group) < at
                         /\ \A i \in Members(group) : units[i].kind # "blank"
                         /\ RowsFit(group, hasContext, heading, header)
      /\ Behind(pieces, group, at)
  BY DEF RowInv
<1>3. /\ N \in Nat /\ (pieces = <<>> <=> N = 0)
      /\ pieces # <<>> => /\ pieces[N].from \in Nat /\ pieces[N].to \in Nat
                          /\ pieces[N].from < pieces[N].to
  BY PiecesAre
<1>4. CASE group = <<>>
  <2>1. rs = pieces /\ Members(group) = {} /\ Members(<<>>) = {}
    BY <1>1, <1>4, RunEnds DEF Flushed
  <2>2. Behind(pieces, <<>>, at)
    BY <1>2, <2>1 DEF Behind
  <2> HIDE DEF rs
  <2> QED
    BY <2>1, <2>2 DEF rs
<1>5. CASE group # <<>>
  <2>1. rs = Append(pieces, p)
    BY <1>5 DEF Flushed
  <2>2. /\ PieceOK(p) /\ p.from = UnitStart(First(group)) /\ p.to = UnitEnd(Latest(group))
        /\ p.members = Members(group)
    BY <1>2, <1>5, RowPieceOK
  <2>3. /\ UnitStart(First(group)) \in Nat /\ UnitEnd(Latest(group)) \in Nat
        /\ \A i \in Members(group) : /\ i \in 1..Len(units)
                                     /\ UnitStart(First(group)) <= UnitStart(i)
                                     /\ UnitEnd(i) <= UnitEnd(Latest(group))
        /\ First(group) \in 1..Len(units) /\ Latest(group) \in 1..Len(units)
    BY <1>5, RunSpan
  <2>4. UnitStart(First(group)) < UnitEnd(Latest(group))
    BY <2>2 DEF PieceOK
  <2>5. First(group) \in Members(group)
    BY <1>1, <1>5, RunEnds
  <2> HIDE DEF p
  <2>6. pieces # <<>> => Follows(pieces[N], p)
    <3>1. pieces # <<>> => pieces[N].to <= UnitStart(First(group))
      BY <1>2, <2>3, <2>5 DEF Behind
    <3> QED
      BY <1>3, <2>2, <2>3, <2>4, <3>1 DEF Follows
  <2>7. /\ PiecesOK(rs) /\ rs # <<>> /\ Len(rs) = N + 1
        /\ \A k \in 1..N : rs[k] = pieces[k]
        /\ rs[Len(rs)] = p
    BY <2>1, <2>2, <2>6, PiecesGrow
  <2> HIDE DEF rs
  <2>8. GoesOn(pieces, rs) /\ Len(rs) \in 1..Len(rs) /\ Len(rs) \in Nat
    BY <1>3, <2>7 DEF GoesOn
  <2>9. ASSUME NEW i \in Members(group)
        PROVE  Keeps(rs, i)
    <3> DEFINE k == Len(rs)
    <3>1. /\ k \in 1..Len(rs) /\ i \in rs[k].members /\ rs[k].from \in Nat /\ rs[k].to \in Nat
          /\ rs[k].from <= UnitStart(i) /\ UnitEnd(i) <= rs[k].to /\ i \in 1..Len(units)
      BY <2>2, <2>3, <2>7, <2>8
    <3> HIDE DEF k
    <3> QED
      BY <1>1, <3>1, KeptWhole
  <2>10. \A i : Keeps(pieces, i) => Keeps(rs, i)
    BY <1>3, <2>8, KeepsMore
  <2>11. ASSUME NEW i \in 1..Len(units), i >= at
         PROVE  p.to <= UnitStart(i)
    <3>1. Latest(group) < i
      BY <1>2, <1>5, <2>3, <2>11
    <3>2. UnitEnd(Latest(group)) + Separator <= UnitStart(i) /\ UnitStart(i) \in Nat
      BY <1>1, <2>3, <3>1, UnitsApart, UnitPlaces
    <3> QED
      BY <2>2, <2>3, <3>2, SeparatorIs
  <2>12. Members(<<>>) = {}
    BY DEF Members
  <2>13. Behind(rs, <<>>, at)
    BY <2>7, <2>11, <2>12 DEF Behind
  <2> QED
    BY <2>7, <2>9, <2>10, <2>13 DEF rs
<1> QED
  BY <1>4, <1>5

(* What the splitters by line know when they take a line. *)
LEMMA RowStateIs ==
    ASSUME SplitInv, TakesLines
    PROVE  /\ TextOK /\ units \in Seq(UnitShape) /\ Len(units) \in Nat /\ Run(group)
           /\ PiecesOK(pieces) /\ Chosen(request) \in Table /\ splitter = Chosen(request)
           /\ RowInv(at, group, size, hasContext, heading, header, pieces)
           /\ at \in 1..Len(units) /\ at + 1 \in 1..Len(units) + 1
           /\ heading \in 0..Len(units) /\ header \in 0..Len(units) /\ size \in Nat
           /\ hasContext \in BOOLEAN /\ limit \in Nat \ {0}
           /\ \A i \in 1..at : i \in 1..at - 1 \/ i = at
           /\ units[at].len \in Nat /\ units[at] \in UnitShape
           /\ group # <<>> => /\ First(group) \in 1..Len(units) /\ First(group) < at
                              /\ Latest(group) < at /\ First(group) \in Members(group)
           /\ \A i \in Members(group) : i \in 1..at - 1
<1>1. /\ splitter \in Table /\ at <= Len(units)
  BY DEF TakesLines, Table
<1>2. splitter = Chosen(request)
  BY <1>1, StateIs DEF Table
<1>3. RowInv(at, group, size, hasContext, heading, header, pieces)
  BY <1>1, StateIs DEF StateOK, Table
<1>4. at \in 1..Len(units) /\ at + 1 \in 1..Len(units) + 1
      /\ (\A i \in 1..at : i \in 1..at - 1 \/ i = at)
  <2>1. at \in 1..Len(units) + 1 /\ Len(units) \in Nat
    BY <1>3, StateIs DEF RowInv
  <2> QED
    BY <1>1, <2>1
<1>5. units[at].len \in Nat /\ units[at] \in UnitShape
  BY <1>4, StateIs, UnitLengths
<1>6. group # <<>> => Latest(group) < at
  BY <1>3 DEF RowInv
<1>7. /\ group # <<>> => First(group) \in Members(group)
      /\ (\A i \in Members(group) : group # <<>> /\ i \in 1..Len(units) /\ i <= Latest(group))
      /\ group # <<>> => Latest(group) \in 1..Len(units) /\ First(group) \in 1..Len(units)
  BY StateIs, RunEnds
<1>8. \A i \in Members(group) : i \in 1..at - 1
  <2> SUFFICES ASSUME NEW i \in Members(group)
               PROVE  i \in 1..at - 1
    OBVIOUS
  <2> QED
    BY <1>4, <1>6, <1>7
<1>9. group # <<>> => First(group) < at
  BY <1>4, <1>7, <1>8
<1> QED
  BY <1>1, <1>2, <1>3, <1>4, <1>5, <1>6, <1>7, <1>8, <1>9, StateIs

(* A step of these splitters needs no more than its own invariant. *)
LEMMA RowStep ==
    ASSUME SplitInv, TakesLines, UNCHANGED textVars, UNCHANGED <<splitter, open>>,
           at' = at + 1, size' \in Nat, hasContext' \in BOOLEAN,
           heading' \in 0..Len(units), header' \in 0..Len(units), Run(group'), PiecesOK(pieces'),
           RowInv(at', group', size', hasContext', heading', header', pieces')
    PROVE  SplitInv'
<1>1. splitter' = Chosen(request) /\ Chosen(request) \in Table
  BY RowStateIs
<1>2. TextOK /\ open' \in [1..3 -> 0..Len(units)] /\ at' \in Nat
  <2>1. TextOK /\ open \in [1..3 -> 0..Len(units)] /\ at \in Nat
    BY StateIs
  <2> QED
    BY <2>1
<1>3. StateOK(splitter', at', group', size', hasContext', heading', header', open', pieces')
  <2> DEFINE sp == splitter'
  <2>1. sp = Chosen(request) /\ sp \in {"rows", "sections"}
    BY <1>1 DEF Table
  <2> HIDE DEF sp
  <2>2. /\ sp \notin {"none", "done", "failed", "tokens", "sentences", "paragraphs", "prose", "numbered"}
        /\ sp \in {"none", "done", "failed", Chosen(request)}
    BY <2>1
  <2>3. StateOK(sp, at', group', size', hasContext', heading', header', open', pieces')
    BY <1>2, <2>2 DEF StateOK
  <2> QED
    BY <2>3 DEF sp
<1> QED
  BY <1>2, <1>3, TextStays

(* A line that is neither heading nor header leaves both as they are. *)
LEMMA HeadingsGoOn ==
    ASSUME NEW a \in Nat, NEW hd \in Nat, NEW hr \in Nat, HeadingsInv(a, hd, hr), ~IsHeading(a),
           Chosen(request) = "rows" /\ hr = 0 => ~(units[a].kind = "text" /\ units[a].len <= limit)
    PROVE  HeadingsInv(a + 1, hd, hr)
<1> DEFINE b == a + 1
<1>1. /\ hd < a /\ hr < a
      /\ hd # 0 => IsHeading(hd)
      /\ hr # 0 => HeaderRow(hr) /\ hd < hr
      /\ \A i \in hd + 1..a - 1 : ~IsHeading(i)
      /\ Chosen(request) = "rows" /\ hr = 0 =>
            \A i \in hd + 1..a - 1 : ~(units[i].kind = "text" /\ units[i].len <= limit)
  BY DEF HeadingsInv
<1>2. hd < b /\ hr < b /\ \A i \in hd + 1..b - 1 : i \in hd + 1..a - 1 \/ i = a
  BY <1>1
<1> HIDE DEF b
<1>3. \A i \in hd + 1..b - 1 : ~IsHeading(i)
  BY <1>1, <1>2
<1>4. Chosen(request) = "rows" /\ hr = 0 =>
        \A i \in hd + 1..b - 1 : ~(units[i].kind = "text" /\ units[i].len <= limit)
  BY <1>1, <1>2
<1>5. HeadingsInv(b, hd, hr)
  BY <1>1, <1>2, <1>3, <1>4 DEF HeadingsInv
<1> QED
  BY <1>5 DEF b

(* A heading closes the group, unless it follows another that is still alone. *)
LEMMA AddHeadingKeeps == SplitInv /\ AddHeading => SplitInv'
<1> SUFFICES ASSUME SplitInv, AddHeading
             PROVE  SplitInv'
  OBVIOUS
<1>1. /\ TakesLines /\ IsHeading(at) /\ pieces' = Flushed /\ heading' = at /\ header' = 0
      /\ group' = <<at>> /\ size' = units[at].len /\ hasContext' = TRUE /\ at' = at + 1
      /\ UNCHANGED textVars /\ UNCHANGED <<splitter, open>>
  BY DEF AddHeading
<1>2. /\ TextOK /\ units \in Seq(UnitShape) /\ Run(group) /\ PiecesOK(pieces)
      /\ Chosen(request) \in Table /\ at \in 1..Len(units) /\ at + 1 \in 1..Len(units) + 1
      /\ RowInv(at, group, size, hasContext, heading, header, pieces)
      /\ heading \in 0..Len(units) /\ header \in 0..Len(units) /\ units[at].len \in Nat
      /\ \A i \in 1..at : i \in 1..at - 1 \/ i = at
      /\ Len(units) \in Nat
  BY <1>1, RowStateIs
<1>3. /\ PiecesOK(Flushed) /\ Behind(Flushed, <<>>, at)
      /\ \A i : Keeps(pieces, i) \/ i \in Members(group) => Keeps(Flushed, i)
  BY <1>2, FlushedKeeps
<1> DEFINE g == <<at>>
           ps == Flushed
<1>4. /\ Run(g) /\ g # <<>> /\ Len(g) = 1 /\ First(g) = at /\ Latest(g) = at
      /\ Members(g) = {at} /\ JoinedLength(g) = units[at].len
  BY <1>2, SingleRun
<1> HIDE DEF g, ps
<1>5. units[at].kind # "blank"
  BY <1>1 DEF IsHeading, Headings
<1>6. /\ Latest(g) < at + 1 /\ \A i \in First(g)..(at + 1) - 1 : i \in Members(g) \/ units[i].kind = "blank"
      /\ \A i \in Members(g) : units[i].kind # "blank"
      /\ JoinedLength(g) <= units[at].len
      /\ RowsFit(g, TRUE, at, 0)
  <2>1. \A i \in at..(at + 1) - 1 : i = at
    BY <1>2
  <2>2. at < at + 1
    BY <1>2
  <2> QED
    BY <1>1, <1>2, <1>4, <1>5, <2>1, <2>2 DEF RowsFit
<1>7. HeadingsInv(at + 1, at, 0)
  <2>1. at < at + 1 /\ 0 < at + 1 /\ \A i \in at + 1..(at + 1) - 1 : FALSE
    BY <1>2
  <2> QED
    BY <1>1, <2>1 DEF HeadingsInv
<1>8. \A i \in 1..(at + 1) - 1 : Exempt(i) \/ i \in Members(g) \/ Keeps(ps, i)
  <2>1. \A i \in 1..at - 1 : Exempt(i) \/ i \in Members(group) \/ Keeps(pieces, i)
    BY <1>2 DEF RowInv
  <2>2. (at + 1) - 1 = at
    BY <1>2
  <2> QED
    BY <1>2, <1>3, <1>4, <2>1, <2>2 DEF ps
<1>9. Behind(ps, g, at + 1)
  <2>1. \A i \in 1..Len(units) : i \in {at} \/ i >= at + 1 => i >= at
    BY <1>2
  <2> QED
    BY <1>3, <1>4, <2>1 DEF Behind, ps
<1>12. Chosen(request) \in {"rows", "sections"} /\ at + 1 \in 1..Len(units) + 1
  BY <1>2 DEF Table
<1>10. RowInv(at + 1, g, units[at].len, TRUE, at, 0, ps)
  BY <1>6, <1>7, <1>8, <1>9, <1>12 DEF RowInv
<1>11. /\ at \in 0..Len(units) /\ 0 \in 0..Len(units)
  BY <1>2
<1> QED
  BY <1>1, <1>2, <1>3, <1>4, <1>10, <1>11, RowStep DEF g, ps

(* A blank line loses nothing. *)
LEMMA AddBlankLineKeeps == SplitInv /\ AddBlankLine => SplitInv'
<1> SUFFICES ASSUME SplitInv, AddBlankLine
             PROVE  SplitInv'
  OBVIOUS
<1>1. /\ TakesLines /\ units[at].kind = "blank" /\ at' = at + 1
      /\ UNCHANGED textVars
      /\ UNCHANGED <<splitter, group, size, hasContext, heading, header, open, pieces>>
  BY DEF AddBlankLine
<1>2. /\ TextOK /\ units \in Seq(UnitShape) /\ Run(group) /\ PiecesOK(pieces)
      /\ Chosen(request) \in Table /\ at \in 1..Len(units) /\ at + 1 \in 1..Len(units) + 1
      /\ RowInv(at, group, size, hasContext, heading, header, pieces)
      /\ heading \in 0..Len(units) /\ header \in 0..Len(units)
      /\ \A i \in 1..at : i \in 1..at - 1 \/ i = at
      /\ size \in Nat /\ hasContext \in BOOLEAN /\ Len(units) \in Nat
      /\ group # <<>> => First(group) \in 1..Len(units) /\ Latest(group) < at
  BY <1>1, RowStateIs
<1>3. group # <<>> => Latest(group) \in 1..Len(units)
  BY <1>2, RunEnds
<1>4. group # <<>> => /\ Latest(group) < at + 1
                      /\ \A i \in First(group)..(at + 1) - 1 : i \in Members(group) \/ units[i].kind = "blank"
                      /\ \A i \in Members(group) : units[i].kind # "blank"
                      /\ JoinedLength(group) <= size /\ RowsFit(group, hasContext, heading, header)
  <2> SUFFICES ASSUME group # <<>>
               PROVE  /\ Latest(group) < at + 1
                      /\ \A i \in First(group)..(at + 1) - 1 : i \in Members(group) \/ units[i].kind = "blank"
                      /\ \A i \in Members(group) : units[i].kind # "blank"
                      /\ JoinedLength(group) <= size /\ RowsFit(group, hasContext, heading, header)
    OBVIOUS
  <2>1. /\ \A i \in First(group)..at - 1 : i \in Members(group) \/ units[i].kind = "blank"
        /\ \A i \in Members(group) : units[i].kind # "blank"
        /\ JoinedLength(group) <= size /\ RowsFit(group, hasContext, heading, header)
    BY <1>2 DEF RowInv
  <2>2. \A i \in First(group)..(at + 1) - 1 : i \in First(group)..at - 1 \/ i = at
    BY <1>2
  <2>3. Latest(group) < at + 1
    BY <1>2, <1>3
  <2> QED
    BY <1>1, <2>1, <2>2, <2>3
<1>5. HeadingsInv(at + 1, heading, header)
  <2>1. HeadingsInv(at, heading, header)
    BY <1>2 DEF RowInv
  <2>2. ~IsHeading(at) /\ units[at].kind # "text" /\ at \in Nat /\ heading \in Nat /\ header \in Nat
    BY <1>1, <1>2 DEF IsHeading, Headings
  <2> QED
    BY <2>1, <2>2, HeadingsGoOn
<1>6. \A i \in 1..(at + 1) - 1 : Exempt(i) \/ i \in Members(group) \/ Keeps(pieces, i)
  <2>1. \A i \in 1..at - 1 : Exempt(i) \/ i \in Members(group) \/ Keeps(pieces, i)
    BY <1>2 DEF RowInv
  <2>2. Exempt(at) /\ (at + 1) - 1 = at
    BY <1>1, <1>2 DEF Exempt
  <2> QED
    BY <1>2, <2>1, <2>2
<1>7. Behind(pieces, group, at + 1)
  <2>1. \A i \in 1..Len(units) : i >= at + 1 => i >= at
    BY <1>2
  <2> QED
    BY <1>2, <2>1 DEF Behind, RowInv
<1>8. RowInv(at + 1, group, size, hasContext, heading, header, pieces)
  BY <1>2, <1>4, <1>5, <1>6, <1>7 DEF RowInv
<1> QED
  BY <1>1, <1>2, <1>8, RowStep

(* What stands alone in front of an oversized row is its context.          *)
LEMMA OrphanIsContext ==
    ASSUME SplitInv, TakesLines, units[at].kind = "text", units[at].len > limit, IsOrphan
    PROVE  \A i \in Members(group) : Exempt(i)
<1>1. /\ TextOK /\ units \in Seq(UnitShape) /\ Run(group) /\ Chosen(request) \in Table
      /\ splitter = Chosen(request) /\ at \in 1..Len(units)
      /\ RowInv(at, group, size, hasContext, heading, header, pieces)
      /\ heading \in 0..Len(units) /\ header \in 0..Len(units) /\ Len(units) \in Nat
      /\ \A i \in Members(group) : i \in 1..at - 1
  BY RowStateIs
<1>2. group # <<>> /\ HeadingsInv(at, heading, header)
      /\ \A i \in First(group)..at - 1 : i \in Members(group) \/ units[i].kind = "blank"
  BY <1>1 DEF IsOrphan, RowInv
<1>3. /\ Members(group) \subseteq {heading, header}
      /\ Chosen(request) # "rows" => Members(group) = {heading}
  BY <1>1 DEF IsOrphan
<1>4. /\ heading # 0 => IsHeading(heading)
      /\ header # 0 => HeaderRow(header) /\ heading < header
  BY <1>2 DEF HeadingsInv
<1>5. First(group) \in 1..Len(units) /\ \A i \in Members(group) : First(group) <= i
  BY <1>1, <1>2, RunEnds
<1> SUFFICES ASSUME NEW i \in Members(group)
             PROVE  Exempt(i)
  OBVIOUS
<1>6. i \in 1..at - 1 /\ i # 0 /\ i \in {heading, header}
  BY <1>1, <1>3
<1>7. IsHeading(i) \/ HeaderRow(i)
  BY <1>4, <1>6
<1>8. ASSUME NEW m \in i + 1..at - 1
      PROVE  units[m].kind = "blank" \/ HeaderRow(m)
  <2>1. m \in First(group)..at - 1 /\ i < m /\ m # 0
    BY <1>1, <1>5, <1>6
  <2>2. CASE m \in Members(group)
    <3>1. m \in {heading, header}
      BY <1>3, <2>2
    <3>2. m # heading
      <4>1. CASE Chosen(request) # "rows"
        <5>1. i = heading
          BY <1>3, <4>1
        <5> QED
          BY <1>1, <2>1, <5>1
      <4>2. CASE m = heading
        <5>1. i = header
          BY <1>1, <1>6, <2>1, <4>2
        <5>2. heading < header
          BY <1>4, <1>6, <5>1
        <5> QED
          BY <1>1, <2>1, <4>2, <5>1, <5>2
      <4> QED
        BY <4>2
    <3> QED
      BY <1>4, <2>1, <3>1, <3>2
  <2> QED
    BY <1>2, <2>1, <2>2
<1>9. at \in i + 1..Len(units)
  BY <1>1, <1>6
<1>10. ContextOnly(i)
  BY <1>7, <1>8, <1>9 DEF ContextOnly
<1> QED
  BY <1>1, <1>10 DEF Exempt, Table

(* An oversized line is sliced, and what preceded it alone is in its context. *)
LEMMA AddOversizedLineKeeps == SplitInv /\ AddOversizedLine => SplitInv'
<1> SUFFICES ASSUME SplitInv, AddOversizedLine
             PROVE  SplitInv'
  OBVIOUS
<1> DEFINE ps == IF IsOrphan THEN pieces ELSE Flushed
           qs == Slices(at)
           rs == ps \o qs
<1>1. /\ TakesLines /\ units[at].kind = "text" /\ units[at].len > limit
      /\ pieces' = rs /\ group' = <<>> /\ size' = 0 /\ hasContext' = FALSE /\ at' = at + 1
      /\ UNCHANGED textVars /\ UNCHANGED <<splitter, open>> /\ UNCHANGED <<heading, header>>
  BY DEF AddOversizedLine
<1>2. /\ TextOK /\ units \in Seq(UnitShape) /\ Run(group) /\ PiecesOK(pieces)
      /\ Chosen(request) \in Table /\ at \in 1..Len(units) /\ at + 1 \in 1..Len(units) + 1
      /\ RowInv(at, group, size, hasContext, heading, header, pieces)
      /\ heading \in 0..Len(units) /\ header \in 0..Len(units) /\ units[at].len \in Nat
      /\ limit \in Nat
      /\ \A i \in 1..at : i \in 1..at - 1 \/ i = at
      /\ Len(units) \in Nat
  BY <1>1, RowStateIs
<1>3. /\ PiecesOK(ps) /\ Behind(ps, <<>>, at)
      /\ \A i \in 1..at - 1 : Exempt(i) \/ Keeps(ps, i)
  <2>1. \A i \in 1..at - 1 : Exempt(i) \/ i \in Members(group) \/ Keeps(pieces, i)
    BY <1>2 DEF RowInv
  <2>2. CASE IsOrphan
    <3>1. \A i \in Members(group) : Exempt(i)
      BY <1>1, <2>2, OrphanIsContext
    <3>2. Members(<<>>) = {}
      BY DEF Members
    <3>3. Behind(pieces, <<>>, at)
      BY <1>2, <3>2 DEF Behind, RowInv
    <3> QED
      BY <1>2, <2>1, <2>2, <3>1, <3>3
  <2>3. CASE ~IsOrphan
    <3>1. /\ PiecesOK(Flushed) /\ Behind(Flushed, <<>>, at)
          /\ \A i : Keeps(pieces, i) \/ i \in Members(group) => Keeps(Flushed, i)
      BY <1>2, FlushedKeeps
    <3> QED
      BY <2>1, <2>3, <3>1
  <2> QED
    BY <2>2, <2>3
<1> HIDE DEF ps
<1>4. /\ qs # <<>> /\ PiecesOK(qs) /\ Keeps(qs, at)
      /\ qs[1].from = UnitStart(at) /\ qs[Len(qs)].to = UnitEnd(at)
  <2>1. ContextLength \in Nat
    <3>1. ContextLength = ContextOf(heading, header)
      BY DEF ContextLength, ContextOf
    <3> QED
      BY <1>2, <3>1, ContextIs
  <2> QED
    BY <1>1, <1>2, <2>1, SlicesKeep
<1> HIDE DEF qs
<1>5. UnitStart(at) \in Nat /\ UnitEnd(at) \in Nat /\ UnitEnd(at) = UnitStart(at) + units[at].len
  BY <1>2, UnitPlaces
<1>6. ps # <<>> => Follows(ps[Len(ps)], qs[1])
  <2> SUFFICES ASSUME ps # <<>>
               PROVE  Follows(ps[Len(ps)], qs[1])
    OBVIOUS
  <2>1. ps[Len(ps)].to <= UnitStart(at)
    <3>1. at >= at
      BY <1>2
    <3> QED
      BY <1>2, <1>3, <3>1 DEF Behind
  <2>2. /\ ps[Len(ps)].from \in Nat /\ ps[Len(ps)].to \in Nat /\ ps[Len(ps)].from < ps[Len(ps)].to
    BY <1>3, PiecesAre
  <2>3. 1 \in 1..Len(qs)
    BY <1>4, PiecesAre
  <2>4. qs[1].to \in Nat /\ qs[1].from < qs[1].to
    BY <1>4, <2>3, PiecesAre
  <2> QED
    BY <1>4, <1>5, <2>1, <2>2, <2>4 DEF Follows
<1>7. /\ PiecesOK(rs)
      /\ \A i : Keeps(ps, i) \/ Keeps(qs, i) => Keeps(rs, i)
      /\ rs # <<>> => rs[Len(rs)] = qs[Len(qs)]
  BY <1>3, <1>4, <1>6, JoinKeeps
<1> HIDE DEF rs
<1>8. Run(<<>>) /\ Members(<<>>) = {}
  BY <1>2, NoRun DEF Members
<1>9. HeadingsInv(at + 1, heading, header)
  <2>1. HeadingsInv(at, heading, header)
    BY <1>2 DEF RowInv
  <2>2. /\ ~IsHeading(at) /\ ~(units[at].len <= limit)
        /\ at \in Nat /\ heading \in Nat /\ header \in Nat
    BY <1>1, <1>2 DEF IsHeading, Headings
  <2> QED
    BY <2>1, <2>2, HeadingsGoOn
<1>10. \A i \in 1..(at + 1) - 1 : Exempt(i) \/ Keeps(rs, i)
  <2>1. (at + 1) - 1 = at
    BY <1>2
  <2> QED
    BY <1>2, <1>3, <1>4, <1>7, <2>1
<1>11. Behind(rs, <<>>, at + 1)
  <2>1. ASSUME NEW i \in 1..Len(units), i >= at + 1
        PROVE  UnitEnd(at) <= UnitStart(i)
    <3>1. at < i
      BY <1>2, <2>1
    <3>2. UnitEnd(at) + Separator <= UnitStart(i) /\ UnitStart(i) \in Nat
      BY <1>2, <3>1, UnitsApart, UnitPlaces
    <3> QED
      BY <1>5, <3>2, SeparatorIs
  <2> QED
    BY <1>4, <1>7, <1>8, <2>1 DEF Behind
<1>12. RowInv(at + 1, <<>>, 0, FALSE, heading, header, rs)
  BY <1>2, <1>8, <1>9, <1>10, <1>11 DEF RowInv
<1> QED
  BY <1>1, <1>2, <1>7, <1>8, <1>12, RowStep

(* A line that is put into the group leaves room for the context. *)
LEMMA LineFits ==
    ASSUME TextOK, Chosen(request) \in Table, Run(group), group # <<>>, size \in Nat,
           at \in 1..Len(units), Latest(group) < at, units[at].kind = "text",
           heading \in 0..Len(units), header \in 0..Len(units),
           JoinedLength(group) <= size, size + (units[at].len + 1) <= PackCap,
           NEW hc \in BOOLEAN, hasContext => hc, NEW hr, hc \/ hr = header
    PROVE  /\ JoinedLength(Append(group, at)) <= size + (units[at].len + 1)
           /\ RowsFit(Append(group, at), hc, heading, hr)
<1> DEFINE g == Append(group, at)
           row == units[at].len + 1
           C == ContextLength
<1>1. units \in Seq(UnitShape) /\ limit \in Nat \ {0} /\ Separator = 1
  BY TableIs DEF TextOK
<1>2. units[at].len \in Nat /\ units[at] \in UnitShape
  BY <1>1, UnitLengths
<1>3. units[at].len # 0
  BY <1>2 DEF UnitShape
<1>4. JoinedLength(g) = JoinedLength(group) + Separator + units[at].len
  BY <1>1, JoinedGrows
<1>5. JoinedLength(group) \in Nat
  BY <1>1, JoinedIs
<1>6. row \in Nat /\ row >= 2 /\ JoinedLength(g) \in Nat /\ JoinedLength(g) <= size + row
  <2> DEFINE len == units[at].len
             before == JoinedLength(group)
  <2>1. /\ len \in Nat /\ len # 0 /\ before \in Nat /\ before <= size /\ size \in Nat
        /\ JoinedLength(g) = before + 1 + len /\ row = len + 1
    BY <1>1, <1>2, <1>3, <1>4, <1>5
  <2> HIDE DEF len, before, row
  <2> QED
    BY <2>1
<1>7. C = ContextOf(heading, header) /\ C \in Nat
  <2>1. C = ContextOf(heading, header)
    BY DEF ContextLength, ContextOf
  <2> QED
    BY <2>1, ContextIs
<1>8. PackCap = IF hasContext \/ C = 0 THEN limit ELSE IF limit > C + 2 THEN limit - C - 2 ELSE 1
  BY DEF PackCap
<1>9. size + row <= PackCap
  OBVIOUS
<1> HIDE DEF row, C, g
<1>10. CASE hc
  <2>1. ContextIn(hc, heading, hr) = 0
    BY <1>10 DEF ContextIn
  <2>2. PackCap <= limit /\ PackCap \in Nat
    BY <1>1, <1>7, <1>8
  <2>3. 0 + JoinedLength(g) <= limit
    BY <1>1, <1>6, <1>9, <2>2
  <2>4. RowsFit(g, hc, heading, hr)
    BY <2>1, <2>3 DEF RowsFit
  <2> QED
    BY <1>6, <2>4 DEF g, row
<1>11. CASE ~hc
  <2>1. hr = header /\ ~hasContext
    BY <1>11
  <2>2. ContextIn(hc, heading, hr) = IF C = 0 THEN 0 ELSE C + 2
    BY <1>7, <1>11, <2>1 DEF ContextIn
  <2>3. (IF C = 0 THEN 0 ELSE C + 2) + JoinedLength(g) <= limit
    <3>1. CASE C = 0
      <4>1. PackCap = limit
        BY <1>8, <3>1
      <4> QED
        BY <1>1, <1>6, <1>9, <3>1, <4>1
    <3>2. CASE C # 0 /\ limit > C + 2
      <4>1. PackCap = limit - C - 2
        BY <1>8, <2>1, <3>2
      <4> DEFINE joined == JoinedLength(g)
      <4>2. joined \in Nat /\ joined <= size + row /\ size + row <= limit - C - 2
        BY <1>6, <1>9, <4>1
      <4> HIDE DEF joined
      <4>3. C + 2 + joined <= limit
        BY <1>1, <1>6, <1>7, <4>2
      <4> QED
        BY <3>2, <4>3 DEF joined
    <3>3. CASE C # 0 /\ ~(limit > C + 2)
      <4>1. PackCap = 1
        BY <1>8, <2>1, <3>3
      <4> QED
        BY <1>6, <1>9, <4>1
    <3> QED
      BY <3>1, <3>2, <3>3
  <2>4. RowsFit(g, hc, heading, hr)
    BY <2>2, <2>3 DEF RowsFit
  <2> QED
    BY <1>6, <2>4 DEF g, row
<1> QED
  BY <1>10, <1>11

(* The first row of a table is its header. *)
LEMMA FirstIsHeader ==
    ASSUME HeadingsInv(at, heading, header), at \in 1..Len(units), Len(units) \in Nat,
           heading \in 0..Len(units), header \in 0..Len(units),
           units[at].kind = "text", units[at].len <= limit
    PROVE  LET hr == IF Chosen(request) = "rows" /\ header = 0 THEN at ELSE header
           IN HeadingsInv(at + 1, heading, hr)
<1> DEFINE first == Chosen(request) = "rows" /\ header = 0
           hr == IF first THEN at ELSE header
<1>1. /\ heading < at /\ header < at
      /\ heading # 0 => IsHeading(heading)
      /\ header # 0 => HeaderRow(header) /\ heading < header
      /\ \A i \in heading + 1..at - 1 : ~IsHeading(i)
      /\ first => \A i \in heading + 1..at - 1 : ~(units[i].kind = "text" /\ units[i].len <= limit)
  BY DEF HeadingsInv
<1>2. ~IsHeading(at) /\ at # 0 /\ at \in Nat /\ heading \in Nat /\ header \in Nat
  BY DEF IsHeading, Headings
<1>3. first => HeaderRow(at)
  <2> SUFFICES ASSUME first, NEW j \in 1..at - 1, units[j].kind = "text", units[j].len <= limit
               PROVE  \E m \in j..at : IsHeading(m)
    BY DEF HeaderRow
  <2>1. ~(j \in heading + 1..at - 1)
    BY <1>1
  <2>2. j <= heading /\ heading # 0 /\ heading \in j..at
    BY <1>1, <1>2, <2>1
  <2> QED
    BY <1>1, <2>2
<1> DEFINE b == at + 1
<1>4. heading < b /\ hr < b /\ \A i \in heading + 1..b - 1 : i \in heading + 1..at - 1 \/ i = at
  BY <1>1, <1>2
<1> HIDE DEF b
<1>5. hr # 0 => HeaderRow(hr) /\ heading < hr
  BY <1>1, <1>2, <1>3
<1>6. ~(Chosen(request) = "rows" /\ hr = 0)
  BY <1>2
<1> HIDE DEF hr
<1>7. HeadingsInv(b, heading, hr)
  BY <1>1, <1>2, <1>4, <1>5, <1>6 DEF HeadingsInv
<1> QED
  BY <1>7 DEF b, hr, first

(* One line more fits, or closes the group and starts another. *)
LEMMA AddLineKeeps == SplitInv /\ AddLine => SplitInv'
<1> SUFFICES ASSUME SplitInv, AddLine
             PROVE  SplitInv'
  OBVIOUS
<1> DEFINE first == splitter = "rows" /\ header = 0
           row == units[at].len + 1
           hr == IF first THEN at ELSE header
           full == group # <<>> /\ size + row > PackCap
           ps == IF full THEN Flushed ELSE pieces
           g == IF full THEN <<at>> ELSE Append(group, at)
           sz == IF full THEN row ELSE size + row
           hc == first \/ (hasContext /\ ~full)
           b == at + 1
<1>1. /\ TakesLines /\ units[at].kind = "text" /\ units[at].len <= limit
      /\ header' = hr /\ pieces' = ps /\ group' = g /\ size' = sz /\ hasContext' = hc
      /\ at' = b
      /\ UNCHANGED textVars /\ UNCHANGED <<splitter, open>> /\ UNCHANGED heading
  BY DEF AddLine
<1>2. /\ TextOK /\ units \in Seq(UnitShape) /\ Run(group) /\ PiecesOK(pieces)
      /\ Chosen(request) \in Table /\ at \in 1..Len(units) /\ at + 1 \in 1..Len(units) + 1
      /\ heading \in 0..Len(units) /\ header \in 0..Len(units) /\ units[at].len \in Nat
      /\ limit \in Nat /\ size \in Nat /\ hasContext \in BOOLEAN
      /\ \A i \in 1..at : i \in 1..at - 1 \/ i = at
      /\ Len(units) \in Nat /\ splitter = Chosen(request)
      /\ group # <<>> => First(group) \in 1..Len(units) /\ Latest(group) < at
  BY <1>1, RowStateIs
<1>3. /\ group # <<>> => /\ \A i \in First(group)..at - 1 : i \in Members(group) \/ units[i].kind = "blank"
                         /\ \A i \in Members(group) : units[i].kind # "blank"
                         /\ JoinedLength(group) <= size
      /\ HeadingsInv(at, heading, header)
      /\ \A i \in 1..at - 1 : Exempt(i) \/ i \in Members(group) \/ Keeps(pieces, i)
      /\ Behind(pieces, group, at)
      /\ RowInv(at, group, size, hasContext, heading, header, pieces)
  BY <1>1, RowStateIs DEF RowInv
<1>4. b \in 1..Len(units) + 1 /\ b - 1 = at /\ at < b /\ at \in Nat /\ b \in Nat
  BY <1>2
<1> HIDE DEF b
<1>5. row \in Nat /\ units[at].len <= row
  BY <1>2
<1>6. HeadingsInv(b, heading, hr)
  <2>1. first <=> Chosen(request) = "rows" /\ header = 0
    BY <1>2
  <2>2. hr = IF Chosen(request) = "rows" /\ header = 0 THEN at ELSE header
    BY <2>1
  <2> HIDE DEF hr
  <2> QED
    BY <1>1, <1>2, <1>3, <2>2, FirstIsHeader DEF b
<1>7. hr \in 0..Len(units)
  BY <1>2
<1>8. hc \in BOOLEAN /\ (~full => (hasContext => hc) /\ (hc \/ hr = header))
  BY <1>2
<1> HIDE DEF row, hr, hc
<1>9. CASE full
  <2>1. ps = Flushed /\ g = <<at>> /\ sz = row
    BY <1>9
  <2>2. /\ PiecesOK(Flushed) /\ Behind(Flushed, <<>>, at)
        /\ \A i : Keeps(pieces, i) \/ i \in Members(group) => Keeps(Flushed, i)
    BY <1>2, <1>3, FlushedKeeps
  <2>3. /\ Run(<<at>>) /\ <<at>> # <<>> /\ Len(<<at>>) = 1 /\ First(<<at>>) = at
        /\ Latest(<<at>>) = at /\ Members(<<at>>) = {at} /\ JoinedLength(<<at>>) = units[at].len
    BY <1>2, SingleRun
  <2> HIDE DEF full, ps, g, sz
  <2>4. /\ Run(g) /\ g # <<>> /\ Len(g) = 1 /\ First(g) = at /\ Latest(g) = at
        /\ Members(g) = {at} /\ JoinedLength(g) = units[at].len
    BY <2>1, <2>3
  <2>5. /\ Latest(g) < b /\ \A i \in First(g)..b - 1 : i \in Members(g) \/ units[i].kind = "blank"
        /\ \A i \in Members(g) : units[i].kind # "blank"
        /\ JoinedLength(g) <= sz
        /\ RowsFit(g, hc, heading, hr)
    <3>1. \A i \in at..b - 1 : i = at
      BY <1>4
    <3>2. RowsFit(g, hc, heading, hr)
      BY <1>1, <2>4 DEF RowsFit
    <3> QED
      BY <1>1, <1>4, <1>5, <2>1, <2>4, <3>1, <3>2
  <2>6. \A i \in 1..b - 1 : Exempt(i) \/ i \in Members(g) \/ Keeps(ps, i)
    BY <1>2, <1>3, <1>4, <2>1, <2>2, <2>4
  <2>7. Behind(ps, g, b)
    <3>1. \A i \in 1..Len(units) : i \in {at} \/ i >= b => i >= at
      BY <1>4
    <3> QED
      BY <2>1, <2>2, <2>4, <3>1 DEF Behind
  <2>8. PiecesOK(ps) /\ sz \in Nat
    BY <1>5, <2>1, <2>2
  <2>9. Chosen(request) \in {"rows", "sections"}
    BY <1>2 DEF Table
  <2>10. RowInv(b, g, sz, hc, heading, hr, ps)
    BY <1>4, <1>6, <2>5, <2>6, <2>7, <2>9 DEF RowInv
  <2> QED
    BY <1>1, <1>2, <1>7, <1>8, <2>4, <2>8, <2>10, RowStep DEF b
<1>10. CASE ~full
  <2>1. ps = pieces /\ g = Append(group, at) /\ sz = size + row
    BY <1>10
  <2>2. group = <<>> \/ size + row <= PackCap
    <3>1. PackCap \in Int
      <4>1. ContextLength \in Nat
        <5>1. ContextLength = ContextOf(heading, header)
          BY DEF ContextLength, ContextOf
        <5> QED
          BY <1>2, <5>1, ContextIs
      <4> QED
        BY <1>2, <4>1 DEF PackCap
    <3> QED
      BY <1>2, <1>5, <1>10, <3>1
  <2>3. (hasContext => hc) /\ (hc \/ hr = header)
    BY <1>8, <1>10
  <2> HIDE DEF full, ps, g, sz
  <2>4. /\ Run(g) /\ g # <<>> /\ Latest(g) = at /\ Members(g) = Members(group) \cup {at}
        /\ First(g) = IF group = <<>> THEN at ELSE First(group)
    BY <1>2, <2>1, RunGrows
  <2>5. JoinedLength(g) <= sz /\ RowsFit(g, hc, heading, hr)
    <3>1. CASE group = <<>>
      <4>1. g = <<at>>
        BY <2>1, <3>1
      <4>2. Len(g) = 1 /\ First(g) = at /\ JoinedLength(g) = units[at].len
        BY <1>2, <4>1, SingleRun
      <4>3. RowsFit(g, hc, heading, hr)
        BY <1>1, <4>2 DEF RowsFit
      <4>4. JoinedLength(g) <= sz
        BY <1>2, <1>5, <2>1, <4>2
      <4> QED
        BY <4>3, <4>4
    <3>2. CASE group # <<>>
      <4>1. size + (units[at].len + 1) <= PackCap
        BY <2>2, <3>2 DEF row
      <4>2. /\ JoinedLength(Append(group, at)) <= size + (units[at].len + 1)
            /\ RowsFit(Append(group, at), hc, heading, hr)
        BY <1>1, <1>2, <1>3, <1>8, <2>3, <3>2, <4>1, LineFits
      <4> QED
        BY <2>1, <4>2 DEF row
    <3> QED
      BY <3>1, <3>2
  <2>6. \A i \in First(g)..b - 1 : i \in Members(g) \/ units[i].kind = "blank"
    <3>1. CASE group = <<>>
      <4>1. \A i \in at..b - 1 : i = at
        BY <1>4
      <4> QED
        BY <2>4, <3>1, <4>1
    <3>2. CASE group # <<>>
      <4>1. \A i \in First(group)..b - 1 : i \in First(group)..at - 1 \/ i = at
        BY <1>2, <1>4, <3>2
      <4> QED
        BY <1>3, <2>4, <3>2, <4>1
    <3> QED
      BY <3>1, <3>2
  <2>7. \A i \in Members(g) : units[i].kind # "blank"
    <3>1. group = <<>> => Members(group) = {}
      BY <1>2, RunEnds
    <3> QED
      BY <1>1, <1>3, <2>4, <3>1
  <2>8. \A i \in 1..b - 1 : Exempt(i) \/ i \in Members(g) \/ Keeps(ps, i)
    BY <1>2, <1>3, <1>4, <2>1, <2>4
  <2>9. Behind(ps, g, b)
    <3>1. \A i \in 1..Len(units) : i = at \/ i >= b => i >= at
      BY <1>4
    <3>2. \A i \in 1..Len(units) : i \in Members(g) \/ i >= b => i \in Members(group) \/ i >= at
      BY <2>4, <3>1
    <3> QED
      BY <1>3, <2>1, <3>2 DEF Behind
  <2>10. PiecesOK(ps) /\ sz \in Nat
    BY <1>2, <1>5, <2>1
  <2>11. Latest(g) < b
    BY <1>4, <2>4
  <2>12. Chosen(request) \in {"rows", "sections"}
    BY <1>2 DEF Table
  <2>13. RowInv(b, g, sz, hc, heading, hr, ps)
    BY <1>4, <1>6, <2>5, <2>6, <2>7, <2>8, <2>9, <2>11, <2>12 DEF RowInv
  <2> QED
    BY <1>1, <1>2, <1>7, <1>8, <2>4, <2>10, <2>13, RowStep DEF b
<1> QED
  BY <1>9, <1>10

-----------------------------------------------------------------------------
(* The sentences of a numbered section, cut into chunks one at a time.     *)

CutOK(c, t) ==
    /\ c \in Seq(1..Len(units)) /\ Run(c) /\ c # <<>> /\ SumLengths(Members(c)) # 0
    /\ Members(c) \subseteq Members(t)
CutBefore(c, d) == First(c) <= First(d) /\ Latest(c) < Latest(d)
CutsOK(cs, t) ==
    /\ cs \in Seq(Seq(1..Len(units)))
    /\ \A k \in 1..Len(cs) : CutOK(cs[k], t)
    /\ \A k \in 2..Len(cs) : CutBefore(cs[k - 1], cs[k])
InCuts(cs, i) == \E k \in 1..Len(cs) : i \in Members(cs[k])

(* One cut more, behind the last one. *)
LEMMA CutsGrow ==
    ASSUME NEW cs, NEW t, CutsOK(cs, t), NEW c, CutOK(c, t),
           cs # <<>> => CutBefore(cs[Len(cs)], c)
    PROVE  /\ CutsOK(Append(cs, c), t) /\ Append(cs, c) # <<>>
           /\ Append(cs, c)[Len(Append(cs, c))] = c
           /\ \A i : InCuts(cs, i) \/ i \in Members(c) => InCuts(Append(cs, c), i)
<1> DEFINE N == Len(cs)
           ds == Append(cs, c)
           V == Seq(1..Len(units))
<1>1. /\ cs \in Seq(V) /\ c \in V
      /\ \A k \in 1..N : CutOK(cs[k], t)
      /\ \A k \in 2..N : CutBefore(cs[k - 1], cs[k])
  BY DEF CutsOK, CutOK
<1> HIDE DEF V
<1>2. N \in Nat /\ (cs = <<>> <=> N = 0)
  BY <1>1
<1>3. /\ ds \in Seq(V) /\ Len(ds) = N + 1 /\ ds # <<>>
      /\ \A k \in 1..N : ds[k] = cs[k]
      /\ ds[N + 1] = c
  BY <1>1, AppendProperties
<1> HIDE DEF ds, N
<1>4. \A k \in 1..N + 1 : k \in 1..N \/ k = N + 1
  BY <1>2
<1>5. \A k \in 1..N + 1 : CutOK(ds[k], t)
  BY <1>1, <1>3, <1>4
<1>6. ASSUME NEW k \in 2..N + 1
      PROVE  CutBefore(ds[k - 1], ds[k])
  <2>1. CASE k <= N
    <3>1. k \in 2..N /\ k \in 1..N /\ k - 1 \in 1..N
      BY <1>2, <2>1
    <3> QED
      BY <1>1, <1>3, <3>1
  <2>2. CASE k = N + 1
    <3>1. N \in 1..N /\ k - 1 = N /\ cs # <<>>
      BY <1>2, <2>2
    <3> QED
      BY <1>3, <2>2, <3>1 DEF N
  <2> QED
    BY <1>2, <2>1, <2>2
<1>7. CutsOK(ds, t)
  BY <1>3, <1>5, <1>6 DEF CutsOK, V
<1>8. \A i : InCuts(cs, i) \/ i \in Members(c) => InCuts(ds, i)
  <2>1. \A k \in 1..N : k \in 1..N + 1
    BY <1>2
  <2>2. N + 1 \in 1..N + 1
    BY <1>2
  <2> QED
    BY <1>3, <2>1, <2>2 DEF InCuts, N
<1> QED
  BY <1>3, <1>7, <1>8 DEF ds

Accs == [closed : Seq(Seq(1..Len(units))), open : Seq(1..Len(units))]
FoldInv(acc, n, t) ==
    /\ acc \in Accs /\ CutsOK(acc.closed, t) /\ Run(acc.open) /\ Members(acc.open) \subseteq Members(t)
    /\ n # 0 => acc.open # <<>> /\ Latest(acc.open) = t[n]
    /\ n = 0 => acc.open = <<>>
    /\ acc.closed # <<>> => acc.open # <<>> /\ CutBefore(acc.closed[Len(acc.closed)], acc.open)
    /\ \A a \in 1..n : units[t[a]].kind = "blank" \/ t[a] \in Members(acc.open) \/ InCuts(acc.closed, t[a])

(* Taking the sentences one by one keeps what FoldInv says. *)
LEMMA FoldTakes ==
    ASSUME units \in Seq(UnitShape), NEW t, Run(t), NEW n \in 1..Len(t),
           NEW acc, FoldInv(acc, n - 1, t), NEW room \in Nat, NEW carry \in Nat
    PROVE  FoldInv(Take(acc, t[n], room, carry), n, t)
<1> DEFINE next == Take(acc, t[n], room, carry)
           i == t[n]
           o == acc.open
           p == next.open
<1>1. Len(units) \in Nat /\ Len(t) \in Nat /\ t \in Seq(1..Len(units)) /\ n \in Nat
      /\ \A a, b \in 1..Len(t) : a < b => t[a] < t[b]
  BY UnitLengths DEF Run
<1>2. i \in 1..Len(units) /\ i \in Members(t)
  <2>1. DOMAIN t = 1..Len(t)
    BY <1>1
  <2> QED
    BY <1>1, <2>1, ElementOfSeq DEF Members
<1>3. /\ acc \in Accs /\ CutsOK(acc.closed, t) /\ Run(o) /\ Members(o) \subseteq Members(t)
      /\ n - 1 # 0 => o # <<>> /\ Latest(o) = t[n - 1]
      /\ n - 1 = 0 => o = <<>>
      /\ acc.closed # <<>> => o # <<>> /\ CutBefore(acc.closed[Len(acc.closed)], o)
      /\ \A a \in 1..n - 1 : units[t[a]].kind = "blank" \/ t[a] \in Members(o) \/ InCuts(acc.closed, t[a])
  BY DEF FoldInv
<1>4. o # <<>> => Latest(o) < i
  <2> SUFFICES ASSUME o # <<>>
               PROVE  Latest(o) < i
    OBVIOUS
  <2>1. n - 1 \in 1..Len(t) /\ n - 1 < n
    BY <1>1, <1>3
  <2>2. t[n - 1] < t[n]
    BY <1>1, <2>1
  <2> QED
    BY <1>3, <2>1, <2>2
<1>5. TakesOne(acc, next, i, room, carry)
  BY <1>2, <1>3, <1>4, TakeIs
<1>6. next = [closed |-> next.closed, open |-> next.open]
  BY DEF Take
<1> HIDE DEF next, i
<1>7. /\ Run(p) /\ p # <<>> /\ Latest(p) = i /\ i \in Members(p)
      /\ Members(p) \subseteq Members(o) \cup {i}
      /\ o # <<>> => First(o) <= First(p)
      /\ \/ /\ next.closed = acc.closed
            /\ Members(o) \subseteq Members(p) \/ SumLengths(Members(o)) = 0
         \/ /\ next.closed = Append(acc.closed, o)
            /\ o # <<>> /\ SumLengths(Members(o)) # 0
  BY <1>5 DEF TakesOne
<1> HIDE DEF p
<1>8. p \in Seq(1..Len(units)) /\ o \in Seq(1..Len(units)) /\ Members(p) \subseteq Members(t)
  BY <1>2, <1>3, <1>7 DEF Run
<1>9. /\ o # <<>> => CutBefore(o, p) /\ First(o) \in Nat /\ Latest(o) \in Nat
      /\ First(p) \in Nat /\ Latest(p) \in Nat
  <2>1. o # <<>> => First(o) \in 1..Len(units) /\ Latest(o) \in 1..Len(units)
    BY <1>3, RunEnds
  <2>2. First(p) \in 1..Len(units) /\ Latest(p) \in 1..Len(units)
    BY <1>7, RunEnds
  <2> QED
    BY <1>1, <1>4, <1>7, <2>1, <2>2 DEF CutBefore
<1>10. \A a \in 1..n : a \in 1..n - 1 \/ a = n
  BY <1>1
<1>11. CASE /\ next.closed = acc.closed
            /\ Members(o) \subseteq Members(p) \/ SumLengths(Members(o)) = 0
  <2>1. acc.closed # <<>> => CutBefore(acc.closed[Len(acc.closed)], p)
    <3> SUFFICES ASSUME acc.closed # <<>>
                 PROVE  CutBefore(acc.closed[Len(acc.closed)], p)
      OBVIOUS
    <3> DEFINE c == acc.closed[Len(acc.closed)]
    <3>1. CutBefore(c, o) /\ o # <<>>
      BY <1>3
    <3>2. First(c) \in Nat /\ Latest(c) \in Nat
      <4>1. Len(acc.closed) \in 1..Len(acc.closed)
        BY <1>3 DEF CutsOK
      <4>2. CutOK(c, t)
        BY <1>3, <4>1 DEF CutsOK
      <4> HIDE DEF c
      <4>3. First(c) \in 1..Len(units) /\ Latest(c) \in 1..Len(units)
        BY <4>2, RunEnds DEF CutOK
      <4> QED
        BY <1>1, <4>3
    <3> HIDE DEF c
    <3>3. CutBefore(c, p)
      BY <1>9, <3>1, <3>2 DEF CutBefore
    <3> QED
      BY <3>3 DEF c
  <2>2. \A j \in Members(o) : units[j].kind = "blank" \/ j \in Members(p)
    <3> SUFFICES ASSUME NEW j \in Members(o), SumLengths(Members(o)) = 0
                 PROVE  units[j].kind = "blank"
      BY <1>11
    <3>1. j \in 1..Len(units)
      BY <1>3, RunEnds
    <3>2. units[j].len <= 0 /\ units[j].len \in Nat /\ units[j] \in UnitShape
      BY <3>1, SumsAre, UnitLengths
    <3> QED
      BY <3>2 DEF UnitShape
  <2>3. \A a \in 1..n : units[t[a]].kind = "blank" \/ t[a] \in Members(p) \/ InCuts(acc.closed, t[a])
    BY <1>3, <1>7, <1>10, <2>2 DEF i
  <2>4. next \in Accs
    BY <1>3, <1>6, <1>8, <1>11 DEF Accs, p
  <2>5. /\ CutsOK(next.closed, t)
        /\ next.closed # <<>> => CutBefore(next.closed[Len(next.closed)], p)
        /\ \A a \in 1..n : units[t[a]].kind = "blank" \/ t[a] \in Members(p) \/ InCuts(next.closed, t[a])
    BY <1>3, <1>11, <2>1, <2>3
  <2>6. n # 0
    BY <1>1
  <2>7. FoldInv(next, n, t)
    BY <1>7, <1>8, <2>4, <2>5, <2>6 DEF FoldInv, p, i
  <2> QED
    BY <2>7 DEF next, i
<1>12. CASE /\ next.closed = Append(acc.closed, o)
            /\ o # <<>> /\ SumLengths(Members(o)) # 0
  <2>1. CutOK(o, t)
    BY <1>3, <1>8, <1>12 DEF CutOK
  <2>2. /\ CutsOK(next.closed, t) /\ next.closed # <<>> /\ next.closed[Len(next.closed)] = o
        /\ \A j : InCuts(acc.closed, j) \/ j \in Members(o) => InCuts(next.closed, j)
    BY <1>3, <1>12, <2>1, CutsGrow
  <2>3. \A a \in 1..n : units[t[a]].kind = "blank" \/ t[a] \in Members(p) \/ InCuts(next.closed, t[a])
    BY <1>3, <1>7, <1>10, <2>2 DEF i
  <2>4. next \in Accs
    <3>1. next.closed \in Seq(Seq(1..Len(units))) /\ next.open \in Seq(1..Len(units))
      BY <1>8, <2>2 DEF CutsOK, p
    <3> QED
      BY <1>6, <3>1 DEF Accs
  <2>5. CutBefore(next.closed[Len(next.closed)], p)
    BY <1>9, <1>12, <2>2
  <2>6. n # 0
    BY <1>1
  <2>7. FoldInv(next, n, t)
    BY <1>7, <1>8, <2>2, <2>3, <2>4, <2>5, <2>6 DEF FoldInv, p, i
  <2> QED
    BY <2>7 DEF next, i
<1> QED
  BY <1>7, <1>11, <1>12

(* The cuts are in order, and every sentence with text is in one of them. *)
LEMMA CutsAre ==
    ASSUME units \in Seq(UnitShape), overlap \in Nat, NEW t, Run(t), NEW room \in Nat
    PROVE  /\ CutsOK(SentenceCuts(t, room), t)
           /\ \A i \in Members(t) : units[i].kind = "blank" \/ InCuts(SentenceCuts(t, room), i)
<1> DEFINE N == Len(t)
           first == [closed |-> <<>>, open |-> <<>>]
           After(s, n) == IF n = 0 THEN first ELSE Take(s[n - 1], t[n], room, overlap)
           Is(s) == s = [n \in 0..N |-> After(s, n)]
           K == CHOOSE s : Is(s)
           Inv(acc, n) == FoldInv(acc, n, t)
<1>1. SentenceCuts(t, room) = Shut(K[N])
  BY DEF SentenceCuts
<1>2. N \in Nat
  BY RunEnds
<1>3. Inv(first, 0)
  <2>1. <<>> \in Seq(1..Len(units)) /\ <<>> \in Seq(Seq(1..Len(units)))
    OBVIOUS
  <2>2. first \in Accs /\ first.open = <<>> /\ first.closed = <<>>
    BY <2>1 DEF Accs
  <2> HIDE DEF first
  <2>3. CutsOK(<<>>, t) /\ Run(<<>>) /\ Members(<<>>) \subseteq Members(t)
    BY <2>1, NoRun DEF CutsOK, Members
  <2> QED
    BY <2>2, <2>3 DEF FoldInv
<1>4. \A n \in 1..N : \A acc : Inv(acc, n - 1) => Inv(Take(acc, t[n], room, overlap), n)
  BY FoldTakes
<1>5. \A acc, n : Inv(acc, n) => acc \in Accs
  BY DEF FoldInv
<1> HIDE DEF N, first, Inv
<1>6. \E s : Is(s) /\ \A n \in 0..N : Inv(s[n], n)
  <2> DEFINE Step(n, acc) == LET next == Take(acc, t[n], room, overlap)
                             IN IF next \in Accs THEN next ELSE acc
             step == [q \in (1..N) \X Accs |-> Step(q[1], q[2])]
  <2>1. \A n, acc : acc \in Accs => Step(n, acc) \in Accs
    OBVIOUS
  <2>2. \A n, acc : Take(acc, t[n], room, overlap) \in Accs => Step(n, acc) = Take(acc, t[n], room, overlap)
    OBVIOUS
  <2> HIDE DEF Step
  <2>3. step \in [(1..N) \X Accs -> Accs]
    BY <2>1
  <2>4. \A n \in 1..N, acc \in Accs : step[<<n, acc>>] = Step(n, acc)
    OBVIOUS
  <2> HIDE DEF step
  <2>5. first \in Accs
    BY <1>3, <1>5
  <2>6. PICK s : FollowsSteps(s, N, Accs, first, step)
    BY <1>2, <2>3, <2>5, StepsDefine
  <2>7. /\ s \in [0..N -> Accs] /\ s[0] = first
        /\ \A n \in 1..N : s[n] = step[<<n, s[n - 1]>>]
    BY <2>6 DEF FollowsSteps
  <2>8. \A n \in 1..N : n - 1 \in 0..N /\ s[n] = Step(n, s[n - 1])
    <3>1. \A n \in 1..N : n - 1 \in 0..N
      BY <1>2
    <3> QED
      BY <2>4, <2>7, <3>1
  <2>9. \A n \in 1..N : Inv(s[n - 1], n - 1) =>
            s[n] = Take(s[n - 1], t[n], room, overlap) /\ Inv(s[n], n)
    <3> SUFFICES ASSUME NEW n \in 1..N, Inv(s[n - 1], n - 1)
                 PROVE  s[n] = Take(s[n - 1], t[n], room, overlap) /\ Inv(s[n], n)
      OBVIOUS
    <3> DEFINE next == Take(s[n - 1], t[n], room, overlap)
    <3>1. Inv(next, n) /\ next \in Accs
      BY <1>4, <1>5
    <3>2. Step(n, s[n - 1]) = next
      BY <2>2, <3>1
    <3> HIDE DEF next
    <3> QED
      BY <2>8, <3>1, <3>2 DEF next
  <2>10. \A n \in 0..N : Inv(s[n], n)
    <3> DEFINE T == {n \in 0..N : Inv(s[n], n)}
    <3>1. 0 \in T
      BY <1>2, <1>3, <2>7
    <3>2. \A n \in 1..N : n - 1 \in T => n \in T
      BY <1>2, <2>9
    <3>3. T \in SUBSET (0..N)
      OBVIOUS
    <3>4. \A n \in 0..N : n \in T
      <4> HIDE DEF T
      <4> QED
        BY <1>2, <3>1, <3>2, <3>3, UpTo
    <3> QED
      BY <3>4
  <2>11. ASSUME NEW n \in 0..N
         PROVE  s[n] = After(s, n)
    <3>1. CASE n = 0
      BY <2>7, <3>1
    <3>2. CASE n # 0
      <4>1. n \in 1..N /\ n - 1 \in 0..N
        BY <1>2, <3>2
      <4> QED
        BY <2>9, <2>10, <3>2, <4>1
    <3> QED
      BY <3>1, <3>2
  <2> HIDE DEF After
  <2>12. s = [n \in 0..N |-> s[n]]
    BY <2>7
  <2>13. Is(s)
    BY <2>11, <2>12
  <2> QED
    BY <2>10, <2>13
<1>7. Is(K)
  <2> HIDE DEF Is
  <2> QED
    BY <1>6
<1> HIDE DEF K
<1>8. K[0] = first /\ \A n \in 1..N : K[n] = Take(K[n - 1], t[n], room, overlap)
  <2> HIDE DEF After
  <2>1. \A n \in 0..N : K[n] = After(K, n)
    BY <1>7
  <2> USE DEF After
  <2>2. 0 \in 0..N /\ \A n \in 1..N : n \in 0..N /\ n # 0
    BY <1>2
  <2> QED
    BY <2>1, <2>2
<1> HIDE DEF Is, After
<1>9. Inv(K[N], N)
  <2> DEFINE T == {n \in 0..N : Inv(K[n], n)}
  <2>1. 0 \in T
    BY <1>2, <1>3, <1>8
  <2>2. \A n \in 1..N : n - 1 \in T => n \in T
    BY <1>2, <1>4, <1>8
  <2>3. T \in SUBSET (0..N)
    OBVIOUS
  <2>4. N \in T
    <3>1. N \in 0..N
      BY <1>2
    <3> HIDE DEF T
    <3> QED
      BY <1>2, <2>1, <2>2, <2>3, <3>1, UpTo
  <2> QED
    BY <2>4
<1> DEFINE acc == K[N]
           cs == Shut(acc)
<1>10. FoldInv(acc, N, t)
  BY <1>9 DEF Inv
<1> HIDE DEF acc
<1>11. /\ CutsOK(acc.closed, t) /\ Run(acc.open) /\ Members(acc.open) \subseteq Members(t)
       /\ acc.closed # <<>> => acc.open # <<>> /\ CutBefore(acc.closed[Len(acc.closed)], acc.open)
       /\ \A a \in 1..N : units[t[a]].kind = "blank" \/ t[a] \in Members(acc.open) \/ InCuts(acc.closed, t[a])
  BY <1>10 DEF FoldInv
<1>12. \A i \in Members(t) : units[i].kind = "blank" \/ i \in Members(acc.open) \/ InCuts(acc.closed, i)
  <2>1. Members(t) = {t[a] : a \in 1..N}
    BY RunEnds DEF Members, N
  <2> QED
    BY <1>11, <2>1
<1>13. CASE SumLengths(Members(acc.open)) = 0
  <2>1. cs = acc.closed
    BY <1>13 DEF Shut
  <2>2. \A i \in Members(acc.open) : units[i].kind = "blank"
    <3> SUFFICES ASSUME NEW i \in Members(acc.open)
                 PROVE  units[i].kind = "blank"
      OBVIOUS
    <3>1. i \in 1..Len(units)
      BY <1>11, RunEnds
    <3>2. units[i].len <= 0 /\ units[i].len \in Nat /\ units[i] \in UnitShape
      BY <1>13, <3>1, SumsAre, UnitLengths
    <3> QED
      BY <3>2 DEF UnitShape
  <2> HIDE DEF cs
  <2> QED
    BY <1>1, <1>11, <1>12, <2>1, <2>2 DEF cs, acc
<1>14. CASE SumLengths(Members(acc.open)) # 0
  <2>1. cs = Append(acc.closed, acc.open)
    BY <1>14 DEF Shut
  <2>2. acc.open # <<>>
    <3>1. acc.open = <<>> => Members(acc.open) = {}
      BY <1>11, RunEnds
    <3> QED
      BY <1>14, <3>1, SumOfNone
  <2>3. CutOK(acc.open, t)
    BY <1>11, <1>14, <2>2 DEF CutOK, Run
  <2>4. /\ CutsOK(cs, t)
        /\ \A i : InCuts(acc.closed, i) \/ i \in Members(acc.open) => InCuts(cs, i)
    BY <1>11, <2>1, <2>3, CutsGrow
  <2> HIDE DEF cs
  <2> QED
    BY <1>1, <1>12, <2>4 DEF cs, acc
<1> QED
  BY <1>13, <1>14

-----------------------------------------------------------------------------
(* The chunks of a numbered section.                                       *)

(* A part of a run is a run. *)
LEMMA RunPart ==
    ASSUME units \in Seq(UnitShape), NEW g, Run(g), NEW d \in Nat, NEW t \in Seq(1..Len(units)),
           Len(t) = Len(g) - d, \A a \in 1..Len(t) : t[a] = g[a + d]
    PROVE  /\ Run(t) /\ Members(t) \subseteq Members(g)
           /\ \A a \in 1..Len(g) : a > d => g[a] \in Members(t)
           /\ t # <<>> => First(t) = g[1 + d] /\ Latest(t) = Latest(g)
<1> DEFINE N == Len(g)
           M == Len(t)
<1>1. /\ N \in Nat /\ DOMAIN g = 1..N /\ \A a, b \in 1..N : a < b => g[a] < g[b]
  BY DEF Run
<1>2. M \in Nat /\ DOMAIN t = 1..M /\ M = N - d /\ \A a \in 1..M : t[a] = g[a + d]
  OBVIOUS
<1> HIDE DEF N, M
<1>3. \A a \in 1..M : a + d \in 1..N
  BY <1>1, <1>2
<1>4. \A a \in 1..N : a > d => a - d \in 1..M /\ (a - d) + d = a
  BY <1>1, <1>2
<1>5. Members(t) = {t[a] : a \in 1..M} /\ Members(g) = {g[a] : a \in 1..N}
  BY <1>1, <1>2 DEF Members
<1>6. Members(t) \subseteq Members(g)
  BY <1>2, <1>3, <1>5
<1>7. \A a \in 1..N : a > d => g[a] \in Members(t)
  <2> SUFFICES ASSUME NEW a \in 1..N, a > d
               PROVE  g[a] \in Members(t)
    OBVIOUS
  <2> DEFINE b == a - d
  <2>1. b \in 1..M /\ b + d = a
    BY <1>4
  <2> HIDE DEF b
  <2>2. t[b] = g[a]
    BY <1>2, <2>1
  <2> QED
    BY <1>5, <2>1, <2>2
<1>8. ASSUME NEW a \in 1..M, NEW b \in 1..M, a < b
      PROVE  t[a] < t[b]
  <2>1. a + d \in 1..N /\ b + d \in 1..N /\ a + d < b + d
    BY <1>3, <1>8
  <2> QED
    BY <1>1, <1>2, <2>1
<1>9. Run(t)
  BY <1>8 DEF Run, M
<1>10. ASSUME t # <<>>
       PROVE  First(t) = g[1 + d] /\ Latest(t) = Latest(g)
  <2>1. M # 0
    BY <1>10 DEF M
  <2>2. 1 \in 1..M /\ M \in 1..M /\ M + d = N
    BY <1>1, <1>2, <2>1
  <2>3. t[1] = g[1 + d] /\ t[M] = g[M + d]
    BY <1>2, <2>2
  <2> QED
    BY <2>2, <2>3 DEF First, Latest, N, M
<1> QED
  BY <1>6, <1>7, <1>9, <1>10 DEF N

(* A heading has one of three levels. *)
LEMMA LevelIs == \A i : IsHeading(i) => Level(i) \in 1..3
BY DEF IsHeading, Headings, Level

(* The headings that a closed section carries are those that enclose it.   *)
SectionParents ==
    IF IsHeading(group[1])
    THEN {open[l] : l \in {l \in DOMAIN open : l < Level(group[1]) /\ open[l] # 0}}
    ELSE {}

(* The open headings above that of a section are those that enclose it. *)
LEMMA ParentsAre ==
    ASSUME TextOK, Run(group), group # <<>>, open \in [1..3 -> 0..Len(units)],
           NumberedInv(at, group, open, pieces)
    PROVE  /\ SectionParents \in SUBSET (1..Len(units))
           /\ SumLengths(SectionParents) + Cardinality(SectionParents) \in Nat
           /\ \A S \in SUBSET Members(group) : (IsHeading(First(group)) => First(group) \in S) =>
                 SectionParents = {j \in DOMAIN units : \E i \in {i \in S : IsHeading(i)} : EnclosedBy(j, i)}
<1> DEFINE h == First(group)
           P == SectionParents
           N == Len(units)
<1>1. units \in Seq(UnitShape) /\ N \in Nat /\ DOMAIN units = 1..N
  BY UnitLengths DEF TextOK
<1>2. /\ at \in 1..N + 1 /\ Latest(group) = at - 1
      /\ \A i \in h + 1..at - 1 : ~IsHeading(i)
      /\ OpenInv(at, open)
  BY DEF NumberedInv
<1>3. /\ h \in 1..N /\ h \in Members(group) /\ h <= Latest(group)
      /\ \A i \in Members(group) : i \in 1..N /\ h <= i /\ i <= Latest(group)
  BY <1>1, RunEnds
<1>4. h < at /\ \A i \in Members(group) : i = h \/ i \in h + 1..at - 1
  BY <1>1, <1>2, <1>3
<1>5. P = IF IsHeading(h) THEN {open[l] : l \in {l \in 1..3 : l < Level(h) /\ open[l] # 0}} ELSE {}
  BY DEF SectionParents, First
<1> HIDE DEF h, P, N
<1>6. P \in SUBSET (1..N)
  <2>1. \A l \in 1..3 : open[l] # 0 => open[l] \in 1..N
    <3>1. \A l \in 1..3 : open[l] \in 0..N
      BY DEF N
    <3> QED
      BY <1>1, <3>1
  <2> QED
    BY <1>5, <2>1
<1>7. SumLengths(P) + Cardinality(P) \in Nat
  <2>1. IsFiniteSet(1..N)
    BY <1>1, FS_Interval
  <2>2. IsFiniteSet(P)
    BY <1>6, <2>1, FS_Subset
  <2>3. Cardinality(P) \in Nat
    BY <2>2, FS_CardinalityType
  <2>4. SumLengths(P) \in Nat
    BY <1>1, SumsAre
  <2> QED
    BY <2>3, <2>4
<1>8. ASSUME NEW l \in 1..3, NEW j \in 1..N
      PROVE  open[l] = j <=> /\ j < at /\ IsHeading(j) /\ Level(j) = l
                             /\ ~\E m \in j + 1..at - 1 : IsHeading(m) /\ Level(m) <= l
  BY <1>2 DEF OpenInv, N
<1>9. ASSUME IsHeading(h)
      PROVE  P = {j \in 1..N : EnclosedBy(j, h)}
  <2>1. ASSUME NEW l \in 1..3, l < Level(h), open[l] # 0
        PROVE  open[l] \in 1..N /\ EnclosedBy(open[l], h)
    <3> DEFINE j == open[l]
    <3>1. j \in P
      BY <1>5, <1>9, <2>1
    <3>2. j \in 1..N
      BY <1>6, <3>1
    <3>3. /\ j < at /\ IsHeading(j) /\ Level(j) = l
          /\ ~\E m \in j + 1..at - 1 : IsHeading(m) /\ Level(m) <= l
      BY <1>8, <3>2
    <3> HIDE DEF j
    <3>4. j # h
      BY <2>1, <3>3
    <3>5. j < h
      <4>1. ~(j \in h + 1..at - 1)
        BY <1>2, <3>3
      <4> QED
        BY <1>1, <1>2, <1>3, <3>2, <3>3, <3>4, <4>1
    <3>6. \A m \in j + 1..h - 1 : m \in j + 1..at - 1
      BY <1>1, <1>2, <1>3, <1>4, <3>2
    <3>7. EnclosedBy(j, h)
      BY <2>1, <3>3, <3>5, <3>6 DEF EnclosedBy
    <3> QED
      BY <3>2, <3>7 DEF j
  <2>2. ASSUME NEW j \in 1..N, EnclosedBy(j, h)
        PROVE  j \in P
    <3>1. /\ j < h /\ IsHeading(j) /\ Level(j) < Level(h)
          /\ ~\E m \in j + 1..h - 1 : IsHeading(m) /\ Level(m) <= Level(j)
      BY <2>2 DEF EnclosedBy
    <3>2. PICK l \in 1..3 : Level(j) = l
      BY <3>1, LevelIs
    <3>3. Level(h) \in 1..3
      BY <1>9, LevelIs
    <3>4. ASSUME NEW m \in j + 1..at - 1, IsHeading(m), Level(m) <= l
          PROVE  FALSE
      <4>1. m \in j + 1..h - 1 \/ m = h \/ m \in h + 1..at - 1
        BY <1>1, <1>2, <1>3
      <4>2. m # h
        BY <3>1, <3>2, <3>3, <3>4
      <4> QED
        BY <1>2, <3>1, <3>2, <3>4, <4>1, <4>2
    <3>5. j < at
      BY <1>1, <1>2, <1>3, <1>4, <3>1
    <3>6. open[l] = j
      BY <1>8, <3>1, <3>2, <3>4, <3>5
    <3>7. j # 0
      OBVIOUS
    <3> QED
      BY <1>5, <1>9, <3>1, <3>2, <3>6, <3>7
  <2>3. P = {open[l] : l \in {l \in 1..3 : l < Level(h) /\ open[l] # 0}}
    BY <1>5, <1>9
  <2>4. \A x \in P : x \in 1..N /\ EnclosedBy(x, h)
    BY <2>1, <2>3
  <2> QED
    BY <2>2, <2>4
<1>10. ASSUME NEW S \in SUBSET Members(group), IsHeading(h) => h \in S
       PROVE  P = {j \in DOMAIN units : \E i \in {i \in S : IsHeading(i)} : EnclosedBy(j, i)}
  <2> DEFINE H == {i \in S : IsHeading(i)}
  <2>1. \A i \in H : i = h
    BY <1>2, <1>4
  <2>2. CASE IsHeading(h)
    <3>1. H = {h}
      BY <1>10, <2>1, <2>2
    <3> HIDE DEF H
    <3>2. P = {j \in 1..N : EnclosedBy(j, h)}
      BY <1>9, <2>2
    <3>3. P = {j \in 1..N : \E i \in H : EnclosedBy(j, i)}
      BY <3>1, <3>2
    <3> QED
      BY <1>1, <3>3 DEF H
  <2>3. CASE ~IsHeading(h)
    <3>1. H = {}
      BY <2>1, <2>3
    <3>2. P = {}
      BY <1>5, <2>3
    <3> HIDE DEF H
    <3>3. P = {j \in 1..N : \E i \in H : EnclosedBy(j, i)}
      BY <3>1, <3>2
    <3> QED
      BY <1>1, <3>3 DEF H
  <2> QED
    BY <2>2, <2>3
<1> QED
  BY <1>6, <1>7, <1>10 DEF h, P, N

(* A chunk of a section. *)
LEMMA SectionPieceOK ==
    ASSUME TextOK, Chosen(request) = "numbered", NEW c, Run(c), c # <<>>, SumLengths(Members(c)) # 0,
           NEW back \in Nat, back <= UnitStart(First(c)), NEW after \in Nat,
           (UnitEnd(Latest(c)) - back) + after <= TextEnd, NEW length \in Nat,
           NEW own \in SUBSET (1..Len(units)), NEW parents \in SUBSET (1..Len(units)),
           Members(c) \subseteq own,
           parents = {j \in DOMAIN units : \E i \in {i \in own : IsHeading(i)} : EnclosedBy(j, i)},
           NEW p,
           p = [from |-> UnitStart(First(c)) - back, to |-> (UnitEnd(Latest(c)) - back) + after,
                length |-> length, members |-> own, words |-> 0, parents |-> parents]
    PROVE  /\ PieceOK(p)
           /\ \A i \in Members(c) : i \in p.members /\ p.to - p.from >= units[i].len
<1> DEFINE from == UnitStart(First(c))
           to == UnitEnd(Latest(c))
<1>1. units \in Seq(UnitShape)
  BY DEF TextOK
<1>2. /\ ~BySize /\ from \in Nat /\ to \in Nat /\ from < to
      /\ \A i \in Members(c) : /\ i \in 1..Len(units) /\ from <= UnitStart(i)
                               /\ UnitStart(i) <= UnitEnd(i) /\ UnitEnd(i) <= to
  BY RunSpan
<1> HIDE DEF from, to
<1> DEFINE f == from - back
           t == (to - back) + after
<1>3. f \in Nat /\ t \in Nat /\ f < t /\ t <= TextEnd /\ t - f >= to - from
  BY <1>2 DEF from, to
<1>4. p = [from |-> f, to |-> t, length |-> length, members |-> own, words |-> 0, parents |-> parents]
  BY DEF from, to
<1> HIDE DEF f, t
<1>5. /\ p \in PieceShape /\ p.from = f /\ p.to = t /\ p.members = own /\ p.parents = parents
  BY <1>3, <1>4 DEF PieceShape
<1>6. Explained(p)
  BY <1>2 DEF Explained
<1>7. Enclosed(p)
  BY <1>5 DEF Enclosed
<1>8. PieceOK(p)
  BY <1>3, <1>5, <1>6, <1>7 DEF PieceOK
<1>9. ASSUME NEW i \in Members(c)
      PROVE  i \in p.members /\ p.to - p.from >= units[i].len
  <2>1. /\ UnitStart(i) \in Nat /\ UnitEnd(i) \in Nat /\ units[i].len \in Nat
        /\ UnitEnd(i) = UnitStart(i) + units[i].len
    BY <1>1, <1>2, UnitPlaces
  <2>2. to - from >= units[i].len
    BY <1>2, <2>1
  <2>3. t - f >= units[i].len
    BY <1>2, <1>3, <2>1, <2>2
  <2> QED
    BY <1>5, <2>3
<1> QED
  BY <1>8, <1>9

(* What a closed section must be for the chunks that follow. *)
SectionOK(qs) ==
    /\ PiecesOK(qs)
    /\ \A i \in Members(group) : Exempt(i) \/ Keeps(qs, i)
    /\ qs # <<>> => /\ UnitStart(First(group)) <= qs[1].from
                    /\ \A j \in 1..Len(units) : j >= at => qs[Len(qs)].to <= UnitStart(j)

SectionBody == IF IsHeading(group[1]) THEN Tail(group) ELSE group
Worded == {k \in DOMAIN SectionBody : units[SectionBody[k]].len > 0}
SectionText == SubSeq(SectionBody, Min(Worded), Len(SectionBody))
SectionPrefix == SumLengths(SectionParents) + Cardinality(SectionParents)
SectionAfter == IF group[Len(group)] < Len(units) THEN 1 ELSE 0
SectionBack == UnitStart(SectionText[1]) - UnitStart(SectionBody[1])
SectionFront == SectionPrefix + (IF IsHeading(group[1]) THEN units[group[1]].len + 1 ELSE 0)
SectionCuts == SentenceCuts(SectionText, IF limit > SectionFront THEN limit - SectionFront ELSE 1)
SectionOwn(c) == Members(c) \cup (IF IsHeading(group[1]) THEN {group[1]} ELSE {})
WholePiece ==
    [Piece(UnitStart(group[1]), UnitEnd(group[Len(group)]) + SectionAfter,
           SectionPrefix + JoinedLength(group), Members(group)) EXCEPT !.parents = SectionParents]
SplitPiece(c) ==
    [Piece(UnitStart(c[1]) - SectionBack, UnitEnd(c[Len(c)]) - SectionBack,
           SectionFront + JoinedLength(c), SectionOwn(c)) EXCEPT !.parents = SectionParents]

(* The chunks of a section in its three cases. *)
LEMMA SectionPiecesAre ==
    SectionPieces(group) =
        IF SumLengths(Members(group)) = 0 THEN <<>>
        ELSE IF JoinedLength(group) + SectionPrefix <= limit THEN <<WholePiece>>
        ELSE IF Worded = {} THEN <<>>
        ELSE [k \in DOMAIN SectionCuts |-> SplitPiece(SectionCuts[k])]
BY DEF SectionPieces, SectionBody, Worded, SectionText, SectionPrefix, SectionAfter, SectionBack,
       SectionFront, SectionCuts, SectionOwn, WholePiece, SplitPiece, SectionParents

(* A unit without text is blank. *)
LEMMA BlankIs ==
    ASSUME TextOK, NEW i \in 1..Len(units), units[i].len = 0
    PROVE  Exempt(i)
<1>1. units[i] \in UnitShape
  BY UnitLengths DEF TextOK
<1> QED
  BY <1>1 DEF UnitShape, Exempt

(* A section that fits is one chunk. *)
LEMMA SectionWholeOK ==
    ASSUME TextOK, Run(group), group # <<>>, open \in [1..3 -> 0..Len(units)],
           NumberedInv(at, group, open, pieces), SumLengths(Members(group)) # 0
    PROVE  SectionOK(<<WholePiece>>)
<1> DEFINE from == UnitStart(First(group))
           to == UnitEnd(Latest(group))
           after == SectionAfter
           length == SectionPrefix + JoinedLength(group)
           parents == SectionParents
           own == Members(group)
           p == WholePiece
<1>1. units \in Seq(UnitShape) /\ Len(units) \in Nat
  BY UnitLengths DEF TextOK
<1>2. /\ Chosen(request) = "numbered" /\ at \in 1..Len(units) + 1 /\ Latest(group) = at - 1
  BY DEF NumberedInv
<1>3. /\ ~BySize /\ from \in Nat /\ to \in Nat /\ to <= TextEnd
      /\ First(group) \in 1..Len(units) /\ Latest(group) \in 1..Len(units)
  BY RunSpan
<1>4. own \subseteq 1..Len(units) /\ First(group) \in own
  BY <1>1, RunEnds
<1>5. /\ parents \in SUBSET (1..Len(units)) /\ SectionPrefix \in Nat
      /\ parents = {j \in DOMAIN units : \E i \in {i \in own : IsHeading(i)} : EnclosedBy(j, i)}
  BY <1>4, ParentsAre DEF SectionPrefix
<1>6. length \in Nat
  BY <1>1, <1>5, JoinedIs
<1>7. after \in {0, 1} /\ (Latest(group) = Len(units) => after = 0)
  BY <1>1, <1>3 DEF SectionAfter, Latest
<1>8. TextEnd \in Nat /\ to + after <= TextEnd
  <2>1. TextEnd \in Nat /\ (Latest(group) < Len(units) => to + Separator <= TextEnd)
    BY <1>1, <1>3, UnitsInText
  <2>2. Latest(group) < Len(units) \/ Latest(group) = Len(units)
    BY <1>1, <1>3
  <2> QED
    BY <1>3, <1>7, <2>1, <2>2, SeparatorIs
<1>9. p = [from |-> from, to |-> to + after, length |-> length, members |-> own, words |-> 0,
           parents |-> parents]
  <2>1. p = [Piece(from, to + after, length, own) EXCEPT !.parents = parents]
    BY DEF WholePiece, First, Latest
  <2> HIDE DEF from, to, after, length, own, parents, p
  <2> QED
    BY <2>1 DEF Piece
<1> HIDE DEF from, to, after, length, own, parents, p
<1>10. from - 0 = from /\ (to - 0) + after = to + after
  BY <1>3, <1>7
<1>11. /\ p = [from |-> UnitStart(First(group)) - 0, to |-> (UnitEnd(Latest(group)) - 0) + after,
               length |-> length, members |-> own, words |-> 0, parents |-> parents]
       /\ 0 <= UnitStart(First(group)) /\ (UnitEnd(Latest(group)) - 0) + after <= TextEnd
       /\ after \in Nat /\ 0 \in Nat
  BY <1>3, <1>7, <1>8, <1>9, <1>10 DEF from, to
<1>12. own \in SUBSET (1..Len(units)) /\ Members(group) \subseteq own
  BY <1>4 DEF own
<1>13. /\ PieceOK(p)
       /\ \A i \in Members(group) : i \in p.members /\ p.to - p.from >= units[i].len
  BY <1>2, <1>5, <1>6, <1>11, <1>12, SectionPieceOK
<1>14. PiecesOK(<<p>>)
  <2>1. <<>> # <<>> => Follows(<<>>[Len(<<>>)], p)
    OBVIOUS
  <2>2. PiecesOK(Append(<<>>, p))
    BY <1>13, <2>1, NoPieces, PiecesGrow
  <2>3. Append(<<>>, p) = <<p>>
    OBVIOUS
  <2> QED
    BY <2>2, <2>3
<1>15. Len(<<p>>) = 1 /\ <<p>>[1] = p
  OBVIOUS
<1>16. \A i \in Members(group) : Keeps(<<p>>, i)
  <2> DEFINE qs == <<p>>
  <2>1. 1 \in 1..Len(qs) /\ qs[1] = p
    BY <1>15
  <2> HIDE DEF qs
  <2>2. \A i \in Members(group) : Keeps(qs, i)
    BY <1>2, <1>13, <2>1 DEF Keeps
  <2> QED
    BY <2>2 DEF qs
<1>17. p.from = from /\ p.to = to + after
  BY <1>9
<1>18. ASSUME NEW j \in 1..Len(units), j >= at
       PROVE  to + after <= UnitStart(j)
  <2>1. Latest(group) < j
    BY <1>1, <1>2, <1>3, <1>18
  <2>2. to + Separator <= UnitStart(j) /\ UnitStart(j) \in Nat
    BY <1>1, <1>3, <2>1, UnitsApart, UnitPlaces DEF to
  <2> QED
    BY <1>3, <1>7, <2>2, SeparatorIs
<1>19. from <= from
  BY <1>3
<1> DEFINE qs == <<p>>
<1>20. /\ PiecesOK(qs) /\ (\A i \in Members(group) : Keeps(qs, i))
       /\ qs[1] = p /\ qs[Len(qs)] = p
  BY <1>14, <1>15, <1>16
<1> HIDE DEF qs
<1>21. SectionOK(qs)
  BY <1>17, <1>18, <1>19, <1>20 DEF SectionOK, from
<1> QED
  BY <1>21 DEF qs, p

(* The body of a section is its units but for the heading. *)
LEMMA BodyIs ==
    ASSUME units \in Seq(UnitShape), Run(group), group # <<>>
    PROVE  /\ Run(SectionBody) /\ Members(SectionBody) \subseteq Members(group)
           /\ \A i \in Members(group) : i \in Members(SectionBody) \/ (IsHeading(First(group)) /\ i = First(group))
           /\ SectionBody # <<>> => Latest(SectionBody) = Latest(group) /\ First(group) <= First(SectionBody)
<1> DEFINE b == SectionBody
           N == Len(group)
<1>1. /\ group \in Seq(1..Len(units)) /\ N \in Nat /\ N >= 1 /\ DOMAIN group = 1..N
      /\ First(group) \in 1..Len(units)
      /\ \A i \in Members(group) : First(group) <= i
  BY RunEnds DEF Run
<1>2. CASE IsHeading(group[1])
  <2> DEFINE t == Tail(group)
  <2>1. b = t
    BY <1>2 DEF SectionBody
  <2>2. /\ t \in Seq(1..Len(units)) /\ Len(t) = N - 1
        /\ \A a \in 1..Len(t) : t[a] = group[a + 1]
    BY <1>1, HeadTailProperties
  <2> HIDE DEF t, b
  <2>3. /\ Run(t) /\ Members(t) \subseteq Members(group)
        /\ \A a \in 1..N : a > 1 => group[a] \in Members(t)
        /\ t # <<>> => Latest(t) = Latest(group)
    BY <2>2, RunPart
  <2>4. \A i \in Members(group) : i \in Members(t) \/ (IsHeading(First(group)) /\ i = First(group))
    <3> SUFFICES ASSUME NEW a \in 1..N
                 PROVE  group[a] \in Members(t) \/ (IsHeading(First(group)) /\ group[a] = First(group))
      BY <1>1 DEF Members
    <3>1. a = 1 \/ a > 1
      BY <1>1
    <3> QED
      BY <1>2, <2>3, <3>1 DEF First
  <2>5. t # <<>> => First(group) <= First(t)
    <3>1. t # <<>> => First(t) \in Members(t)
      BY <2>3, RunEnds
    <3> QED
      BY <1>1, <2>3, <3>1
  <2> QED
    BY <2>1, <2>3, <2>4, <2>5 DEF b
<1>3. CASE ~IsHeading(group[1])
  <2>1. b = group
    BY <1>3 DEF SectionBody
  <2>2. First(group) <= First(group)
    BY <1>1
  <2> QED
    BY <2>1, <2>2 DEF b
<1> QED
  BY <1>2, <1>3

(* The text of a body begins with its first unit that is not blank. *)
LEMMA TextIs ==
    ASSUME units \in Seq(UnitShape), Run(SectionBody), Worded # {}
    PROVE  /\ Run(SectionText) /\ SectionText # <<>> /\ SectionBody # <<>>
           /\ Members(SectionText) \subseteq Members(SectionBody)
           /\ First(SectionBody) <= First(SectionText)
           /\ \A i \in Members(SectionBody) : i \in Members(SectionText) \/ units[i].len = 0
<1> DEFINE b == SectionBody
           N == Len(b)
           W == Worded
           k == Min(W)
           t == SectionText
<1>1. /\ N \in Nat /\ DOMAIN b = 1..N /\ b \in Seq(1..Len(units))
      /\ \A a \in 1..N : b[a] \in 1..Len(units)
  BY ElementOfSeq DEF Run
<1>2. W = {a \in 1..N : units[b[a]].len > 0}
  BY <1>1 DEF Worded
<1>3. t = SubSeq(b, k, N)
  BY DEF SectionText
<1>4. k \in W /\ \A y \in W : k <= y
  <2>1. W \in SUBSET Nat /\ W # {}
    BY <1>2
  <2> HIDE DEF W
  <2> QED
    BY <2>1, MinIs
<1>5. k \in 1..N /\ k - 1 \in Nat
  BY <1>2, <1>4
<1> HIDE DEF b, k, W, t
<1>6. /\ t \in Seq(1..Len(units)) /\ Len(t) = N - (k - 1)
      /\ \A a \in 1..Len(t) : t[a] = b[a + (k - 1)]
  <2> HIDE DEF N
  <2>1. k \in Int /\ N \in Int /\ \A a \in k..N : b[a] \in 1..Len(units)
    BY <1>1, <1>5
  <2>2. /\ SubSeq(b, k, N) \in Seq(1..Len(units))
        /\ Len(SubSeq(b, k, N)) = IF k <= N THEN N - k + 1 ELSE 0
        /\ \A a \in 1..N - k + 1 : SubSeq(b, k, N)[a] = b[k + a - 1]
    BY <2>1, SubSeqProperties
  <2>3. Len(t) = N - k + 1 /\ N - k + 1 = N - (k - 1)
    BY <1>1, <1>3, <1>5, <2>2
  <2>4. \A a \in 1..Len(t) : t[a] = b[k + a - 1] /\ k + a - 1 = a + (k - 1)
    BY <1>1, <1>3, <1>5, <2>2, <2>3
  <2> QED
    BY <1>3, <2>2, <2>3, <2>4
<1>7. Run(b)
  BY DEF b
<1> DEFINE d == k - 1
<1>8. d \in Nat /\ Len(t) = Len(b) - d /\ \A a \in 1..Len(t) : t[a] = b[a + d]
  BY <1>5, <1>6
<1> HIDE DEF d
<1>9. /\ Run(t) /\ Members(t) \subseteq Members(b)
      /\ \A a \in 1..N : a > d => b[a] \in Members(t)
      /\ t # <<>> => First(t) = b[1 + d]
  BY <1>6, <1>7, <1>8, RunPart
<1>10. t # <<>> /\ b # <<>>
  <2>1. Len(t) # 0 /\ N # 0
    BY <1>1, <1>5, <1>6
  <2>2. <<>> = t => Len(t) = 0
    OBVIOUS
  <2>3. <<>> = b => Len(b) = 0
    OBVIOUS
  <2> QED
    BY <2>1, <2>2, <2>3
<1>11. \A i \in Members(b) : i \in Members(t) \/ units[i].len = 0
  <2> SUFFICES ASSUME NEW a \in 1..N, b[a] \notin Members(t)
               PROVE  units[b[a]].len = 0
    BY <1>1 DEF Members
  <2>1. ~(a > d)
    BY <1>9
  <2>2. a < k
    BY <1>1, <1>5, <2>1 DEF d
  <2>3. a \notin W
    <3>1. ~(k <= a)
      BY <1>1, <1>5, <2>2
    <3> QED
      BY <1>4, <3>1
  <2>4. ~(units[b[a]].len > 0)
    BY <1>2, <2>3
  <2>5. units[b[a]].len \in Nat
    BY <1>1, UnitLengths
  <2> QED
    BY <2>4, <2>5
<1>12. First(b) <= First(t)
  <2>1. First(t) \in Members(t)
    BY <1>9, <1>10, RunEnds
  <2> QED
    BY <1>7, <1>9, <2>1, RunEnds
<1> QED
  BY <1>9, <1>10, <1>11, <1>12 DEF b, t

(* A section that does not fit is cut into chunks that keep its sentences. *)
LEMMA SectionSplitOK ==
    ASSUME TextOK, Run(group), group # <<>>, open \in [1..3 -> 0..Len(units)],
           NumberedInv(at, group, open, pieces), Worded # {}
    PROVE  SectionOK([k \in DOMAIN SectionCuts |-> SplitPiece(SectionCuts[k])])
<1> DEFINE cs == SectionCuts
           t == SectionText
           qs == [k \in DOMAIN cs |-> SplitPiece(cs[k])]
           N == Len(cs)
<1>1. units \in Seq(UnitShape) /\ Len(units) \in Nat /\ overlap \in Nat /\ limit \in Nat
  BY UnitLengths DEF TextOK
<1>2. /\ Chosen(request) = "numbered" /\ at \in 1..Len(units) + 1 /\ Latest(group) = at - 1
  BY DEF NumberedInv
<1>3. /\ Run(SectionBody) /\ Members(SectionBody) \subseteq Members(group)
      /\ \A i \in Members(group) : i \in Members(SectionBody) \/ (IsHeading(First(group)) /\ i = First(group))
      /\ SectionBody # <<>> => Latest(SectionBody) = Latest(group) /\ First(group) <= First(SectionBody)
  BY <1>1, BodyIs
<1>4. /\ Run(t) /\ t # <<>> /\ SectionBody # <<>>
      /\ Members(t) \subseteq Members(SectionBody)
      /\ First(SectionBody) <= First(t)
      /\ \A i \in Members(SectionBody) : i \in Members(t) \/ units[i].len = 0
  BY <1>1, <1>3, TextIs
<1>5. /\ ~BySize /\ First(group) \in 1..Len(units) /\ Latest(group) \in 1..Len(units)
      /\ First(group) \in Members(group) /\ Members(group) \subseteq 1..Len(units)
      /\ UnitEnd(Latest(group)) <= TextEnd /\ UnitEnd(Latest(group)) \in Nat
      /\ \A i \in Members(group) : i <= Latest(group)
  BY <1>1, RunSpan, RunEnds
<1>6. /\ First(t) \in 1..Len(units) /\ First(SectionBody) \in 1..Len(units)
      /\ \A i \in Members(t) : First(t) <= i
  BY <1>1, <1>3, <1>4, RunEnds
<1> DEFINE back == SectionBack
           start == UnitStart(First(SectionBody))
<1>7. /\ back = UnitStart(First(t)) - start
      /\ start \in Nat /\ UnitStart(First(t)) \in Nat
      /\ back \in Nat /\ back <= UnitStart(First(t)) /\ UnitStart(First(t)) - back = start
      /\ UnitStart(First(group)) <= start
  <2>1. back = UnitStart(First(t)) - start
    BY DEF SectionBack, First
  <2>2. start \in Nat /\ UnitStart(First(t)) \in Nat /\ start <= UnitStart(First(t))
    BY <1>1, <1>4, <1>6, UnitPlaces, UnitsOrdered
  <2>3. UnitStart(First(group)) <= start
    BY <1>1, <1>3, <1>4, <1>5, <1>6, UnitsOrdered
  <2> HIDE DEF back, start
  <2> QED
    BY <2>1, <2>2, <2>3
<1>8. SectionPrefix \in Nat /\ SectionParents \in SUBSET (1..Len(units))
  BY ParentsAre DEF SectionPrefix
<1>9. SectionFront \in Nat
  <2>1. units[First(group)].len \in Nat
    BY <1>1, <1>5, UnitLengths
  <2> DEFINE n == units[group[1]].len
             P == SectionPrefix
  <2>2. n \in Nat /\ P \in Nat /\ SectionFront = P + (IF IsHeading(group[1]) THEN n + 1 ELSE 0)
    BY <1>8, <2>1 DEF SectionFront, First
  <2> HIDE DEF n, P
  <2>3. P + 0 \in Nat /\ P + (n + 1) \in Nat
    BY <2>2
  <2> QED
    BY <2>2, <2>3
<1>10. CutsOK(cs, t) /\ \A i \in Members(t) : units[i].kind = "blank" \/ InCuts(cs, i)
  <2> DEFINE room == IF limit > SectionFront THEN limit - SectionFront ELSE 1
  <2>1. room \in Nat
    BY <1>1, <1>9
  <2>2. cs = SentenceCuts(t, room)
    BY DEF SectionCuts
  <2> HIDE DEF room, cs
  <2> QED
    BY <1>1, <1>4, <2>1, <2>2, CutsAre
<1> HIDE DEF cs, t, back, start
<1>11. /\ N \in Nat /\ DOMAIN cs = 1..N /\ (\A k \in 1..N : CutOK(cs[k], t))
       /\ \A k \in 2..N : CutBefore(cs[k - 1], cs[k])
  BY <1>10 DEF CutsOK
<1>12. ASSUME NEW c, CutOK(c, t)
       PROVE  /\ PieceOK(SplitPiece(c))
              /\ \A i \in Members(c) : /\ i \in SplitPiece(c).members
                                       /\ SplitPiece(c).to - SplitPiece(c).from >= units[i].len
              /\ SplitPiece(c).from = UnitStart(First(c)) - back
              /\ SplitPiece(c).to = UnitEnd(Latest(c)) - back
              /\ First(c) \in 1..Len(units) /\ Latest(c) \in 1..Len(units)
              /\ start <= UnitStart(First(c)) - back
              /\ UnitEnd(Latest(c)) <= UnitEnd(Latest(group))
  <2>1. Run(c) /\ c # <<>> /\ SumLengths(Members(c)) # 0 /\ Members(c) \subseteq Members(t)
    BY <1>12 DEF CutOK
  <2>2. /\ First(c) \in 1..Len(units) /\ Latest(c) \in 1..Len(units)
        /\ First(c) \in Members(c) /\ Latest(c) \in Members(c)
    BY <1>1, <2>1, RunEnds
  <2>3. First(t) <= First(c) /\ Latest(c) <= Latest(group)
    BY <1>3, <1>4, <1>5, <1>6, <2>1, <2>2
  <2>4. /\ UnitStart(First(t)) <= UnitStart(First(c)) /\ UnitEnd(Latest(c)) <= UnitEnd(Latest(group))
        /\ UnitStart(First(c)) \in Nat /\ UnitEnd(Latest(c)) \in Nat
    BY <1>1, <1>5, <1>6, <2>2, <2>3, UnitsOrdered, UnitPlaces
  <2>5. back <= UnitStart(First(c)) /\ start <= UnitStart(First(c)) - back
    BY <1>7, <2>4
  <2>6. TextEnd \in Nat
    BY <1>1, <1>5, UnitsInText
  <2>7. /\ (UnitEnd(Latest(c)) - back) + 0 <= TextEnd
        /\ (UnitEnd(Latest(c)) - back) + 0 = UnitEnd(Latest(c)) - back
    <3> DEFINE e == UnitEnd(Latest(c))
               b == back
               m == UnitEnd(Latest(group))
    <3>1. e \in Nat /\ b \in Nat /\ m \in Nat /\ e <= m /\ m <= TextEnd /\ TextEnd \in Nat
      BY <1>5, <1>7, <2>4, <2>6
    <3> HIDE DEF e, b, m
    <3>2. (e - b) + 0 <= TextEnd /\ (e - b) + 0 = e - b
      BY <3>1
    <3> QED
      BY <3>2 DEF e, b
  <2> DEFINE own == SectionOwn(c)
             length == SectionFront + JoinedLength(c)
             parents == SectionParents
             from == UnitStart(First(c)) - back
             to == UnitEnd(Latest(c)) - back
             p == SplitPiece(c)
  <2>8. /\ own \in SUBSET Members(group) /\ own \in SUBSET (1..Len(units))
        /\ (IsHeading(First(group)) => First(group) \in own) /\ Members(c) \subseteq own
    BY <1>3, <1>4, <1>5, <2>1 DEF SectionOwn, First
  <2>9. parents = {j \in DOMAIN units : \E i \in {i \in own : IsHeading(i)} : EnclosedBy(j, i)}
    <3> HIDE DEF own
    <3> QED
      BY <2>8, ParentsAre
  <2>10. length \in Nat
    BY <1>1, <1>9, <2>1, JoinedIs
  <2>11. p = [from |-> from, to |-> to, length |-> length, members |-> own, words |-> 0,
              parents |-> parents]
    <3>1. p = [Piece(from, to, length, own) EXCEPT !.parents = parents]
      BY DEF SplitPiece, First, Latest, back
    <3> HIDE DEF from, to, length, own, parents, p
    <3> QED
      BY <3>1 DEF Piece
  <2>12. p = [from |-> UnitStart(First(c)) - back, to |-> (UnitEnd(Latest(c)) - back) + 0,
              length |-> length, members |-> own, words |-> 0, parents |-> parents]
    BY <2>7, <2>11
  <2>13. p.from = from /\ p.to = to
    <3> HIDE DEF from, to, length, own, parents, p
    <3> QED
      BY <2>11
  <2> HIDE DEF length, own, parents, p
  <2>14. 0 \in Nat /\ parents \in SUBSET (1..Len(units))
    BY <1>8 DEF parents
  <2>15. /\ PieceOK(p)
         /\ \A i \in Members(c) : i \in p.members /\ p.to - p.from >= units[i].len
    BY <1>2, <1>7, <2>1, <2>5, <2>7, <2>8, <2>9, <2>10, <2>12, <2>14, SectionPieceOK
  <2> QED
    BY <2>2, <2>4, <2>5, <2>13, <2>15 DEF p
<1>13. /\ DOMAIN qs = 1..N /\ \A k \in 1..N : qs[k] = SplitPiece(cs[k])
  BY <1>11
<1>14. qs \in Seq(PieceShape) /\ Len(qs) = N
  <2>1. \A k \in 1..N : qs[k] \in PieceShape
    BY <1>11, <1>12, <1>13 DEF PieceOK
  <2>2. qs = [k \in 1..N |-> qs[k]]
    BY <1>11
  <2> HIDE DEF qs
  <2>3. qs \in [1..N -> PieceShape]
    BY <2>1, <2>2
  <2> QED
    BY <1>11, <2>3
<1> HIDE DEF qs, N
<1>15. ASSUME NEW k \in 2..N
       PROVE  Follows(qs[k - 1], qs[k])
  <2> DEFINE c == cs[k - 1]
             d == cs[k]
  <2>1. k \in 1..N /\ k - 1 \in 1..N
    BY <1>11
  <2>2. CutOK(c, t) /\ CutOK(d, t) /\ CutBefore(c, d)
    BY <1>11, <2>1
  <2>3. qs[k - 1] = SplitPiece(c) /\ qs[k] = SplitPiece(d)
    BY <1>13, <2>1
  <2> HIDE DEF c, d
  <2>4. /\ SplitPiece(c).from = UnitStart(First(c)) - back
        /\ SplitPiece(c).to = UnitEnd(Latest(c)) - back
        /\ SplitPiece(d).from = UnitStart(First(d)) - back
        /\ SplitPiece(d).to = UnitEnd(Latest(d)) - back
        /\ First(c) \in 1..Len(units) /\ Latest(c) \in 1..Len(units)
        /\ First(d) \in 1..Len(units) /\ Latest(d) \in 1..Len(units)
    BY <1>12, <2>2
  <2>5. First(c) <= First(d) /\ Latest(c) < Latest(d)
    BY <2>2 DEF CutBefore
  <2>6. Latest(c) <= Latest(d)
    BY <1>1, <2>4, <2>5
  <2>7. /\ UnitStart(First(c)) <= UnitStart(First(d)) /\ UnitEnd(Latest(c)) < UnitEnd(Latest(d))
        /\ UnitStart(First(c)) \in Nat /\ UnitStart(First(d)) \in Nat
        /\ UnitEnd(Latest(c)) \in Nat /\ UnitEnd(Latest(d)) \in Nat
    BY <1>1, <2>4, <2>5, <2>6, UnitsOrdered, UnitPlaces
  <2>8. Follows(SplitPiece(c), SplitPiece(d))
    <3> DEFINE cf == UnitStart(First(c))
               ct == UnitEnd(Latest(c))
               df == UnitStart(First(d))
               dt == UnitEnd(Latest(d))
    <3>1. /\ SplitPiece(c).from = cf - back /\ SplitPiece(c).to = ct - back
          /\ SplitPiece(d).from = df - back /\ SplitPiece(d).to = dt - back
          /\ back \in Nat /\ cf \in Nat /\ ct \in Nat /\ df \in Nat /\ dt \in Nat
          /\ cf <= df /\ ct < dt
      BY <1>7, <2>4, <2>7
    <3> HIDE DEF cf, ct, df, dt
    <3>2. cf - back <= df - back /\ ct - back <= dt - back /\ ct - back < dt - back
      BY <3>1
    <3> QED
      BY <3>1, <3>2 DEF Follows
  <2> QED
    BY <2>3, <2>8
<1>16. PiecesOK(qs)
  BY <1>11, <1>12, <1>13, <1>14, <1>15 DEF PiecesOK
<1>17. \A i \in Members(group) : Exempt(i) \/ Keeps(qs, i)
  <2> SUFFICES ASSUME NEW i \in Members(group), ~Exempt(i)
               PROVE  Keeps(qs, i)
    OBVIOUS
  <2>1. units[i].kind # "blank" /\ ~IsHeading(i)
    BY <1>2 DEF Exempt
  <2>2. units[i].len # 0
    BY <1>5, BlankIs
  <2>3. i \in Members(t)
    BY <1>3, <1>4, <2>1, <2>2
  <2>4. PICK k \in 1..N : i \in Members(cs[k])
    BY <1>10, <2>1, <2>3 DEF InCuts, N
  <2>5. k \in 1..Len(qs) /\ i \in qs[k].members /\ qs[k].to - qs[k].from >= units[i].len
    BY <1>11, <1>12, <1>13, <1>14, <2>4
  <2> QED
    BY <1>2, <2>5 DEF Keeps
<1>18. ASSUME qs # <<>>
       PROVE  /\ UnitStart(First(group)) <= qs[1].from
              /\ \A j \in 1..Len(units) : j >= at => qs[Len(qs)].to <= UnitStart(j)
  <2>1. 1 \in 1..N /\ N \in 1..N
    <3>1. Len(qs) \in 1..Len(qs) /\ Len(qs) \in Nat
      BY <1>16, <1>18, PiecesAre
    <3> QED
      BY <1>14, <3>1
  <2>2. UnitStart(First(group)) <= qs[1].from
    <3> DEFINE c == cs[1]
    <3>1. CutOK(c, t) /\ qs[1] = SplitPiece(c)
      BY <1>11, <1>13, <2>1
    <3> HIDE DEF c
    <3>2. /\ SplitPiece(c).from = UnitStart(First(c)) - back
          /\ start <= UnitStart(First(c)) - back /\ First(c) \in 1..Len(units)
      BY <1>12, <3>1
    <3> DEFINE u == UnitStart(First(c))
               v == UnitStart(First(group))
    <3>3. u \in Nat /\ v \in Nat /\ v <= start /\ start \in Nat /\ back \in Nat
          /\ start <= u - back /\ qs[1].from = u - back
      BY <1>1, <1>5, <1>7, <3>1, <3>2, UnitPlaces
    <3> HIDE DEF u, v
    <3>4. v <= u - back
      BY <3>3
    <3> QED
      BY <3>3, <3>4 DEF v
  <2>3. ASSUME NEW j \in 1..Len(units), j >= at
        PROVE  qs[Len(qs)].to <= UnitStart(j)
    <3> DEFINE c == cs[N]
    <3>1. CutOK(c, t) /\ qs[Len(qs)] = SplitPiece(c)
      BY <1>11, <1>13, <1>14, <2>1
    <3> HIDE DEF c
    <3>2. /\ SplitPiece(c).to = UnitEnd(Latest(c)) - back
          /\ UnitEnd(Latest(c)) <= UnitEnd(Latest(group)) /\ Latest(c) \in 1..Len(units)
      BY <1>12, <3>1
    <3>3. UnitEnd(Latest(c)) \in Nat /\ UnitStart(j) \in Nat
      BY <1>1, <3>2, UnitPlaces
    <3>4. Latest(group) < j
      BY <1>1, <1>2, <1>5, <2>3
    <3>5. UnitEnd(Latest(group)) + Separator <= UnitStart(j)
      BY <1>1, <1>5, <3>4, UnitsApart
    <3>6. UnitEnd(Latest(c)) - back <= UnitStart(j)
      <4> DEFINE e == UnitEnd(Latest(c))
                 m == UnitEnd(Latest(group))
                 u == UnitStart(j)
      <4>1. /\ e \in Nat /\ m \in Nat /\ u \in Nat /\ back \in Nat /\ e <= m
            /\ m + Separator <= u /\ Separator \in {1, 2}
        BY <1>5, <1>7, <3>2, <3>3, <3>5, SeparatorIs
      <4> HIDE DEF e, m, u
      <4>2. e - back <= u
        BY <4>1
      <4> QED
        BY <4>2 DEF e, u
    <3> QED
      BY <3>1, <3>2, <3>6
  <2> QED
    BY <2>2, <2>3
<1>19. SectionOK(qs)
  BY <1>16, <1>17, <1>18 DEF SectionOK
<1> QED
  BY <1>19 DEF qs, cs

(* The chunks of a section follow those of the sections before it. *)
LEMMA SectionKeeps ==
    ASSUME TextOK, Run(group), group # <<>>, open \in [1..3 -> 0..Len(units)],
           NumberedInv(at, group, open, pieces)
    PROVE  SectionOK(SectionPieces(group))
<1>1. units \in Seq(UnitShape)
  BY DEF TextOK
<1>2. Chosen(request) = "numbered"
  BY DEF NumberedInv
<1>3. Members(group) \subseteq 1..Len(units)
  BY <1>1, RunEnds
<1>4. (\A i \in Members(group) : Exempt(i)) => SectionOK(<<>>)
  BY NoPieces DEF SectionOK
<1>5. CASE SumLengths(Members(group)) = 0
  <2>1. \A i \in Members(group) : Exempt(i)
    <3> SUFFICES ASSUME NEW i \in Members(group)
                 PROVE  Exempt(i)
      OBVIOUS
    <3>1. units[i].len <= 0 /\ units[i].len \in Nat /\ i \in 1..Len(units)
      BY <1>1, <1>3, <1>5, SumsAre, UnitLengths
    <3> QED
      BY <3>1, BlankIs
  <2>2. SectionPieces(group) = <<>>
    BY <1>5, SectionPiecesAre
  <2> QED
    BY <1>4, <2>1, <2>2
<1>6. CASE SumLengths(Members(group)) # 0 /\ JoinedLength(group) + SectionPrefix <= limit
  <2>1. SectionPieces(group) = <<WholePiece>>
    BY <1>6, SectionPiecesAre
  <2> QED
    BY <1>6, <2>1, SectionWholeOK
<1>7. CASE /\ SumLengths(Members(group)) # 0 /\ ~(JoinedLength(group) + SectionPrefix <= limit)
           /\ Worded = {}
  <2>1. SectionPieces(group) = <<>>
    BY <1>7, SectionPiecesAre
  <2>2. \A i \in Members(group) : Exempt(i)
    <3> SUFFICES ASSUME NEW i \in Members(group)
                 PROVE  Exempt(i)
      OBVIOUS
    <3>1. i \in Members(SectionBody) \/ IsHeading(i)
      BY <1>1, BodyIs
    <3>2. CASE IsHeading(i)
      BY <1>2, <3>2 DEF Exempt
    <3>3. CASE i \in Members(SectionBody)
      <4>1. ~(units[i].len > 0)
        BY <1>7, <3>3 DEF Worded, Members
      <4>2. units[i].len \in Nat /\ i \in 1..Len(units)
        BY <1>1, <1>3, UnitLengths
      <4> QED
        BY <4>1, <4>2, BlankIs
    <3> QED
      BY <3>1, <3>2, <3>3
  <2> QED
    BY <1>4, <2>1, <2>2
<1>8. CASE /\ SumLengths(Members(group)) # 0 /\ ~(JoinedLength(group) + SectionPrefix <= limit)
           /\ Worded # {}
  <2>1. SectionPieces(group) = [k \in DOMAIN SectionCuts |-> SplitPiece(SectionCuts[k])]
    BY <1>8, SectionPiecesAre
  <2>2. SectionOK([k \in DOMAIN SectionCuts |-> SplitPiece(SectionCuts[k])])
    BY <1>8, SectionSplitOK
  <2> QED
    BY <2>1, <2>2
<1> QED
  BY <1>5, <1>6, <1>7, <1>8

(* A closed section is in the chunks. *)
LEMMA ClosedKeeps ==
    ASSUME TextOK, Run(group), PiecesOK(pieces), open \in [1..3 -> 0..Len(units)],
           NumberedInv(at, group, open, pieces)
    PROVE  /\ PiecesOK(ClosedSection) /\ Behind(ClosedSection, <<>>, at)
           /\ \A i \in 1..at - 1 : Exempt(i) \/ Keeps(ClosedSection, i)
<1> DEFINE rs == ClosedSection
           qs == SectionPieces(group)
<1>1. units \in Seq(UnitShape) /\ Len(units) \in Nat
  BY UnitLengths DEF TextOK
<1>2. /\ at \in 1..Len(units) + 1 /\ Behind(pieces, group, at)
      /\ \A i \in 1..at - 1 : Exempt(i) \/ i \in Members(group) \/ Keeps(pieces, i)
  BY DEF NumberedInv
<1>3. Members(<<>>) = {}
  BY DEF Members
<1>4. CASE group = <<>>
  <2>1. rs = pieces /\ Members(group) = {}
    BY <1>3, <1>4 DEF ClosedSection
  <2>2. Behind(pieces, <<>>, at)
    BY <1>2, <1>3 DEF Behind
  <2> HIDE DEF rs
  <2> QED
    BY <1>2, <2>1, <2>2 DEF rs
<1>5. CASE group # <<>>
  <2>1. rs = pieces \o qs
    BY <1>5 DEF ClosedSection
  <2>2. SectionOK(qs)
    BY <1>5, SectionKeeps
  <2> HIDE DEF qs, rs
  <2>3. /\ PiecesOK(qs)
        /\ \A i \in Members(group) : Exempt(i) \/ Keeps(qs, i)
        /\ qs # <<>> => /\ UnitStart(First(group)) <= qs[1].from
                        /\ \A j \in 1..Len(units) : j >= at => qs[Len(qs)].to <= UnitStart(j)
    BY <2>2 DEF SectionOK
  <2>4. First(group) \in Members(group) /\ First(group) \in 1..Len(units)
    BY <1>1, <1>5, RunEnds
  <2>5. UnitStart(First(group)) \in Nat
    BY <1>1, <2>4, UnitPlaces
  <2>6. pieces # <<>> /\ qs # <<>> => Follows(pieces[Len(pieces)], qs[1])
    <3> SUFFICES ASSUME pieces # <<>>, qs # <<>>
                 PROVE  Follows(pieces[Len(pieces)], qs[1])
      OBVIOUS
    <3>1. pieces[Len(pieces)].to <= UnitStart(First(group))
      BY <1>2, <2>4 DEF Behind
    <3>2. /\ pieces[Len(pieces)].from \in Nat /\ pieces[Len(pieces)].to \in Nat
          /\ pieces[Len(pieces)].from < pieces[Len(pieces)].to
      BY PiecesAre
    <3>3. 1 \in 1..Len(qs)
      BY <2>3, PiecesAre
    <3>4. qs[1].from \in Nat /\ qs[1].to \in Nat /\ qs[1].from < qs[1].to
      BY <2>3, <3>3, PiecesAre
    <3> DEFINE a == pieces[Len(pieces)].from
               b == pieces[Len(pieces)].to
               u == UnitStart(First(group))
               c == qs[1].from
               d == qs[1].to
    <3>5. /\ a \in Nat /\ b \in Nat /\ u \in Nat /\ c \in Nat /\ d \in Nat
          /\ a < b /\ b <= u /\ u <= c /\ c < d
      BY <2>3, <2>5, <3>1, <3>2, <3>4
    <3> HIDE DEF a, b, c, d, u
    <3>6. a <= c /\ b <= d /\ a < c
      BY <3>5
    <3> QED
      BY <3>6 DEF Follows, a, b, c, d
  <2>7. /\ PiecesOK(rs)
        /\ \A i : Keeps(pieces, i) \/ Keeps(qs, i) => Keeps(rs, i)
        /\ rs # <<>> => rs[Len(rs)] = IF qs = <<>> THEN pieces[Len(pieces)] ELSE qs[Len(qs)]
    BY <2>1, <2>3, <2>6, JoinKeeps
  <2>8. \A i \in 1..at - 1 : Exempt(i) \/ Keeps(rs, i)
    BY <1>2, <2>3, <2>7
  <2>9. Behind(rs, <<>>, at)
    <3>1. CASE qs = <<>>
      <4>1. rs = pieces
        <5>1. pieces \in Seq(PieceShape)
          BY DEF PiecesOK
        <5>2. pieces \o <<>> = pieces
          BY <5>1
        <5> QED
          BY <2>1, <3>1, <5>2
      <4> QED
        BY <1>2, <1>3, <4>1 DEF Behind
    <3>2. CASE qs # <<>>
      BY <1>3, <2>3, <2>7, <3>2 DEF Behind
    <3> QED
      BY <3>1, <3>2
  <2> QED
    BY <2>7, <2>8, <2>9 DEF rs
<1> QED
  BY <1>4, <1>5

(* What the splitter of numbered sections knows when it takes a line. *)
LEMMA NumberedStateIs ==
    ASSUME SplitInv, splitter = "numbered", at <= Len(units)
    PROVE  /\ TextOK /\ units \in Seq(UnitShape) /\ Len(units) \in Nat /\ Run(group)
           /\ PiecesOK(pieces) /\ Chosen(request) = "numbered"
           /\ open \in [1..3 -> 0..Len(units)]
           /\ NumberedInv(at, group, open, pieces)
           /\ at \in 1..Len(units) /\ at + 1 \in 1..Len(units) + 1 /\ at \in Nat
           /\ \A i \in 1..at : i \in 1..at - 1 \/ i = at
<1>1. NumberedInv(at, group, open, pieces)
  BY StateIs DEF StateOK
<1>2. Chosen(request) = "numbered" /\ at \in 1..Len(units) + 1
  BY <1>1 DEF NumberedInv
<1>3. Len(units) \in Nat
  BY StateIs
<1>4. /\ at \in 1..Len(units) /\ at + 1 \in 1..Len(units) + 1 /\ at \in Nat
      /\ \A i \in 1..at : i \in 1..at - 1 \/ i = at
  BY <1>2, <1>3
<1> QED
  BY <1>1, <1>2, <1>4, StateIs

(* A step that gives NumberedInv its new values keeps the invariant. *)
LEMMA NumberedStep ==
    ASSUME SplitInv, splitter = "numbered", at <= Len(units), UNCHANGED textVars,
           UNCHANGED <<splitter, size, hasContext, heading, header>>, at' = at + 1,
           open' \in [1..3 -> 0..Len(units)], Run(group'), PiecesOK(pieces'),
           NumberedInv(at', group', open', pieces')
    PROVE  SplitInv'
<1>1. splitter' = Chosen(request) /\ splitter' = "numbered" /\ at' \in Nat
  BY NumberedStateIs
<1>2. /\ TextOK /\ size' \in Nat /\ hasContext' \in BOOLEAN
      /\ heading' \in 0..Len(units) /\ header' \in 0..Len(units)
  BY StateIs
<1>3. StateOK(splitter', at', group', size', hasContext', heading', header', open', pieces')
  BY <1>1, <1>2 DEF StateOK
<1> QED
  BY <1>2, <1>3, TextStays

(* A line that is no heading belongs to the open section. *)
LEMMA AddSectionLineKeeps == SplitInv /\ AddSectionLine => SplitInv'
<1> SUFFICES ASSUME SplitInv, AddSectionLine
             PROVE  SplitInv'
  OBVIOUS
<1> DEFINE g == Append(group, at)
           b == at + 1
<1>1. /\ splitter = "numbered" /\ at <= Len(units) /\ ~IsHeading(at) /\ group' = g /\ at' = b
      /\ UNCHANGED textVars
      /\ UNCHANGED <<splitter, size, hasContext, heading, header>>
      /\ open' = open /\ pieces' = pieces
  BY DEF AddSectionLine
<1>2. /\ units \in Seq(UnitShape) /\ Len(units) \in Nat /\ Run(group) /\ PiecesOK(pieces)
      /\ Chosen(request) = "numbered" /\ open \in [1..3 -> 0..Len(units)]
      /\ NumberedInv(at, group, open, pieces)
      /\ at \in 1..Len(units) /\ b \in 1..Len(units) + 1 /\ at \in Nat
      /\ \A i \in 1..at : i \in 1..at - 1 \/ i = at
  BY <1>1, NumberedStateIs
<1>3. /\ group = <<>> => at = 1
      /\ group # <<>> => /\ Latest(group) = at - 1
                         /\ \A i \in First(group)..at - 1 : i \in Members(group)
                         /\ \A i \in First(group) + 1..at - 1 : ~IsHeading(i)
                         /\ ~IsHeading(First(group)) => First(group) = 1
      /\ OpenInv(at, open)
      /\ \A i \in 1..at - 1 : Exempt(i) \/ i \in Members(group) \/ Keeps(pieces, i)
      /\ Behind(pieces, group, at)
  BY <1>2 DEF NumberedInv
<1>4. group # <<>> => Latest(group) < at /\ First(group) \in 1..Len(units)
  BY <1>2, <1>3, RunEnds
<1>5. /\ Run(g) /\ g # <<>> /\ Latest(g) = at /\ Members(g) = Members(group) \cup {at}
      /\ First(g) = IF group = <<>> THEN at ELSE First(group)
  BY <1>2, <1>4, RunGrows
<1>6. b - 1 = at /\ at < b /\ b \in Nat
  BY <1>2
<1> HIDE DEF g, b
<1>7. /\ \A i \in First(g)..b - 1 : i \in Members(g)
      /\ \A i \in First(g) + 1..b - 1 : ~IsHeading(i)
      /\ ~IsHeading(First(g)) => First(g) = 1
  <2>1. CASE group = <<>>
    <3>1. First(g) = at
      BY <1>5, <2>1
    <3>2. (\A i \in at..b - 1 : i = at) /\ (\A i \in at + 1..b - 1 : FALSE)
      BY <1>2, <1>6
    <3> QED
      BY <1>3, <1>5, <2>1, <3>1, <3>2
  <2>2. CASE group # <<>>
    <3>1. First(g) = First(group)
      BY <1>5, <2>2
    <3>2. /\ \A i \in First(group)..b - 1 : i \in First(group)..at - 1 \/ i = at
          /\ \A i \in First(group) + 1..b - 1 : i \in First(group) + 1..at - 1 \/ i = at
      BY <1>2, <1>4, <1>6, <2>2
    <3> QED
      BY <1>1, <1>3, <1>5, <2>2, <3>1, <3>2
  <2> QED
    BY <2>1, <2>2
<1>8. OpenInv(b, open)
  <2> SUFFICES ASSUME NEW l \in 1..3, NEW j \in 1..Len(units)
               PROVE  open[l] = j <=> /\ j < b /\ IsHeading(j) /\ Level(j) = l
                                      /\ ~\E m \in j + 1..b - 1 : IsHeading(m) /\ Level(m) <= l
    BY DEF OpenInv
  <2>1. open[l] = j <=> /\ j < at /\ IsHeading(j) /\ Level(j) = l
                        /\ ~\E m \in j + 1..at - 1 : IsHeading(m) /\ Level(m) <= l
    BY <1>3 DEF OpenInv
  <2>2. (j < b <=> j < at \/ j = at) /\ (\A m \in j + 1..b - 1 : m \in j + 1..at - 1 \/ m = at)
        /\ (\A m \in j + 1..at - 1 : m \in j + 1..b - 1)
    BY <1>2, <1>6
  <2>3. (\E m \in j + 1..b - 1 : IsHeading(m) /\ Level(m) <= l)
          <=> (\E m \in j + 1..at - 1 : IsHeading(m) /\ Level(m) <= l)
    BY <1>1, <2>2
  <2>4. j = at => ~IsHeading(j)
    BY <1>1
  <2>5. ~(at < at)
    BY <1>2
  <2> HIDE DEF g
  <2> QED
    BY <2>1, <2>2, <2>3, <2>4, <2>5
<1>9. \A i \in 1..b - 1 : Exempt(i) \/ i \in Members(g) \/ Keeps(pieces, i)
  BY <1>2, <1>3, <1>5, <1>6
<1>10. Behind(pieces, g, b)
  <2>1. \A i \in 1..Len(units) : i = at \/ i >= b => i >= at
    BY <1>2, <1>6
  <2> QED
    BY <1>3, <1>5, <2>1 DEF Behind
<1>11. NumberedInv(b, g, open, pieces)
  BY <1>2, <1>5, <1>6, <1>7, <1>8, <1>9, <1>10 DEF NumberedInv
<1> QED
  BY <1>1, <1>2, <1>5, <1>11, NumberedStep DEF b

(* A heading closes the section before it and opens the next. *)
LEMMA OpenSectionKeeps == SplitInv /\ OpenSection => SplitInv'
<1> SUFFICES ASSUME SplitInv, OpenSection
             PROVE  SplitInv'
  OBVIOUS
<1> DEFINE g == <<at>>
           b == at + 1
           v == Level(at)
           ps == ClosedSection
           op == [Enclosing(v) EXCEPT ![v] = at]
<1>1. /\ splitter = "numbered" /\ at <= Len(units) /\ IsHeading(at) /\ group' = g /\ at' = b
      /\ UNCHANGED textVars
      /\ UNCHANGED <<splitter, size, hasContext, heading, header>>
      /\ open' = op /\ pieces' = ps
  BY DEF OpenSection
<1>2. /\ TextOK /\ units \in Seq(UnitShape) /\ Len(units) \in Nat /\ Run(group) /\ PiecesOK(pieces)
      /\ Chosen(request) = "numbered" /\ open \in [1..3 -> 0..Len(units)]
      /\ NumberedInv(at, group, open, pieces)
      /\ at \in 1..Len(units) /\ b \in 1..Len(units) + 1 /\ at \in Nat
      /\ \A i \in 1..at : i \in 1..at - 1 \/ i = at
  BY <1>1, NumberedStateIs
<1>3. OpenInv(at, open)
  BY <1>2 DEF NumberedInv
<1>4. /\ PiecesOK(ps) /\ Behind(ps, <<>>, at)
      /\ \A i \in 1..at - 1 : Exempt(i) \/ Keeps(ps, i)
  BY <1>2, ClosedKeeps
<1>5. /\ Run(g) /\ g # <<>> /\ First(g) = at /\ Latest(g) = at /\ Members(g) = {at}
  BY <1>2, SingleRun
<1>6. b - 1 = at /\ at < b /\ b \in Nat /\ ~(at < at)
  BY <1>2
<1>7. v \in 1..3
  BY <1>1, LevelIs
<1>8. /\ op \in [1..3 -> 0..Len(units)]
      /\ \A l \in 1..3 : op[l] = IF l = v THEN at ELSE IF l < v THEN open[l] ELSE 0
  <2>1. Enclosing(v) = [l \in 1..3 |-> IF l < v THEN open[l] ELSE 0]
    BY <1>2 DEF Enclosing
  <2>2. op = [l \in 1..3 |-> IF l = v THEN at ELSE IF l < v THEN open[l] ELSE 0]
    BY <2>1
  <2> HIDE DEF op, v
  <2>3. \A l \in 1..3 : (IF l = v THEN at ELSE IF l < v THEN open[l] ELSE 0) \in 0..Len(units)
    <3>1. at \in 0..Len(units) /\ 0 \in 0..Len(units) /\ \A l \in 1..3 : open[l] \in 0..Len(units)
      BY <1>2
    <3> QED
      BY <3>1
  <2> QED
    BY <2>2, <2>3
<1> HIDE DEF g, b, ps, op, v
<1>9. OpenInv(b, op)
  <2> SUFFICES ASSUME NEW l \in 1..3, NEW j \in 1..Len(units)
               PROVE  op[l] = j <=> /\ j < b /\ IsHeading(j) /\ Level(j) = l
                                    /\ ~\E m \in j + 1..b - 1 : IsHeading(m) /\ Level(m) <= l
    BY DEF OpenInv
  <2>1. open[l] = j <=> /\ j < at /\ IsHeading(j) /\ Level(j) = l
                        /\ ~\E m \in j + 1..at - 1 : IsHeading(m) /\ Level(m) <= l
    BY <1>3 DEF OpenInv
  <2>2. op[l] = IF l = v THEN at ELSE IF l < v THEN open[l] ELSE 0
    BY <1>8
  <2>3. IsHeading(at) /\ Level(at) = v
    BY <1>1 DEF v
  <2>4. CASE j = at
    <3>1. ~\E m \in j + 1..b - 1 : IsHeading(m) /\ Level(m) <= l
      <4>1. \A m \in j + 1..b - 1 : FALSE
        BY <1>2, <1>6, <2>4
      <4> QED
        BY <4>1
    <3>2. open[l] # j /\ j # 0 /\ j < b
      BY <1>6, <2>1, <2>4
    <3>3. CASE l = v
      BY <2>2, <2>3, <2>4, <3>1, <3>2, <3>3
    <3>4. CASE l # v
      BY <2>2, <2>3, <2>4, <3>2, <3>4
    <3> QED
      BY <3>3, <3>4
  <2>5. CASE j < at
    <3>1. j < b /\ j # at /\ j # 0 /\ at \in j + 1..b - 1
          /\ (\A m \in j + 1..b - 1 : m \in j + 1..at - 1 \/ m = at)
          /\ (\A m \in j + 1..at - 1 : m \in j + 1..b - 1)
      BY <1>2, <1>6, <2>5
    <3>2. CASE l < v
      <4>1. (\E m \in j + 1..b - 1 : IsHeading(m) /\ Level(m) <= l)
              <=> (\E m \in j + 1..at - 1 : IsHeading(m) /\ Level(m) <= l)
        <5>1. ~(Level(at) <= l)
          BY <1>7, <2>3, <3>2
        <5> QED
          BY <3>1, <5>1
      <4>2. op[l] = open[l]
        BY <1>7, <2>2, <3>2
      <4> QED
        BY <2>1, <2>5, <3>1, <4>1, <4>2
    <3>3. CASE ~(l < v)
      <4>1. op[l] # j
        BY <2>2, <3>1, <3>3
      <4>2. Level(at) <= l
        BY <1>7, <2>3, <3>3
      <4>3. \E m \in j + 1..b - 1 : IsHeading(m) /\ Level(m) <= l
        BY <2>3, <3>1, <4>2
      <4> QED
        BY <4>1, <4>3
    <3> QED
      BY <3>2, <3>3
  <2>6. CASE ~(j < at) /\ j # at
    <3>1. ~(j < b) /\ j # 0
      BY <1>2, <1>6, <2>6 DEF b
    <3>2. op[l] # j
      BY <2>1, <2>2, <2>6, <3>1
    <3> QED
      BY <3>1, <3>2
  <2> QED
    BY <2>4, <2>5, <2>6
<1>10. /\ \A i \in First(g)..b - 1 : i \in Members(g)
       /\ \A i \in First(g) + 1..b - 1 : ~IsHeading(i)
       /\ IsHeading(First(g))
  <2>1. (\A i \in at..b - 1 : i = at) /\ (\A i \in at + 1..b - 1 : FALSE)
    BY <1>2, <1>6
  <2> QED
    BY <1>1, <1>5, <2>1
<1>11. \A i \in 1..b - 1 : Exempt(i) \/ i \in Members(g) \/ Keeps(ps, i)
  BY <1>2, <1>4, <1>5, <1>6
<1>12. Behind(ps, g, b)
  <2>1. \A i \in 1..Len(units) : i \in {at} \/ i >= b => i >= at
    BY <1>2, <1>6
  <2> QED
    BY <1>4, <1>5, <2>1 DEF Behind
<1>13. NumberedInv(b, g, op, ps)
  BY <1>2, <1>5, <1>6, <1>9, <1>10, <1>11, <1>12 DEF NumberedInv
<1> QED
  BY <1>1, <1>2, <1>4, <1>5, <1>8, <1>13, NumberedStep DEF b

-----------------------------------------------------------------------------
(* The end of the text, and every step.                                    *)

(* What is not split by size is given as units, not as letters. *)
LEMMA NoLetters ==
    ASSUME TextOK, Chosen(request) # "tokens"
    PROVE  chars = <<>> /\ \A p \in 0..Len(chars) - 1 : ~chars[p + 1]
<1>1. chars = <<>>
  BY DEF TextOK, BySize
<1>2. Len(chars) = 0
  BY <1>1
<1> QED
  BY <1>1, <1>2

(* Nothing is left out of the chunks when the splitter is through.          *)
LEMMA FinishSplitKeeps == SplitInv /\ FinishSplit => SplitInv'
<1> SUFFICES ASSUME SplitInv, FinishSplit
             PROVE  SplitInv'
  OBVIOUS
<1>1. /\ splitter' = IF pieces' = <<>> THEN "failed" ELSE "done"
      /\ UNCHANGED textVars
      /\ UNCHANGED <<at, group, size, hasContext, heading, header, open>>
  BY DEF FinishSplit
<1>2. /\ TextOK /\ units \in Seq(UnitShape) /\ Len(units) \in Nat /\ at \in Nat /\ Run(group)
      /\ PiecesOK(pieces) /\ splitter \in {"none", "done", "failed", Chosen(request)}
      /\ heading \in 0..Len(units) /\ header \in 0..Len(units)
      /\ open \in [1..3 -> 0..Len(units)]
  BY StateIs
<1>3. PiecesOK(pieces') /\ AllKept(pieces')
  <2>1. CASE splitter = "tokens" /\ at >= Len(chars) /\ UNCHANGED pieces
    <3>1. SizeInv(at, pieces)
      BY <1>2, <2>1, StateIs DEF StateOK
    <3>2. Len(chars) \in Nat /\ Len(units) = 0
      <4>1. units = <<>> /\ chars \in Seq(BOOLEAN)
        BY <1>2, <3>1 DEF TextOK, SizeInv
      <4> QED
        BY <4>1
    <3>3. \A p \in 0..Len(chars) - 1 : p \in 0..at - 1
      BY <1>2, <2>1, <3>2
    <3>4. \A p \in 0..Len(chars) - 1 : chars[p + 1] => LetterKept(pieces, p)
      BY <3>1, <3>3 DEF SizeInv
    <3>5. \A i \in 1..Len(units) : FALSE
      BY <3>2
    <3>6. AllKept(pieces)
      BY <3>4, <3>5 DEF AllKept
    <3> QED
      BY <1>2, <2>1, <3>6
  <2>2. CASE /\ splitter \in Prose /\ at > Len(units)
             /\ pieces' = Emit(group)
    <3> DEFINE rs == Emit(group)
    <3>1. SentenceInv(at, group, pieces) /\ Chosen(request) = splitter
      BY <2>2, StateIs DEF StateOK, Prose
    <3>2. /\ PiecesOK(rs) /\ GoesOn(pieces, rs)
          /\ \A i \in Members(group) : units[i].kind = "blank" \/ Keeps(rs, i)
      BY <1>2, <2>2, <3>1, EmitKeeps
    <3> HIDE DEF rs
    <3>3. \A i : Keeps(pieces, i) => Keeps(rs, i)
      BY <1>2, <3>2, PiecesAre, KeepsMore
    <3>4. \A i \in 1..Len(units) : i \in 1..at - 1
      BY <1>2, <2>2
    <3>5. \A i \in 1..Len(units) : Exempt(i) \/ Keeps(rs, i)
      BY <3>1, <3>2, <3>3, <3>4 DEF SentenceInv, Exempt
    <3>6. Chosen(request) # "tokens"
      BY <2>2, <3>1 DEF Prose
    <3>7. AllKept(rs)
      BY <1>2, <3>5, <3>6, NoLetters DEF AllKept
    <3> QED
      BY <2>2, <3>2, <3>7 DEF rs
  <2>3. CASE splitter \in Table /\ at > Len(units) /\ pieces' = Flushed
    <3> DEFINE rs == Flushed
    <3>1. /\ RowInv(at, group, size, hasContext, heading, header, pieces)
          /\ Chosen(request) = splitter
      BY <2>3, StateIs DEF StateOK, Table
    <3>2. /\ PiecesOK(rs)
          /\ \A i : Keeps(pieces, i) \/ i \in Members(group) => Keeps(rs, i)
      BY <1>2, <2>3, <3>1, FlushedKeeps
    <3> HIDE DEF rs
    <3>3. \A i \in 1..Len(units) : i \in 1..at - 1
      BY <1>2, <2>3
    <3>4. \A i \in 1..Len(units) : Exempt(i) \/ Keeps(rs, i)
      BY <3>1, <3>2, <3>3 DEF RowInv
    <3>5. Chosen(request) # "tokens"
      BY <2>3, <3>1 DEF Table
    <3>6. AllKept(rs)
      BY <1>2, <3>4, <3>5, NoLetters DEF AllKept
    <3> QED
      BY <2>3, <3>2, <3>6 DEF rs
  <2>4. CASE splitter = "numbered" /\ at > Len(units) /\ pieces' = ClosedSection
    <3> DEFINE rs == ClosedSection
    <3>1. NumberedInv(at, group, open, pieces) /\ Chosen(request) = "numbered"
      BY <2>4, StateIs DEF StateOK
    <3>2. PiecesOK(rs) /\ \A i \in 1..at - 1 : Exempt(i) \/ Keeps(rs, i)
      BY <1>2, <3>1, ClosedKeeps
    <3> HIDE DEF rs
    <3>3. \A i \in 1..Len(units) : i \in 1..at - 1
      BY <1>2, <2>4
    <3>4. AllKept(rs)
      BY <1>2, <3>1, <3>2, <3>3, NoLetters DEF AllKept
    <3> QED
      BY <2>4, <3>2, <3>4 DEF rs
  <2> QED
    BY <2>1, <2>2, <2>3, <2>4 DEF FinishSplit, Prose, Table
<1>4. /\ at' \in Nat /\ Run(group') /\ size' \in Nat /\ hasContext' \in BOOLEAN
      /\ heading' \in 0..Len(units) /\ header' \in 0..Len(units)
      /\ open' \in [1..3 -> 0..Len(units)] /\ splitter' \in {"done", "failed"}
  BY <1>1, <1>2, StateIs
<1>5. Chosen(request) \notin {"done", "failed"}
  BY <1>2, ChosenIs DEF TextOK
<1>6. StateOK(splitter', at', group', size', hasContext', heading', header', open', pieces')
  BY <1>3, <1>4 DEF StateOK
<1> QED
  BY <1>1, <1>2, <1>6, TextStays

(* A step of another component changes nothing. *)
LEMMA StutterKeeps == SplitInv /\ UNCHANGED chunkingVars => SplitInv'
<1> SUFFICES ASSUME SplitInv, UNCHANGED chunkingVars
             PROVE  SplitInv'
  OBVIOUS
<1>1. /\ UNCHANGED textVars
      /\ UNCHANGED <<splitter, at, group, size, hasContext, heading, header, open, pieces>>
  BY DEF chunkingVars, splitVars, textVars
<1>2. StateOK(splitter', at', group', size', hasContext', heading', header', open', pieces')
  BY <1>1, StateIs
<1> QED
  BY <1>1, <1>2, StateIs, TextStays

(* Every step of every splitter. *)
LEMMA NextKeeps == SplitInv /\ [SplitNext]_chunkingVars => SplitInv'
BY DispatchKeeps, SplitBySizeKeeps, AddSentenceKeeps, AddHeadingKeeps, AddBlankLineKeeps,
   AddOversizedLineKeeps, AddLineKeeps, AddSectionLineKeeps, OpenSectionKeeps,
   FinishSplitKeeps, StutterKeeps DEF SplitNext

(* Every chunk is a span of the text, lies behind the one before it, is     *)
(* within the limit or one of the stated exceptions to it, and names the    *)
(* headings that enclose it; and a splitter that is through has left none   *)
(* of the text out: for texts of any units and lengths, any limit, overlap  *)
(* and budget, and each of the splitters _dispatch_strategy can choose.     *)
THEOREM ChunksAreSound == SplitSpec => []SplitSound
<1>1. SplitInit => SplitInv
  BY InitSplitInv
<1>2. SplitInv /\ [SplitNext]_chunkingVars => SplitInv'
  BY NextKeeps
<1>3. SplitInv => SplitSound
  BY SplitInvIsSound
<1> QED
  BY <1>1, <1>2, <1>3, PTL DEF SplitSpec
=============================================================================
