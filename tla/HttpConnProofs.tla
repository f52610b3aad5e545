--------------------------- MODULE HttpConnProofs ---------------------------
(***************************************************************************)
(* Proofs about a connection of the HTTP server (HttpParse.tla and         *)
(* HttpConn.tla) and the sample that reads a request (RequestReader.tla),  *)
(* for the run's composition MCHttpConn.tla: byte streams of any length,   *)
(* however TCP splits them, bodies, headers and files of any size.         *)
(***************************************************************************)
EXTENDS MCHttpConn, FiniteSetTheorems, FunctionTheorems, SequenceTheorems, WellFoundedInduction, TLAPS

-----------------------------------------------------------------------------
(* Lines.  InOrder(S) is an enumeration; what a prefix of the bytes has for *)
(* lines is a prefix of the lines of all of them.                           *)

(* How many elements of S do not exceed i *)
Rank(S, i) == Cardinality({j \in S : j <= i})

(* The LFs that end a line: those before anything stray *)
LineEnds(s) == {i \in 2 .. Len(s) : s[i] = "n" /\ \A j \in Stray(s) : i < j}

UpTo(s, n) == {i \in LineEnds(s) : i <= n}

(* The lines of s that end at the positions S *)
LinesAt(s, S) ==
    [k \in 1 .. Cardinality(S) |->
        SubSeq(s, IF k = 1 THEN 1 ELSE InOrder(S)[k - 1] + 1, InOrder(S)[k] - 2)]

(* A set of naturals that is not empty has a least element, which is its    *)
(* minimum.                                                                 *)
LEMMA LeastElement ==
    ASSUME NEW S \in SUBSET Nat, S # {}
    PROVE  Min(S) \in S /\ \A m \in S : Min(S) <= m
<1>1. PICK n \in S : \A m \in S : ~ (<<m, n>> \in OpToRel(<, Nat))
  BY NatLessThanWellFounded, WFMin
<1>2. \A m \in S : ~ (m < n)
  BY <1>1 DEF OpToRel
<1>3. \A m \in S : n <= m
  BY <1>2, n \in Nat, S \subseteq Nat
<1> QED
  BY <1>3 DEF Min

(* A larger element has a larger rank. *)
LEMMA RankGrows ==
    ASSUME NEW S \in SUBSET Nat, IsFiniteSet(S), NEW i \in S, NEW j \in S, i < j
    PROVE  Rank(S, i) < Rank(S, j)
<1> DEFINE A == {k \in S : k <= i}
           B == {k \in S : k <= j}
<1>0. i \in Nat /\ j \in Nat /\ \A k \in S : k \in Nat
  OBVIOUS
<1>1. IsFiniteSet(B) /\ A \in SUBSET B /\ j \in B /\ j \notin A
  <2>1. B \in SUBSET S
    OBVIOUS
  <2>2. IsFiniteSet(B)
    BY <2>1, FS_Subset
  <2>3. \A k \in S : k <= i => k <= j
    BY <1>0
  <2>4. ~ (j <= i) /\ j <= j
    BY <1>0
  <2>5. A \in SUBSET B /\ j \in B /\ j \notin A
    BY <2>3, <2>4
  <2> QED
    BY <2>2, <2>5
<1>2. Cardinality(A) <= Cardinality(B) /\ Cardinality(A) # Cardinality(B)
  <2> HIDE DEF A, B
  <2> QED
    BY <1>1, FS_Subset
<1>3. Cardinality(A) \in Nat /\ Cardinality(B) \in Nat
  <2>1. IsFiniteSet(A)
    BY <1>1, FS_Subset
  <2> QED
    BY <1>1, <2>1, FS_CardinalityType
<1> HIDE DEF A, B
<1>4. Cardinality(A) < Cardinality(B)
  BY <1>2, <1>3
<1> QED
  BY <1>4 DEF A, B, Rank

(* Ranks number the elements from 1. *)
LEMMA RankRange ==
    ASSUME NEW S \in SUBSET Nat, IsFiniteSet(S), NEW i \in S
    PROVE  Rank(S, i) \in 1 .. Cardinality(S)
<1> DEFINE A == {k \in S : k <= i}
<1>1. A \in SUBSET S /\ i \in A
  BY i \in Nat
<1>2. IsFiniteSet(A) /\ Cardinality(A) <= Cardinality(S)
  BY <1>1, FS_Subset
<1>3. Cardinality(A) \in Nat /\ Cardinality(S) \in Nat /\ Cardinality(A) # 0
  BY <1>1, <1>2, FS_CardinalityType, FS_EmptySet
<1> HIDE DEF A
<1>4. Cardinality(A) \in 1 .. Cardinality(S)
  BY <1>2, <1>3
<1> QED
  BY <1>4 DEF A, Rank

(* InOrder(S) enumerates S, each element at its rank. *)
LEMMA InOrderIs ==
    ASSUME NEW S \in SUBSET Nat, IsFiniteSet(S)
    PROVE  /\ Cardinality(S) \in Nat
           /\ InOrder(S) \in [1 .. Cardinality(S) -> S]
           /\ \A i \in S : Rank(S, i) \in 1 .. Cardinality(S) /\ InOrder(S)[Rank(S, i)] = i
           /\ \A k \in 1 .. Cardinality(S) : Rank(S, InOrder(S)[k]) = k
<1> DEFINE n == Cardinality(S)
           f == [i \in S |-> Rank(S, i)]
<1>1. n \in Nat
  BY FS_CardinalityType
<1>2. \A i \in S : Rank(S, i) \in 1 .. n
  BY RankRange
<1>3. \A i, j \in S : Rank(S, i) = Rank(S, j) => i = j
  <2> SUFFICES ASSUME NEW i \in S, NEW j \in S, i # j
               PROVE  Rank(S, i) # Rank(S, j)
    OBVIOUS
  <2>1. CASE i < j
    <3>1. Rank(S, i) < Rank(S, j)
      BY <2>1, RankGrows
    <3> QED
      BY <3>1, <1>2
  <2>2. CASE j < i
    <3>1. Rank(S, j) < Rank(S, i)
      BY <2>2, RankGrows
    <3> QED
      BY <3>1, <1>2
  <2> QED
    BY <2>1, <2>2, i \in Nat, j \in Nat
<1>4. f \in Injection(S, 1 .. n)
  <2>1. f \in [S -> 1 .. n]
    BY <1>2
  <2>2. \A a, b \in S : f[a] = f[b] => a = b
    BY <1>3
  <2> HIDE DEF f, n
  <2> QED
    BY <2>1, <2>2, Fun_IsInj
<1>5. f \in Surjection(S, 1 .. n)
  <2>1. IsFiniteSet(1 .. n) /\ Cardinality(1 .. n) = n
    BY <1>1, FS_Interval
  <2> HIDE DEF f
  <2> QED
    BY <1>4, <2>1, FS_Injection
<1>6. \A k \in 1 .. n : \E i \in S : Rank(S, i) = k
  <2>1. \A k \in 1 .. n : \E i \in S : f[i] = k
    <3> HIDE DEF f, n
    <3> QED
      BY <1>5, Fun_SurjectionProperties
  <2> QED
    BY <2>1
<1>7. InOrder(S) = [k \in 1 .. n |-> CHOOSE i \in S : Rank(S, i) = k]
  BY DEF InOrder, Rank
<1> HIDE DEF f, n
<1>8. \A k \in 1 .. n : InOrder(S)[k] \in S /\ Rank(S, InOrder(S)[k]) = k
  BY <1>6, <1>7
<1>9. InOrder(S) \in [1 .. n -> S]
  BY <1>7, <1>8
<1>10. \A i \in S : InOrder(S)[Rank(S, i)] = i
  BY <1>2, <1>3, <1>8
<1> QED
  BY <1>1, <1>2, <1>8, <1>9, <1>10 DEF n

(* Larger elements added behind those of S leave these where they are. *)
LEMMA InOrderExtends ==
    ASSUME NEW T \in SUBSET Nat, IsFiniteSet(T), NEW S \in SUBSET T,
           \A i \in S : \A j \in T \ S : i < j
    PROVE  /\ IsFiniteSet(S) /\ Cardinality(S) \in Nat /\ Cardinality(T) \in Nat
           /\ Cardinality(S) <= Cardinality(T)
           /\ \A k \in 1 .. Cardinality(S) : InOrder(T)[k] = InOrder(S)[k]
<1>1. IsFiniteSet(S) /\ Cardinality(S) <= Cardinality(T)
  BY FS_Subset
<1>2. Cardinality(S) \in Nat /\ Cardinality(T) \in Nat
  BY <1>1, FS_CardinalityType
<1>3. \A i \in S : Rank(T, i) = Rank(S, i)
  <2> SUFFICES ASSUME NEW i \in S PROVE Rank(T, i) = Rank(S, i)
    OBVIOUS
  <2>1. \A j \in T : j \notin S => ~ (j <= i)
    <3> SUFFICES ASSUME NEW j \in T, j \notin S PROVE ~ (j <= i)
      OBVIOUS
    <3>1. i < j /\ i \in Nat /\ j \in Nat
      OBVIOUS
    <3> QED
      BY <3>1
  <2>2. {j \in T : j <= i} = {j \in S : j <= i}
    BY <2>1
  <2> QED
    BY <2>2 DEF Rank
<1>4. ASSUME NEW k \in 1 .. Cardinality(S)
      PROVE  InOrder(T)[k] = InOrder(S)[k]
  <2>1. InOrder(S)[k] \in S /\ Rank(S, InOrder(S)[k]) = k
    BY <1>1, InOrderIs
  <2>2. Rank(T, InOrder(S)[k]) = k
    BY <2>1, <1>3
  <2> QED
    BY <2>1, <2>2, InOrderIs
<1> QED
  BY <1>1, <1>2, <1>4

(* A larger element comes last. *)
LEMMA InOrderAppends ==
    ASSUME NEW S \in SUBSET Nat, IsFiniteSet(S), NEW x \in Nat, \A i \in S : i < x
    PROVE  /\ IsFiniteSet(S \union {x}) /\ Cardinality(S) \in Nat
           /\ Cardinality(S \union {x}) = Cardinality(S) + 1
           /\ InOrder(S \union {x})[Cardinality(S) + 1] = x
           /\ \A k \in 1 .. Cardinality(S) : InOrder(S \union {x})[k] = InOrder(S)[k]
<1> DEFINE T == S \union {x}
<1>1. x \notin S
  OBVIOUS
<1>2. IsFiniteSet(T) /\ Cardinality(T) = Cardinality(S) + 1
  BY <1>1, FS_AddElement
<1>3. {j \in T : j <= x} = T
  <2>1. \A j \in T : j <= x
    <3>1. \A j \in S : j \in Nat /\ j < x
      OBVIOUS
    <3> QED
      BY <3>1
  <2> QED
    BY <2>1
<1>4. Rank(T, x) = Cardinality(S) + 1
  BY <1>2, <1>3 DEF Rank
<1>5. T \in SUBSET Nat /\ x \in T /\ S \in SUBSET T
  OBVIOUS
<1>6. \A i \in S : \A j \in T \ S : i < j
  OBVIOUS
<1> HIDE DEF T
<1>7. InOrder(T)[Cardinality(S) + 1] = x
  BY <1>2, <1>4, <1>5, InOrderIs
<1>8. Cardinality(S) \in Nat /\ \A k \in 1 .. Cardinality(S) : InOrder(T)[k] = InOrder(S)[k]
  BY <1>2, <1>5, <1>6, InOrderExtends
<1> QED
  BY <1>2, <1>7, <1>8 DEF T

(* The well formed bytes end where the first stray one is. *)
LEMMA WellFormedIs ==
    ASSUME NEW X, NEW s \in Seq(X)
    PROVE  /\ WellFormed(s) \in Seq(X)
           /\ Len(WellFormed(s)) <= Len(s)
           /\ \A i \in 1 .. Len(WellFormed(s)) : WellFormed(s)[i] = s[i]
           /\ {i \in 2 .. Len(WellFormed(s)) : WellFormed(s)[i] = "n"} = LineEnds(s)
<1>1. Len(s) \in Nat /\ \A i \in 1 .. Len(s) : s[i] \in X
  BY LenProperties, ElementOfSeq
<1>2. Stray(s) \in SUBSET (1 .. Len(s))
  BY DEF Stray
<1>3. CASE Stray(s) = {}
  <2>1. WellFormed(s) = s
    BY <1>3 DEF WellFormed
  <2> QED
    BY <1>1, <1>3, <2>1 DEF LineEnds
<1>4. CASE Stray(s) # {}
  <2> DEFINE m == Min(Stray(s))
             w == SubSeq(s, 1, m - 1)
  <2>1. m \in Stray(s) /\ (\A j \in Stray(s) : m <= j) /\ m \in 1 .. Len(s)
    BY <1>1, <1>2, <1>4, LeastElement
  <2>2. WellFormed(s) = w
    BY <1>4 DEF WellFormed
  <2> HIDE DEF m
  <2>3. w \in Seq(X) /\ Len(w) = m - 1 /\ \A i \in 1 .. m - 1 : w[i] = s[i]
    <3>1. m - 1 \in Int /\ \A i \in 1 .. m - 1 : s[i] \in X
      BY <1>1, <2>1
    <3>2. /\ w \in Seq(X)
          /\ Len(w) = IF 1 <= m - 1 THEN m - 1 - 1 + 1 ELSE 0
          /\ \A i \in 1 .. m - 1 - 1 + 1 : w[i] = s[1 + i - 1]
      BY <3>1, SubSeqProperties
    <3> HIDE DEF w
    <3> QED
      BY <2>1, <3>2
  <2> HIDE DEF w
  <2>4. \A i \in 1 .. Len(s) : i <= m - 1 <=> \A j \in Stray(s) : i < j
    BY <1>1, <1>2, <2>1
  <2>5. \A i : i \in 2 .. Len(w) /\ w[i] = "n" <=> i \in LineEnds(s)
    BY <1>1, <2>1, <2>3, <2>4 DEF LineEnds
  <2> QED
    BY <1>1, <2>1, <2>2, <2>3, <2>5
<1> QED
  BY <1>3, <1>4

(* The ends of lines are a finite set of positions. *)
LEMMA LineEndsFinite ==
    ASSUME NEW X, NEW s \in Seq(X), NEW S \in SUBSET LineEnds(s)
    PROVE  /\ S \in SUBSET (2 .. Len(s)) /\ S \in SUBSET Nat
           /\ IsFiniteSet(S) /\ Cardinality(S) \in Nat
<1>1. Len(s) \in Nat
  BY LenProperties
<1>2. S \in SUBSET (2 .. Len(s)) /\ S \in SUBSET Nat
  BY <1>1 DEF LineEnds
<1>3. IsFiniteSet(2 .. Len(s))
  BY <1>1, FS_Interval
<1>4. IsFiniteSet(S)
  BY <1>2, <1>3, FS_Subset
<1> QED
  BY <1>2, <1>4, FS_CardinalityType

(* Bytes that two sequences have in common. *)
LEMMA SameSubSeq ==
    ASSUME NEW X, NEW s \in Seq(X), NEW t \in Seq(X), NEW n \in Nat,
           n <= Len(s), n <= Len(t), \A i \in 1 .. n : s[i] = t[i],
           NEW a \in Nat \ {0}, NEW b \in Int, b <= n
    PROVE  SubSeq(s, a, b) = SubSeq(t, a, b)
<1>1. /\ Len(s) \in Nat /\ Len(t) \in Nat
      /\ \A i \in 1 .. Len(s) : s[i] \in X
      /\ \A i \in 1 .. Len(t) : t[i] \in X
  BY LenProperties, ElementOfSeq
<1>2. (\A i \in a .. b : s[i] \in X) /\ (\A i \in a .. b : t[i] \in X)
  BY <1>1
<1> DEFINE u == SubSeq(s, a, b)
           v == SubSeq(t, a, b)
<1>3. /\ u \in Seq(X) /\ Len(u) = IF a <= b THEN b - a + 1 ELSE 0
      /\ \A i \in 1 .. b - a + 1 : u[i] = s[a + i - 1]
  BY <1>2, a \in Int, SubSeqProperties
<1>4. /\ v \in Seq(X) /\ Len(v) = IF a <= b THEN b - a + 1 ELSE 0
      /\ \A i \in 1 .. b - a + 1 : v[i] = t[a + i - 1]
  BY <1>2, a \in Int, SubSeqProperties
<1> HIDE DEF u, v
<1>5. \A i \in 1 .. Len(u) : i \in 1 .. b - a + 1 /\ a + i - 1 \in 1 .. n
  BY <1>3
<1>6. \A i \in 1 .. Len(u) : u[i] = v[i]
  BY <1>3, <1>4, <1>5
<1>7. u = v
  BY <1>3, <1>4, <1>6, SeqEqual
<1> QED
  BY <1>7 DEF u, v

(* The reference's lines, and where they end. *)
LEMMA SplitLinesIs ==
    ASSUME NEW X, NEW s \in Seq(X)
    PROVE  /\ Ends(WellFormed(s)) = InOrder(LineEnds(s))
           /\ SplitLines(WellFormed(s)) = LinesAt(s, LineEnds(s))
<1> DEFINE w == WellFormed(s)
           E == LineEnds(s)
           n == Cardinality(E)
<1>1. /\ w \in Seq(X) /\ Len(w) <= Len(s) /\ \A i \in 1 .. Len(w) : w[i] = s[i]
      /\ {i \in 2 .. Len(w) : w[i] = "n"} = E
  BY WellFormedIs
<1>2. Ends(w) = InOrder(E)
  BY <1>1 DEF Ends
<1>3. E \in SUBSET (2 .. Len(w)) /\ Len(w) \in Nat
  BY <1>1, LenProperties
<1>4. n \in Nat /\ InOrder(E) \in [1 .. n -> E]
  BY LineEndsFinite, InOrderIs
<1>5. SplitLines(w) = [k \in 1 .. n |->
          SubSeq(w, IF k = 1 THEN 1 ELSE InOrder(E)[k - 1] + 1, InOrder(E)[k] - 2)]
  BY <1>2, <1>4 DEF SplitLines
<1> HIDE DEF w, E
<1>6. ASSUME NEW k \in 1 .. n
      PROVE  SubSeq(w, IF k = 1 THEN 1 ELSE InOrder(E)[k - 1] + 1, InOrder(E)[k] - 2)
             = SubSeq(s, IF k = 1 THEN 1 ELSE InOrder(E)[k - 1] + 1, InOrder(E)[k] - 2)
  <2> DEFINE a == IF k = 1 THEN 1 ELSE InOrder(E)[k - 1] + 1
             b == InOrder(E)[k] - 2
  <2>1. InOrder(E)[k] \in 2 .. Len(w)
    BY <1>3, <1>4
  <2>2. k # 1 => InOrder(E)[k - 1] \in 2 .. Len(w)
    <3> HIDE DEF n
    <3>1. k # 1 => k - 1 \in 1 .. n
      BY <1>4
    <3> QED
      BY <1>3, <1>4, <3>1
  <2>3. a \in Nat \ {0} /\ b \in Int /\ b <= Len(w)
    BY <1>3, <2>1, <2>2
  <2> HIDE DEF a, b
  <2>4. SubSeq(w, a, b) = SubSeq(s, a, b)
    BY <1>1, <1>3, <2>3, SameSubSeq
  <2> QED
    BY <2>4 DEF a, b
<1>7. SplitLines(w) = [k \in 1 .. n |->
          SubSeq(s, IF k = 1 THEN 1 ELSE InOrder(E)[k - 1] + 1, InOrder(E)[k] - 2)]
  BY <1>5, <1>6
<1> QED
  BY <1>2, <1>7 DEF w, E, LinesAt

(* Of the first n bytes: their lines are those of all that end there. *)
LEMMA PrefixLines ==
    ASSUME NEW X, NEW s \in Seq(X), NEW n \in 0 .. Len(s)
    PROVE  /\ Ends(WellFormed(SubSeq(s, 1, n))) = InOrder(UpTo(s, n))
           /\ SplitLines(WellFormed(SubSeq(s, 1, n))) = LinesAt(s, UpTo(s, n))
<1> DEFINE t == SubSeq(s, 1, n)
           E == UpTo(s, n)
<1>1. Len(s) \in Nat /\ n \in Nat /\ n <= Len(s) /\ \A i \in 1 .. Len(s) : s[i] \in X
  BY LenProperties, ElementOfSeq
<1>2. t \in Seq(X) /\ Len(t) = n /\ \A i \in 1 .. n : t[i] = s[i]
  <2>1. n \in Int /\ \A i \in 1 .. n : s[i] \in X
    BY <1>1
  <2>2. /\ t \in Seq(X) /\ Len(t) = IF 1 <= n THEN n - 1 + 1 ELSE 0
        /\ \A i \in 1 .. n - 1 + 1 : t[i] = s[1 + i - 1]
    BY <2>1, SubSeqProperties
  <2> HIDE DEF t
  <2> QED
    BY <1>1, <2>2
<1> HIDE DEF t
<1>3. ASSUME NEW i \in 2 .. n, s[i] = "n"
      PROVE  (\A j \in Stray(t) : i < j) <=> (\A j \in Stray(s) : i < j)
  <2>1. \A j \in 1 .. i : j \in Stray(t) <=> j \in Stray(s)
    <3> SUFFICES ASSUME NEW j \in 1 .. i PROVE j \in Stray(t) <=> j \in Stray(s)
      OBVIOUS
    <3>1. j \in 1 .. n /\ j \in 1 .. Len(s) /\ t[j] = s[j]
      BY <1>1, <1>2
    <3>2. j # 1 => t[j - 1] = s[j - 1]
      BY <1>1, <1>2
    <3>3. CASE j < i
      <4>1. j < n /\ j < Len(s) /\ t[j + 1] = s[j + 1]
        BY <1>1, <1>2, <3>3
      <4> QED
        BY <1>2, <3>1, <3>2, <4>1 DEF Stray
    <3>4. CASE j = i
      BY <1>2, <1>3, <3>1, <3>2, <3>4 DEF Stray
    <3> QED
      BY <3>3, <3>4
  <2>2. (\A j \in Stray(t) : j \in Nat \ {0}) /\ (\A j \in Stray(s) : j \in Nat \ {0})
    BY <1>1, <1>2 DEF Stray
  <2> QED
    BY <2>1, <2>2
<1>4. LineEnds(t) = E
  BY <1>1, <1>2, <1>3 DEF LineEnds, UpTo
<1>5. Ends(WellFormed(t)) = InOrder(E) /\ SplitLines(WellFormed(t)) = LinesAt(t, E)
  BY <1>2, <1>4, SplitLinesIs
<1> DEFINE c == Cardinality(E)
<1>6. c \in Nat /\ InOrder(E) \in [1 .. c -> E] /\ E \in SUBSET (2 .. n)
  <2>1. E \in SUBSET LineEnds(t) /\ E \in SUBSET LineEnds(s)
    BY <1>4 DEF UpTo
  <2>2. E \in SUBSET (2 .. n) /\ E \in SUBSET Nat /\ IsFiniteSet(E)
    BY <1>2, <2>1, LineEndsFinite
  <2> QED
    BY <2>2, InOrderIs
<1> HIDE DEF E
<1>7. ASSUME NEW k \in 1 .. c
      PROVE  SubSeq(t, IF k = 1 THEN 1 ELSE InOrder(E)[k - 1] + 1, InOrder(E)[k] - 2)
             = SubSeq(s, IF k = 1 THEN 1 ELSE InOrder(E)[k - 1] + 1, InOrder(E)[k] - 2)
  <2> DEFINE a == IF k = 1 THEN 1 ELSE InOrder(E)[k - 1] + 1
             b == InOrder(E)[k] - 2
  <2>1. InOrder(E)[k] \in 2 .. n
    BY <1>6
  <2>2. k # 1 => InOrder(E)[k - 1] \in 2 .. n
    <3> HIDE DEF c
    <3>1. k # 1 => k - 1 \in 1 .. c
      BY <1>6
    <3> QED
      BY <1>6, <3>1
  <2>3. a \in Nat \ {0} /\ b \in Int /\ b <= n
    BY <1>1, <2>1, <2>2
  <2>4. \A i \in 1 .. n : t[i] = s[i]
    BY <1>2
  <2> HIDE DEF a, b
  <2>5. SubSeq(t, a, b) = SubSeq(s, a, b)
    BY <1>1, <1>2, <2>3, <2>4, SameSubSeq
  <2> QED
    BY <2>5 DEF a, b
<1>8. LinesAt(t, E) = LinesAt(s, E)
  BY <1>7 DEF LinesAt
<1> QED
  BY <1>5, <1>8 DEF t, E

(* As a sequence. *)
LEMMA LinesAtType ==
    ASSUME NEW X, NEW s \in Seq(X), NEW S \in SUBSET LineEnds(s)
    PROVE  /\ LinesAt(s, S) \in Seq(Seq(X))
           /\ Len(LinesAt(s, S)) = Cardinality(S)
           /\ Len(LinesAt(s, S)) \in Nat
           /\ DOMAIN LinesAt(s, S) = 1 .. Len(LinesAt(s, S))
<1> DEFINE c == Cardinality(S)
           ls == LinesAt(s, S)
<1>1. /\ S \in SUBSET (2 .. Len(s)) /\ S \in SUBSET Nat /\ IsFiniteSet(S) /\ c \in Nat
      /\ InOrder(S) \in [1 .. c -> S] /\ Len(s) \in Nat
  BY LineEndsFinite, InOrderIs, LenProperties
<1> HIDE DEF c
<1>2. ASSUME NEW k \in 1 .. c
      PROVE  SubSeq(s, IF k = 1 THEN 1 ELSE InOrder(S)[k - 1] + 1, InOrder(S)[k] - 2) \in Seq(X)
  <2> DEFINE a == IF k = 1 THEN 1 ELSE InOrder(S)[k - 1] + 1
             b == InOrder(S)[k] - 2
  <2>1. InOrder(S)[k] \in 2 .. Len(s)
    BY <1>1
  <2>2. k # 1 => InOrder(S)[k - 1] \in 2 .. Len(s)
    <3>1. k # 1 => k - 1 \in 1 .. c
      BY <1>1
    <3> QED
      BY <1>1, <3>1
  <2>3. a \in Int /\ b \in Int /\ 1 <= a /\ b <= Len(s)
    BY <1>1, <2>1, <2>2
  <2> HIDE DEF a, b
  <2>4. \A i \in a .. b : i \in 1 .. Len(s)
    BY <1>1, <2>3
  <2>5. \A i \in a .. b : s[i] \in X
    BY <2>4, ElementOfSeq
  <2>6. SubSeq(s, a, b) \in Seq(X)
    BY <2>3, <2>5, SubSeqProperties
  <2> QED
    BY <2>6 DEF a, b
<1>3. ls \in [1 .. c -> Seq(X)]
  BY <1>2 DEF LinesAt, c
<1>4. DOMAIN ls = 1 .. c
  BY <1>3
<1> HIDE DEF ls
<1>5. ls \in Seq(Seq(X))
  BY <1>1, <1>3, SeqDef
<1>6. Len(ls) = c
  BY <1>1, <1>4, <1>5, LenProperties
<1> QED
  BY <1>1, <1>4, <1>5, <1>6 DEF c, ls

(* More bytes, more lines behind the ones there are. *)
LEMMA LinesExtend ==
    ASSUME NEW X, NEW s \in Seq(X), NEW m \in Nat, NEW n \in Nat, m <= n
    PROVE  /\ Len(LinesAt(s, UpTo(s, m))) <= Len(LinesAt(s, UpTo(s, n)))
           /\ \A k \in 1 .. Len(LinesAt(s, UpTo(s, m))) :
                  LinesAt(s, UpTo(s, n))[k] = LinesAt(s, UpTo(s, m))[k]
           /\ IsPrefix(LinesAt(s, UpTo(s, m)), LinesAt(s, UpTo(s, n)))
<1> DEFINE S == UpTo(s, m)
           T == UpTo(s, n)
           ls == LinesAt(s, S)
           lt == LinesAt(s, T)
<1>1. S \in SUBSET LineEnds(s) /\ T \in SUBSET LineEnds(s)
  BY DEF UpTo
<1>2. LineEnds(s) \in SUBSET Nat
  BY <1>1, LineEndsFinite
<1>3. S \in SUBSET T /\ \A i \in S : \A j \in T \ S : i < j
  BY <1>2 DEF UpTo
<1> HIDE DEF S, T
<1>4. T \in SUBSET Nat /\ IsFiniteSet(T)
  BY <1>1, LineEndsFinite
<1>5. /\ Cardinality(S) \in Nat /\ Cardinality(T) \in Nat /\ Cardinality(S) <= Cardinality(T)
      /\ \A k \in 1 .. Cardinality(S) : InOrder(T)[k] = InOrder(S)[k]
  BY <1>3, <1>4, InOrderExtends
<1>6. /\ ls \in Seq(Seq(X)) /\ Len(ls) = Cardinality(S)
      /\ lt \in Seq(Seq(X)) /\ Len(lt) = Cardinality(T)
  BY <1>1, LinesAtType
<1>7. \A k \in 1 .. Cardinality(S) : ls[k] = lt[k]
  <2> SUFFICES ASSUME NEW k \in 1 .. Cardinality(S) PROVE ls[k] = lt[k]
    OBVIOUS
  <2>1. k \in 1 .. Cardinality(T) /\ (k # 1 => k - 1 \in 1 .. Cardinality(S))
    BY <1>5
  <2>2. InOrder(T)[k] = InOrder(S)[k] /\ (k # 1 => InOrder(T)[k - 1] = InOrder(S)[k - 1])
    BY <1>5, <2>1
  <2> QED
    BY <2>1, <2>2 DEF LinesAt
<1> HIDE DEF ls, lt
<1>8. SubSeq(ls, 1, Len(ls)) = SubSeq(lt, 1, Len(ls))
  BY <1>5, <1>6, <1>7, SameSubSeq
<1> QED
  BY <1>5, <1>6, <1>7, <1>8 DEF IsPrefix, S, T, ls, lt

(* One line more, from behind the last one's end. *)
LEMMA LinesAppend ==
    ASSUME NEW X, NEW s \in Seq(X), NEW S \in SUBSET LineEnds(s), NEW x \in LineEnds(s),
           NEW a \in Nat, a < x,
           \/ S = {} /\ a = 0
           \/ a \in S /\ \A i \in S : i <= a
    PROVE  /\ LinesAt(s, S \union {x}) = Append(LinesAt(s, S), SubSeq(s, a + 1, x - 2))
           /\ S # {} => InOrder(S)[Cardinality(S)] = a
<1> DEFINE T == S \union {x}
           c == Cardinality(S)
           ls == LinesAt(s, S)
           lt == LinesAt(s, T)
           u == SubSeq(s, a + 1, x - 2)
<1>1. /\ S \in SUBSET Nat /\ IsFiniteSet(S) /\ c \in Nat
      /\ x \in Nat /\ T \in SUBSET LineEnds(s) /\ x <= Len(s) /\ Len(s) \in Nat
  <2>1. LineEnds(s) \in SUBSET (2 .. Len(s)) /\ Len(s) \in Nat
    BY LineEndsFinite, LenProperties
  <2>2. x \in Nat /\ x <= Len(s)
    BY <2>1
  <2> QED
    BY <2>1, <2>2, LineEndsFinite
<1>2. \A i \in S : i < x
  <2> SUFFICES ASSUME NEW i \in S PROVE i < x
    OBVIOUS
  <2>1. i <= a /\ i \in Nat
    BY <1>1
  <2> QED
    BY <1>1, <2>1
<1>3. /\ Cardinality(T) = c + 1 /\ InOrder(T)[c + 1] = x
      /\ \A k \in 1 .. c : InOrder(T)[k] = InOrder(S)[k]
  BY <1>1, <1>2, InOrderAppends
<1>4. S # {} => InOrder(S)[c] = a
  <2> SUFFICES ASSUME S # {} PROVE InOrder(S)[c] = a
    OBVIOUS
  <2>1. {j \in S : j <= a} = S /\ a \in S
    OBVIOUS
  <2>2. Rank(S, a) = c
    BY <2>1 DEF Rank
  <2> QED
    BY <1>1, <2>1, <2>2, InOrderIs
<1>5. c = 0 <=> S = {}
  BY <1>1, FS_EmptySet
<1> HIDE DEF T, c
<1>6. /\ ls \in Seq(Seq(X)) /\ Len(ls) = c
      /\ lt \in Seq(Seq(X)) /\ Len(lt) = c + 1
  BY <1>1, <1>3, LinesAtType DEF c
<1>7. \A k \in 1 .. c : lt[k] = ls[k]
  <2> SUFFICES ASSUME NEW k \in 1 .. c PROVE lt[k] = ls[k]
    OBVIOUS
  <2>1. k \in 1 .. c + 1 /\ (k # 1 => k - 1 \in 1 .. c)
    BY <1>1
  <2>2. InOrder(T)[k] = InOrder(S)[k] /\ (k # 1 => InOrder(T)[k - 1] = InOrder(S)[k - 1])
    BY <1>3, <2>1
  <2> QED
    BY <1>3, <2>1, <2>2 DEF LinesAt, c
<1>8. lt[c + 1] = u
  <2>1. \A k \in 1 .. c + 1 :
            lt[k] = SubSeq(s, IF k = 1 THEN 1 ELSE InOrder(T)[k - 1] + 1, InOrder(T)[k] - 2)
    BY <1>3 DEF LinesAt
  <2> HIDE DEF lt
  <2>2. ASSUME NEW k \in 1 .. c + 1, k = c + 1
        PROVE  lt[k] = u
    <3>1. lt[k] = SubSeq(s, IF k = 1 THEN 1 ELSE InOrder(T)[k - 1] + 1, InOrder(T)[k] - 2)
      BY <2>1
    <3>2. InOrder(T)[k] = x
      BY <1>3, <2>2
    <3>3. (IF k = 1 THEN 1 ELSE InOrder(T)[k - 1] + 1) = a + 1
      <4>1. CASE c = 0
        BY <1>5, <2>2, <4>1
      <4>2. CASE c # 0
        <5>1. c \in 1 .. c /\ k - 1 = c /\ k # 1
          BY <1>1, <2>2, <4>2
        <5>2. InOrder(T)[c] = a
          BY <1>3, <1>4, <1>5, <4>2, <5>1
        <5> QED
          BY <5>1, <5>2
      <4> QED
        BY <4>1, <4>2
    <3> QED
      BY <3>1, <3>2, <3>3
  <2>3. c + 1 \in 1 .. c + 1
    BY <1>1
  <2> QED
    BY <2>2, <2>3
<1>9. u \in Seq(X)
  <2>1. a + 1 \in Int /\ x - 2 \in Int /\ \A i \in a + 1 .. x - 2 : i \in 1 .. Len(s)
    BY <1>1
  <2>2. \A i \in a + 1 .. x - 2 : s[i] \in X
    BY <2>1, ElementOfSeq
  <2> QED
    BY <2>1, <2>2, SubSeqProperties
<1> HIDE DEF ls, lt, u
<1>10. /\ Append(ls, u) \in Seq(Seq(X)) /\ Len(Append(ls, u)) = c + 1
       /\ \A k \in 1 .. c : Append(ls, u)[k] = ls[k]
       /\ Append(ls, u)[c + 1] = u
  BY <1>6, <1>9, AppendProperties
<1>11. \A k \in 1 .. Len(lt) : lt[k] = Append(ls, u)[k]
  BY <1>1, <1>6, <1>7, <1>8, <1>10
<1>12. lt = Append(ls, u)
  BY <1>6, <1>10, <1>11, SeqEqual
<1> QED
  BY <1>4, <1>12 DEF T, ls, lt, u, c

-----------------------------------------------------------------------------
(* parse_line() *)

(* Neither CR nor LF behind position i, up to j *)
Plain(s, i, j) == \A k \in i + 1 .. j : s[k] \notin {"r", "n"}

(* Where a line may begin *)
LineStart(s, i) == i = 0 \/ i \in LineEnds(s)

(* m_check_idx only moves on, within the bytes that arrived. *)
LEMMA ParseLineRange ==
    ASSUME NEW X, NEW b \in Seq(X), NEW chk \in 0 .. Len(b)
    PROVE  /\ ParseLine(b, chk).idx \in chk .. Len(b)
           /\ ParseLine(b, chk).status \in {"ok", "open", "bad"}
<1> DEFINE stops == {i \in chk .. Len(b) - 1 : Byte(b, i) \in {"r", "n"}}
           i == Min(stops)
<1>1. Len(b) \in Nat /\ chk \in Nat /\ chk <= Len(b)
  BY LenProperties
<1>2. CASE stops = {}
  <2>1. ParseLine(b, chk) = [status |-> "open", idx |-> Len(b)]
    BY <1>2 DEF ParseLine
  <2> QED
    BY <1>1, <2>1
<1>3. CASE stops # {}
  <2>1. stops \in SUBSET Nat
    BY <1>1
  <2>2. i \in stops
    <3> HIDE DEF stops
    <3> QED
      BY <1>3, <2>1, LeastElement
  <2>3. i \in chk .. Len(b) - 1 /\ (Byte(b, i) = "r" \/ Byte(b, i) = "n")
    BY <2>2
  <2>4. ParseLine(b, chk) =
            IF Byte(b, i) = "r" /\ i + 1 = Len(b) THEN [status |-> "open", idx |-> i]
            ELSE IF Byte(b, i) = "r" /\ Byte(b, i + 1) = "n" THEN [status |-> "ok", idx |-> i + 2]
            ELSE IF Byte(b, i) = "n" /\ i > 1 /\ Byte(b, i - 1) = "r"
                 THEN [status |-> "ok", idx |-> i]
            ELSE [status |-> "bad", idx |-> i]
    BY <1>3 DEF ParseLine
  <2> HIDE DEF i, stops
  <2>5. i + 1 # Len(b) => i + 2 \in chk .. Len(b)
    BY <1>1, <2>3
  <2>6. i \in chk .. Len(b)
    BY <1>1, <2>3
  <2> QED
    BY <2>4, <2>5, <2>6
<1> QED
  BY <1>2, <1>3

(* From the start of a line, with nothing but plain bytes passed over,     *)
(* parse_line() finds the next end of a line, if it has arrived.           *)
LEMMA ParseLineFinds ==
    ASSUME NEW X, NEW s \in Seq(X), NEW n \in 0 .. Len(s),
           NEW start \in 0 .. n, LineStart(s, start),
           NEW chk \in start .. n, Plain(s, start, chk)
    PROVE  LET line == ParseLine(SubSeq(s, 1, n), chk)
           IN  /\ line.status = "ok" =>
                      /\ line.idx \in LineEnds(s) /\ start < line.idx
                      /\ UpTo(s, line.idx) = UpTo(s, start) \union {line.idx}
               /\ line.status # "ok" =>
                      UpTo(s, n) = UpTo(s, start) /\ Plain(s, start, line.idx)
<1> DEFINE b == SubSeq(s, 1, n)
           stops == {i \in chk .. Len(b) - 1 : Byte(b, i) \in {"r", "n"}}
           i == Min(stops)
           line == ParseLine(b, chk)
<1>1. /\ Len(s) \in Nat /\ n \in Nat /\ start \in Nat /\ chk \in Nat
      /\ start <= chk /\ chk <= n /\ n <= Len(s) /\ \A k \in 1 .. Len(s) : s[k] \in X
  BY LenProperties, ElementOfSeq
<1>2. Len(b) = n /\ \A k \in 1 .. n : b[k] = s[k]
  <2>1. n \in Int /\ \A k \in 1 .. n : s[k] \in X
    BY <1>1
  <2>2. /\ Len(b) = IF 1 <= n THEN n - 1 + 1 ELSE 0
        /\ \A k \in 1 .. n - 1 + 1 : b[k] = s[1 + k - 1]
    BY <2>1, SubSeqProperties
  <2> HIDE DEF b
  <2> QED
    BY <1>1, <2>2
<1>3. \A k \in Stray(s) : s[k] \in {"r", "n"} /\ k \in 1 .. Len(s)
  BY DEF Stray
<1>4. start # 0 => s[start] = "n" /\ \A k \in Stray(s) : start < k
  BY DEF LineStart, LineEnds
<1> HIDE DEF b
<1>5. \A k \in chk .. n - 1 : Byte(b, k) = s[k + 1]
  BY <1>1, <1>2 DEF Byte
<1>6. CASE stops = {}
  <2>1. line = [status |-> "open", idx |-> n]
    BY <1>2, <1>6 DEF ParseLine
  <2>2. \A k \in chk + 1 .. n : s[k] \notin {"r", "n"}
    <3> SUFFICES ASSUME NEW k \in chk + 1 .. n PROVE s[k] \notin {"r", "n"}
      OBVIOUS
    <3>1. k - 1 \in chk .. n - 1 /\ k - 1 + 1 = k
      BY <1>1
    <3>2. Byte(b, k - 1) \notin {"r", "n"}
      BY <1>2, <1>6, <3>1
    <3> QED
      BY <1>5, <3>1, <3>2
  <2>3. Plain(s, start, n)
    <3>1. \A k \in start + 1 .. n : k \in start + 1 .. chk \/ k \in chk + 1 .. n
      BY <1>1
    <3> QED
      BY <2>2, <3>1 DEF Plain
  <2>4. UpTo(s, n) = UpTo(s, start)
    <3>1. \A k \in LineEnds(s) : k <= n => k <= start
      BY <1>1, <2>3 DEF LineEnds, Plain
    <3>2. \A k \in LineEnds(s) : k <= start => k <= n
      BY <1>1 DEF LineEnds
    <3> QED
      BY <3>1, <3>2 DEF UpTo
  <2> QED
    BY <2>1, <2>3, <2>4 DEF b
<1>7. CASE stops # {}
  <2>1. stops \in SUBSET Nat
    BY <1>1
  <2>2. i \in stops /\ \A k \in stops : i <= k
    <3> HIDE DEF stops
    <3> QED
      BY <1>7, <2>1, LeastElement
  <2>3. i \in chk .. n - 1 /\ (Byte(b, i) = "r" \/ Byte(b, i) = "n")
    BY <1>2, <2>2
  <2>4. line =
            IF Byte(b, i) = "r" /\ i + 1 = n THEN [status |-> "open", idx |-> i]
            ELSE IF Byte(b, i) = "r" /\ Byte(b, i + 1) = "n" THEN [status |-> "ok", idx |-> i + 2]
            ELSE IF Byte(b, i) = "n" /\ i > 1 /\ Byte(b, i - 1) = "r"
                 THEN [status |-> "ok", idx |-> i]
            ELSE [status |-> "bad", idx |-> i]
    BY <1>2, <1>7 DEF ParseLine
  <2>5. \A k \in chk .. i - 1 : Byte(b, k) \notin {"r", "n"}
    <3> SUFFICES ASSUME NEW k \in chk .. i - 1 PROVE Byte(b, k) \notin {"r", "n"}
      OBVIOUS
    <3> HIDE DEF i
    <3>1. k \in chk .. n - 1 /\ ~ (i <= k)
      BY <1>1, <2>3
    <3> QED
      BY <1>2, <2>2, <3>1
  <2> HIDE DEF i, stops, line
  <2>6. \A k \in chk + 1 .. i : s[k] \notin {"r", "n"}
    <3> SUFFICES ASSUME NEW k \in chk + 1 .. i PROVE s[k] \notin {"r", "n"}
      OBVIOUS
    <3>1. k - 1 \in chk .. i - 1 /\ k - 1 \in chk .. n - 1 /\ k - 1 + 1 = k
      BY <1>1, <2>3
    <3> QED
      BY <1>5, <2>5, <3>1
  <2>7. Plain(s, start, i)
    <3>1. \A k \in start + 1 .. i : k \in start + 1 .. chk \/ k \in chk + 1 .. i
      BY <1>1, <2>3
    <3> QED
      BY <2>6, <3>1 DEF Plain
  <2>8. \A k \in Stray(s) : i < k
    <3> SUFFICES ASSUME NEW k \in Stray(s), k <= i PROVE FALSE
      BY <1>1, <1>3, <2>3
    <3>1. start # 0 => start < k
      BY <1>4
    <3>2. k \in start + 1 .. i
      BY <1>1, <1>3, <2>3, <3>1
    <3> QED
      BY <1>3, <2>7, <3>2 DEF Plain
  <2>9. \A k \in LineEnds(s) : k <= i => k <= start
    BY <1>1, <2>3, <2>7 DEF LineEnds, Plain
  <2>10. i + 1 \in 1 .. n /\ i + 1 \in 1 .. Len(s) /\ i \in Nat /\ Byte(b, i) = s[i + 1]
    BY <1>1, <1>5, <2>3
  <2>11. i # 0 => s[i] # "r"
    <3> SUFFICES ASSUME i # 0 PROVE s[i] # "r"
      OBVIOUS
    <3>1. CASE i = start
      BY <1>4, <3>1
    <3>2. CASE i # start
      <4>1. i \in start + 1 .. i
        BY <1>1, <2>3, <3>2
      <4> QED
        BY <2>7, <4>1 DEF Plain
    <3> QED
      BY <3>1, <3>2
  <2>12. CASE Byte(b, i) = "r" /\ i + 1 = n
    <3>1. line = [status |-> "open", idx |-> i]
      BY <2>4, <2>12
    <3>2. \A k \in LineEnds(s) : k <= n => k <= i
      <4>1. s[n] # "n"
        BY <2>10, <2>12
      <4> QED
        BY <1>1, <2>10, <2>12, <4>1 DEF LineEnds
    <3>3. UpTo(s, n) = UpTo(s, start)
      <4>1. \A k \in LineEnds(s) : k <= n <=> k <= start
        BY <1>1, <2>9, <3>2 DEF LineEnds
      <4> QED
        BY <4>1 DEF UpTo
    <3> QED
      BY <2>7, <3>1, <3>3 DEF line, b
  <2>13. CASE Byte(b, i) = "r" /\ i + 1 # n /\ Byte(b, i + 1) = "n"
    <3>1. line = [status |-> "ok", idx |-> i + 2]
      BY <2>4, <2>13
    <3>2. i + 1 \in chk .. n - 1 /\ i + 2 \in 2 .. Len(s) /\ i + 1 + 1 = i + 2 /\ i + 2 <= n
      BY <1>1, <2>3, <2>10, <2>13
    <3>3. s[i + 2] = "n" /\ s[i + 1] = "r"
      BY <1>5, <2>10, <2>13, <3>2
    <3>4. i + 1 \notin Stray(s) /\ i + 2 \notin Stray(s)
      <4>1. i + 2 - 1 = i + 1 /\ i + 2 # 1
        BY <2>10
      <4> QED
        BY <3>2, <3>3, <4>1 DEF Stray
    <3>5. \A k \in Stray(s) : i + 2 < k
      <4> SUFFICES ASSUME NEW k \in Stray(s) PROVE i + 2 < k
        OBVIOUS
      <4>1. i < k /\ k # i + 1 /\ k # i + 2 /\ k \in Nat
        BY <1>3, <2>8, <3>4
      <4> QED
        BY <2>10, <4>1
    <3>6. i + 2 \in LineEnds(s)
      BY <3>2, <3>3, <3>5 DEF LineEnds
    <3>7. start < i + 2
      BY <1>1, <2>3
    <3>8. \A k \in LineEnds(s) : k <= i + 2 <=> k <= start \/ k = i + 2
      <4> SUFFICES ASSUME NEW k \in LineEnds(s) PROVE k <= i + 2 <=> k <= start \/ k = i + 2
        OBVIOUS
      <4>1. k \in Nat /\ s[k] = "n"
        BY <1>1 DEF LineEnds
      <4>2. k # i + 1
        BY <3>3, <4>1
      <4> QED
        BY <1>1, <2>9, <2>10, <3>7, <4>1, <4>2
    <3>9. UpTo(s, i + 2) = UpTo(s, start) \union {i + 2}
      BY <3>6, <3>8 DEF UpTo
    <3> QED
      BY <3>1, <3>6, <3>7, <3>9 DEF line, b
  <2>14. CASE Byte(b, i) = "r" /\ i + 1 # n /\ Byte(b, i + 1) # "n"
    <3>1. line = [status |-> "bad", idx |-> i]
      BY <2>4, <2>14
    <3>2. i + 1 \in chk .. n - 1 /\ i + 1 < Len(s) /\ i + 1 + 1 = i + 2
      BY <1>1, <2>3, <2>10, <2>14
    <3>3. i + 1 \in Stray(s)
      BY <1>5, <2>10, <2>14, <3>2 DEF Stray
    <3>4. UpTo(s, n) = UpTo(s, start)
      <4>1. \A k \in LineEnds(s) : k < i + 1 /\ k \in Nat
        BY <1>1, <3>3 DEF LineEnds
      <4>2. \A k \in LineEnds(s) : k <= n <=> k <= start
        BY <1>1, <2>9, <2>10, <4>1
      <4> QED
        BY <4>2 DEF UpTo
    <3> QED
      BY <2>7, <3>1, <3>4 DEF line, b
  <2>15. CASE Byte(b, i) = "n"
    <3>1. i > 1 => Byte(b, i - 1) # "r"
      <4>1. i > 1 => Byte(b, i - 1) = b[i] /\ i \in 1 .. n
        BY <1>1, <2>10 DEF Byte
      <4> QED
        BY <1>2, <2>10, <2>11, <4>1
    <3>2. line = [status |-> "bad", idx |-> i]
      BY <2>4, <2>15, <3>1
    <3>3. i + 1 \in Stray(s)
      <4>1. ASSUME NEW k \in 1 .. Len(s), k = i + 1
            PROVE  k \in Stray(s)
        <5>0. s[i + 1] = "n" /\ k - 1 = i
          BY <2>10, <2>15, <4>1
        <5>1. s[k] = "n" /\ k - 1 = i
          BY <5>0, <4>1
        <5>2. k = 1 \/ s[k - 1] # "r"
          BY <2>11, <4>1, <5>1
        <5> QED
          BY <5>1, <5>2 DEF Stray
      <4> QED
        BY <2>10, <4>1
    <3>4. UpTo(s, n) = UpTo(s, start)
      <4>1. \A k \in LineEnds(s) : k < i + 1 /\ k \in Nat
        BY <1>1, <3>3 DEF LineEnds
      <4>2. \A k \in LineEnds(s) : k <= n <=> k <= start
        BY <1>1, <2>9, <2>10, <4>1
      <4> QED
        BY <4>2 DEF UpTo
    <3> QED
      BY <2>7, <3>2, <3>4 DEF line, b
  <2> QED
    BY <2>3, <2>12, <2>13, <2>14, <2>15
<1> QED
  BY <1>6, <1>7

-----------------------------------------------------------------------------
(* The parser's invariant *)

Chars == {"r", "n", "G", "L", "K", "x"}

PTypes ==
    /\ stream \in Seq(Chars)
    /\ ParseTypes
    /\ pc \in {"read", "loop", "reply", "armed", "write", "closed"}

(* The lines taken are those of a prefix that ends with a line: before the *)
(* body, the prefix up to m_start_line, and what lies between it and       *)
(* m_check_idx is plain.  The parser waits when no other line has ended.   *)
LinesInv ==
    /\ \E m \in 0 .. startLine : LineStart(stream, m) /\ lines = LinesAt(stream, UpTo(stream, m))
    /\ checkState # "content" =>
          /\ LineStart(stream, startLine)
          /\ Plain(stream, startLine, checkIdx)
          /\ lines = LinesAt(stream, UpTo(stream, startLine))
    /\ pc = "read" /\ checkState # "content" => UpTo(stream, readIdx) = UpTo(stream, startLine)

(* What the lines taken say, by m_check_state and the verdict. *)
HeadInv ==
    /\ pc \in {"read", "loop"} => code = "NO_REQUEST"
    /\ checkState = "requestline" =>
          /\ code # "GET_REQUEST" /\ contentLen = 0
          /\ code # "BAD_REQUEST" => lines = <<>>
    /\ code = "BAD_REQUEST" => lines # <<>> /\ lines[1] # <<"G">>
    /\ checkState # "requestline" => lines # <<>> /\ lines[1] = <<"G">>
    /\ checkState = "header" /\ code # "GET_REQUEST" =>
          /\ \A k \in 2 .. Len(lines) : lines[k] # <<>>
          /\ contentLen # 0 <=> \E k \in 2 .. Len(lines) : lines[k] = <<"L">>
    /\ checkState = "header" /\ code = "GET_REQUEST" =>
          \A k \in 2 .. Len(lines) : lines[k] # <<"L">>
    /\ checkState = "content" =>
          /\ contentLen = BodyLen
          /\ \E k \in 2 .. Len(lines) : lines[k] = <<"L">>
          /\ code = "GET_REQUEST" => readIdx >= contentLen + startLine
    /\ checkState = "content" \/ code = "GET_REQUEST" =>
          /\ Len(lines) >= 2 /\ lines[Len(lines)] = <<>>
          /\ \A k \in 2 .. Len(lines) - 1 : lines[k] # <<>>

ParseInv == PTypes /\ LinesInv /\ HeadInv

(* No line ends at the very beginning. *)
LEMMA NoLines ==
    ASSUME NEW X, NEW s \in Seq(X)
    PROVE  UpTo(s, 0) = {} /\ LinesAt(s, UpTo(s, 0)) = <<>>
<1>1. UpTo(s, 0) = {}
  <2>1. \A i \in LineEnds(s) : i \in Nat /\ 2 <= i
    BY LenProperties DEF LineEnds
  <2> QED
    BY <2>1 DEF UpTo
<1>2. UpTo(s, 0) \in SUBSET LineEnds(s) /\ Cardinality(UpTo(s, 0)) = 0
  BY <1>1, FS_EmptySet
<1>3. LinesAt(s, UpTo(s, 0)) \in Seq(Seq(X)) /\ Len(LinesAt(s, UpTo(s, 0))) = 0
  BY <1>2, LinesAtType
<1> QED
  BY <1>1, <1>3, EmptySeq

(* The lines taken are a sequence of byte sequences, and there are no more  *)
(* of them than in all that arrived.                                        *)
LEMMA LinesType ==
    ASSUME PTypes, LinesInv
    PROVE  /\ lines \in Seq(Seq(Chars)) /\ Len(lines) \in Nat
           /\ DOMAIN lines = 1 .. Len(lines)
           /\ lines # <<>> <=> Len(lines) >= 1
<1>1. stream \in Seq(Chars)
  BY DEF PTypes
<1>2. PICK m \in 0 .. startLine : lines = LinesAt(stream, UpTo(stream, m))
  BY DEF LinesInv
<1>3. UpTo(stream, m) \in SUBSET LineEnds(stream)
  BY DEF UpTo
<1>4. lines \in Seq(Seq(Chars)) /\ Len(lines) \in Nat /\ DOMAIN lines = 1 .. Len(lines)
  BY <1>1, <1>2, <1>3, LinesAtType
<1>5. lines # <<>> <=> Len(lines) >= 1
  BY <1>4, EmptySeq
<1> QED
  BY <1>4, <1>5

(* The reference sees the lines taken, and before the body, when the       *)
(* parser waits, no others.                                                *)
LEMMA RefLinesIs ==
    ASSUME PTypes, LinesInv
    PROVE  /\ RefLines \in Seq(Seq(Chars)) /\ Len(RefLines) \in Nat
           /\ IsPrefix(lines, RefLines) /\ Len(lines) <= Len(RefLines)
           /\ \A k \in 1 .. Len(lines) : RefLines[k] = lines[k]
           /\ lines # <<>> => Ends(WellFormed(Buf))[Len(lines)] <= startLine
           /\ lines # <<>> => Ends(WellFormed(Buf))[Len(lines)] \in Nat
           /\ pc = "read" /\ checkState # "content" => RefLines = lines
<1>1. /\ stream \in Seq(Chars) /\ readIdx \in 0 .. Len(stream) /\ Len(stream) \in Nat
      /\ startLine \in 0 .. readIdx
  BY LenProperties DEF PTypes, ParseTypes
<1>2. PICK m \in 0 .. startLine :
          LineStart(stream, m) /\ lines = LinesAt(stream, UpTo(stream, m))
  BY DEF LinesInv
<1> DEFINE S == UpTo(stream, m)
           T == UpTo(stream, readIdx)
           c == Cardinality(S)
<1>3. m \in Nat /\ readIdx \in Nat /\ m <= readIdx /\ m <= startLine
  BY <1>1
<1>4. RefLines = LinesAt(stream, T) /\ Ends(WellFormed(Buf)) = InOrder(T)
  BY <1>1, PrefixLines DEF RefLines, Buf
<1>5. S \in SUBSET LineEnds(stream) /\ T \in SUBSET LineEnds(stream)
  BY DEF UpTo
<1>6. RefLines \in Seq(Seq(Chars)) /\ Len(RefLines) \in Nat
  BY <1>1, <1>4, <1>5, LinesAtType
<1>7. /\ IsPrefix(lines, RefLines) /\ Len(lines) <= Len(RefLines)
      /\ \A k \in 1 .. Len(lines) : RefLines[k] = lines[k]
  BY <1>1, <1>2, <1>3, <1>4, LinesExtend
<1>8. ASSUME lines # <<>>
      PROVE  Ends(WellFormed(Buf))[Len(lines)] = m
  <2>1. m # 0
    BY <1>1, <1>2, <1>8, NoLines
  <2>2. m \in S /\ \A i \in S : i <= m
    <3>1. m \in LineEnds(stream)
      BY <1>2, <2>1 DEF LineStart
    <3> QED
      BY <1>3, <3>1 DEF UpTo
  <2>3. Len(lines) = c /\ c \in Nat /\ S \in SUBSET Nat /\ T \in SUBSET Nat /\ IsFiniteSet(S)
        /\ IsFiniteSet(T)
    BY <1>1, <1>2, <1>5, LinesAtType, LineEndsFinite
  <2>4. S \in SUBSET T /\ \A i \in S : \A j \in T \ S : i < j
    <3>1. \A i \in LineEnds(stream) : i \in Nat
      BY <1>1, LineEndsFinite
    <3> QED
      BY <1>3, <3>1 DEF UpTo
  <2>5. Rank(S, m) = c
    <3>1. {j \in S : j <= m} = S
      BY <2>2
    <3> QED
      BY <3>1 DEF Rank
  <2> HIDE DEF S, T, c
  <2>6. InOrder(S)[c] = m /\ c \in 1 .. c
    BY <2>2, <2>3, <2>5, InOrderIs DEF c
  <2>7. InOrder(T)[c] = InOrder(S)[c]
    BY <2>3, <2>4, <2>6, InOrderExtends DEF c
  <2> QED
    BY <1>4, <2>3, <2>6, <2>7
<1>9. pc = "read" /\ checkState # "content" => RefLines = lines
  BY <1>4 DEF LinesInv
<1> QED
  BY <1>3, <1>6, <1>7, <1>8, <1>9

(* Once the empty line was taken, it is the reference's end of the header. *)
LEMMA HeaderEnds ==
    ASSUME ParseInv, checkState = "content" \/ code = "GET_REQUEST"
    PROVE  HeaderLen = Len(lines) /\ Len(lines) >= 2
<1> DEFINE blank == {k \in 2 .. Len(RefLines) : RefLines[k] = <<>>}
           n == Len(lines)
<1>1. /\ n \in Nat /\ n >= 2 /\ lines[n] = <<>> /\ \A k \in 2 .. n - 1 : lines[k] # <<>>
  BY LinesType DEF ParseInv, HeadInv
<1>2. Len(RefLines) \in Nat /\ n <= Len(RefLines) /\ \A k \in 1 .. n : RefLines[k] = lines[k]
  BY RefLinesIs DEF ParseInv
<1>3. n \in blank
  BY <1>1, <1>2
<1>4. \A k \in blank : n <= k
  BY <1>1, <1>2
<1>5. blank \in SUBSET Nat /\ blank # {}
  BY <1>2, <1>3
<1>6. HeaderLen = Min(blank)
  BY <1>5 DEF HeaderLen
<1> HIDE DEF blank, n
<1>7. Min(blank) \in blank /\ Min(blank) <= n
  BY <1>3, <1>5, LeastElement
<1>8. Min(blank) = n
  <2>1. Min(blank) \in Nat /\ n <= Min(blank) /\ Min(blank) <= n
    BY <1>4, <1>5, <1>7
  <2> QED
    BY <1>1, <2>1
<1> QED
  BY <1>1, <1>6, <1>8 DEF n

(* What the runs check of the parser follows from its invariant. *)
LEMMA ParserIsRight ==
    ASSUME ParseInv
    PROVE  LinesResume /\ VerdictIsSound /\ NoNeedlessWait
<1>0. PTypes /\ LinesInv /\ HeadInv
  BY DEF ParseInv
<1>1. /\ lines \in Seq(Seq(Chars)) /\ Len(lines) \in Nat
      /\ lines # <<>> <=> Len(lines) >= 1
  BY <1>0, LinesType
<1>2. /\ RefLines \in Seq(Seq(Chars)) /\ Len(RefLines) \in Nat
      /\ IsPrefix(lines, RefLines) /\ Len(lines) <= Len(RefLines)
      /\ \A k \in 1 .. Len(lines) : RefLines[k] = lines[k]
      /\ pc = "read" /\ checkState # "content" => RefLines = lines
  BY <1>0, RefLinesIs
<1>3. lines # <<>> => RefLines # <<>> /\ RefLines[1] = lines[1]
  BY <1>1, <1>2, EmptySeq
<1>4. LinesResume
  BY <1>2 DEF LinesResume
<1>5. VerdictIsSound
  <2>1. ASSUME code = "GET_REQUEST"
        PROVE  WholeRequest
    <3>1. HeaderLen = Len(lines) /\ Len(lines) >= 2
      BY <2>1, HeaderEnds
    <3>2. checkState \in {"header", "content"} /\ lines # <<>> /\ lines[1] = <<"G">>
      BY <1>0, <2>1 DEF PTypes, ParseTypes, HeadInv
    <3>3. HasBody => readIdx >= Ends(WellFormed(Buf))[HeaderLen] + BodyLen
      <4>1. CASE checkState = "header"
        <5>1. \A k \in 2 .. Len(lines) : RefLines[k] # <<"L">>
          <6>1. \A k \in 2 .. Len(lines) : lines[k] # <<"L">>
            BY <1>0, <2>1, <4>1 DEF HeadInv
          <6> QED
            BY <1>1, <1>2, <6>1
        <5> QED
          BY <3>1, <5>1 DEF HasBody
      <4>2. CASE checkState = "content"
        <5>1. readIdx >= BodyLen + startLine
          BY <1>0, <2>1, <4>2 DEF HeadInv
        <5>2. /\ Ends(WellFormed(Buf))[HeaderLen] <= startLine
              /\ Ends(WellFormed(Buf))[HeaderLen] \in Nat
          BY <1>0, <3>1, <3>2, RefLinesIs
        <5>3. startLine \in Nat /\ readIdx \in Nat /\ BodyLen \in Nat
          <6>1. Len(stream) \in Nat
            BY <1>0, LenProperties DEF PTypes
          <6> QED
            BY <1>0, <6>1, StreamsAssumption DEF PTypes, ParseTypes
        <5>4. \A a, b, c, d \in Nat : d >= c + b /\ a <= b => d >= a + c
          OBVIOUS
        <5> QED
          BY <5>1, <5>2, <5>3, <5>4
      <4> QED
        BY <3>2, <4>1, <4>2
    <3> QED
      BY <1>3, <3>1, <3>2, <3>3 DEF WholeRequest
  <2>2. ASSUME code = "BAD_REQUEST"
        PROVE  BadRequest
    BY <1>0, <1>3, <2>2 DEF BadRequest, HeadInv
  <2> QED
    BY <2>1, <2>2 DEF VerdictIsSound
<1>6. NoNeedlessWait
  <2> SUFFICES ASSUME pc = "read", ~ HasBody
               PROVE  ~ WholeRequest /\ ~ BadRequest
    BY DEF NoNeedlessWait
  <2>1. code = "NO_REQUEST"
    BY <1>0 DEF HeadInv
  <2>2. CASE checkState = "requestline"
    <3>1. RefLines = <<>>
      BY <1>0, <1>2, <2>1, <2>2 DEF HeadInv
    <3> QED
      BY <3>1 DEF WholeRequest, BadRequest
  <2>3. CASE checkState = "header"
    <3>1. RefLines = lines /\ lines[1] = <<"G">> /\ \A k \in 2 .. Len(lines) : lines[k] # <<>>
      BY <1>0, <1>2, <2>1, <2>3 DEF HeadInv
    <3>2. {k \in 2 .. Len(RefLines) : RefLines[k] = <<>>} = {}
      BY <3>1
    <3>3. HeaderLen = 0
      BY <3>2 DEF HeaderLen
    <3> QED
      BY <3>1, <3>3 DEF WholeRequest, BadRequest
  <2>4. CASE checkState = "content"
    <3>1. HeaderLen = Len(lines)
      BY <2>4, HeaderEnds
    <3>2. PICK k \in 2 .. Len(lines) : lines[k] = <<"L">>
      BY <1>0, <2>4 DEF HeadInv
    <3>3. RefLines[k] = <<"L">>
      BY <1>1, <1>2, <3>2
    <3> QED
      BY <3>1, <3>3 DEF HasBody
  <2> QED
    BY <1>0, <2>2, <2>3, <2>4 DEF PTypes, ParseTypes
<1> QED
  BY <1>4, <1>5, <1>6

-----------------------------------------------------------------------------
(* The parser's steps *)

(* The bytes that arrived are a sequence. *)
LEMMA BufType ==
    ASSUME PTypes
    PROVE  /\ Buf \in Seq(Chars) /\ Len(Buf) = readIdx
           /\ Len(stream) \in Nat /\ readIdx \in Nat /\ checkIdx \in Nat /\ startLine \in Nat
           /\ readIdx <= Len(stream) /\ checkIdx <= readIdx /\ startLine <= checkIdx
<1>1. stream \in Seq(Chars) /\ readIdx \in 0 .. Len(stream) /\ Len(stream) \in Nat
  BY LenProperties DEF PTypes, ParseTypes
<1>2. readIdx \in Int /\ \A k \in 1 .. readIdx : stream[k] \in Chars
  BY <1>1, ElementOfSeq
<1>3. Buf \in Seq(Chars) /\ Len(Buf) = IF 1 <= readIdx THEN readIdx - 1 + 1 ELSE 0
  BY <1>2, SubSeqProperties DEF Buf
<1>4. Len(Buf) = readIdx
  BY <1>1, <1>3
<1> QED
  BY <1>1, <1>3, <1>4 DEF PTypes, ParseTypes

(* What parse_line() returns to process_read(), before the body. *)
LEMMA LineIs ==
    ASSUME ParseInv
    PROVE  /\ Line.idx \in checkIdx .. readIdx
           /\ Line.status \in {"ok", "open", "bad"}
           /\ checkState # "content" /\ Line.status = "ok" =>
                  /\ Line.idx \in LineEnds(stream) /\ startLine < Line.idx
                  /\ UpTo(stream, Line.idx) = UpTo(stream, startLine) \union {Line.idx}
           /\ checkState # "content" /\ Line.status # "ok" =>
                  /\ UpTo(stream, readIdx) = UpTo(stream, startLine)
                  /\ Plain(stream, startLine, Line.idx)
<1>1. /\ stream \in Seq(Chars) /\ Buf \in Seq(Chars) /\ Len(Buf) = readIdx
      /\ checkIdx \in 0 .. Len(Buf) /\ readIdx \in 0 .. Len(stream)
      /\ startLine \in 0 .. readIdx /\ checkIdx \in startLine .. readIdx
  BY BufType DEF ParseInv, PTypes, ParseTypes
<1>2. Line.idx \in checkIdx .. readIdx /\ Line.status \in {"ok", "open", "bad"}
  BY <1>1, ParseLineRange DEF Line
<1>3. ASSUME checkState # "content"
      PROVE  /\ Line.status = "ok" =>
                    /\ Line.idx \in LineEnds(stream) /\ startLine < Line.idx
                    /\ UpTo(stream, Line.idx) = UpTo(stream, startLine) \union {Line.idx}
             /\ Line.status # "ok" =>
                    /\ UpTo(stream, readIdx) = UpTo(stream, startLine)
                    /\ Plain(stream, startLine, Line.idx)
  <2>1. LineStart(stream, startLine) /\ Plain(stream, startLine, checkIdx)
    BY <1>3 DEF ParseInv, LinesInv
  <2> QED
    BY <1>1, <2>1, ParseLineFinds DEF Line, Buf
<1> QED
  BY <1>2, <1>3

(* A line taken before the body is appended, and the next one begins.      *)
LEMMA LineTaken ==
    ASSUME ParseInv, checkState # "content", TakeLine
    PROVE  /\ startLine' = checkIdx' /\ startLine' \in 0 .. readIdx
           /\ stream' = stream /\ readIdx' = readIdx
           /\ LineStart(stream, startLine') /\ lines' = LinesAt(stream, UpTo(stream, startLine'))
           /\ Len(lines) \in Nat /\ Len(lines') = Len(lines) + 1
           /\ lines'[Len(lines) + 1] = Text
           /\ \A k \in 1 .. Len(lines) : lines'[k] = lines[k]
           /\ pc = "loop" /\ lines' # <<>>
<1> DEFINE S == UpTo(stream, startLine)
<1>1. /\ Line.idx \in checkIdx .. readIdx
      /\ Line.idx \in LineEnds(stream) /\ startLine < Line.idx
      /\ UpTo(stream, Line.idx) = S \union {Line.idx}
  BY LineIs DEF TakeLine
<1>2. /\ stream \in Seq(Chars) /\ Len(stream) \in Nat /\ startLine \in Nat /\ checkIdx \in Nat
      /\ readIdx \in Nat /\ lines \in Seq(Seq(Chars)) /\ Len(lines) \in Nat
  BY BufType, LinesType DEF ParseInv, PTypes
<1>3. LineStart(stream, startLine) /\ lines = LinesAt(stream, S)
  BY DEF ParseInv, LinesInv
<1>4. S \in SUBSET LineEnds(stream)
  BY DEF UpTo
<1>5. \/ S = {} /\ startLine = 0
      \/ startLine \in S /\ \A i \in S : i <= startLine
  <2>1. CASE startLine = 0
    BY <1>2, <2>1, NoLines
  <2>2. CASE startLine # 0
    <3>1. startLine \in LineEnds(stream)
      BY <1>3, <2>2 DEF LineStart
    <3> QED
      BY <1>2, <3>1 DEF UpTo
  <2> QED
    BY <2>1, <2>2
<1> HIDE DEF S
<1>6. LinesAt(stream, S \union {Line.idx}) = Append(LinesAt(stream, S), Text)
  <2>1. ASSUME NEW x, x = Line.idx
        PROVE  LinesAt(stream, S \union {x})
               = Append(LinesAt(stream, S), SubSeq(stream, startLine + 1, x - 2))
    <3>1. x \in LineEnds(stream) /\ startLine < x
      BY <1>1, <2>1
    <3> QED
      BY <1>2, <1>4, <1>5, <3>1, LinesAppend
  <2> QED
    BY <2>1 DEF Text
<1>7. Text \in Seq(Chars)
  <2>1. startLine + 1 \in Int /\ Line.idx - 2 \in Int
        /\ \A i \in startLine + 1 .. Line.idx - 2 : i \in 1 .. Len(stream)
    <3>1. readIdx <= Len(stream)
      BY BufType DEF ParseInv
    <3> QED
      BY <1>1, <1>2, <3>1
  <2>2. \A i \in startLine + 1 .. Line.idx - 2 : stream[i] \in Chars
    BY <1>2, <2>1, ElementOfSeq
  <2> QED
    BY <2>1, <2>2, SubSeqProperties DEF Text
<1>8. /\ Len(Append(lines, Text)) = Len(lines) + 1
      /\ Append(lines, Text)[Len(lines) + 1] = Text
      /\ Append(lines, Text) # <<>>
      /\ \A k \in 1 .. Len(lines) : Append(lines, Text)[k] = lines[k]
  BY <1>2, <1>7, AppendProperties
<1>9. lines' = Append(lines, Text) /\ startLine' = Line.idx /\ checkIdx' = Line.idx
  BY DEF TakeLine
<1>10. lines' = LinesAt(stream, UpTo(stream, startLine'))
  BY <1>1, <1>3, <1>6, <1>9
<1>11. startLine' \in 0 .. readIdx
  BY <1>1, <1>2, <1>9
<1> QED
  BY <1>1, <1>2, <1>8, <1>9, <1>10, <1>11 DEF TakeLine, LineStart

(* Reading more, the parser goes on where it stopped. *)
LEMMA ReadKeeps ==
    ASSUME ParseInv, Read
    PROVE  ParseInv'
<1>1. /\ readIdx' \in readIdx + 1 .. Len(stream) /\ lineStatus' = "ok" /\ pc = "read" /\ pc' = "loop"
      /\ stream' = stream /\ checkIdx' = checkIdx /\ startLine' = startLine
      /\ checkState' = checkState /\ contentLen' = contentLen /\ linger' = linger
      /\ code' = code /\ lines' = lines
  BY DEF Read, parser
<1>2. /\ Len(stream) \in Nat /\ readIdx \in Nat /\ checkIdx \in Nat /\ startLine \in Nat
      /\ readIdx <= Len(stream) /\ checkIdx <= readIdx /\ startLine <= checkIdx
  BY BufType DEF ParseInv
<1>3. PTypes'
  <2>1. /\ readIdx' \in 0 .. Len(stream') /\ startLine' \in 0 .. readIdx'
        /\ checkIdx' \in startLine' .. readIdx'
    BY <1>1, <1>2
  <2> QED
    BY <1>1, <2>1 DEF ParseInv, PTypes, ParseTypes
<1>4. LinesInv'
  BY <1>1 DEF ParseInv, LinesInv
<1>5. HeadInv'
  <2>1. code = "NO_REQUEST"
    BY <1>1 DEF ParseInv, HeadInv
  <2> QED
    BY <1>1, <2>1 DEF ParseInv, HeadInv
<1> QED
  BY <1>3, <1>4, <1>5 DEF ParseInv

(* No whole line: the parser waits. *)
LEMMA NoLineKeeps ==
    ASSUME ParseInv, NoLine
    PROVE  ParseInv'
<1>1. /\ pc = "loop" /\ Line.status # "ok" /\ checkIdx' = Line.idx /\ lineStatus' = Line.status
      /\ code' = "NO_REQUEST" /\ pc' = "read"
      /\ stream' = stream /\ readIdx' = readIdx /\ startLine' = startLine
      /\ checkState' = checkState /\ contentLen' = contentLen /\ linger' = linger
      /\ lines' = lines
  BY DEF NoLine, Return
<1>2. /\ Line.idx \in checkIdx .. readIdx /\ Line.status \in {"ok", "open", "bad"}
      /\ checkState # "content" =>
            /\ UpTo(stream, readIdx) = UpTo(stream, startLine)
            /\ Plain(stream, startLine, Line.idx)
  BY <1>1, LineIs
<1>3. readIdx \in Nat /\ checkIdx \in Nat /\ startLine \in Nat /\ startLine <= checkIdx
  BY BufType DEF ParseInv
<1>4. PTypes'
  <2>1. checkIdx' \in startLine' .. readIdx'
    BY <1>1, <1>2, <1>3
  <2> QED
    BY <1>1, <1>2, <2>1 DEF ParseInv, PTypes, ParseTypes
<1>5. LinesInv'
  BY <1>1, <1>2 DEF ParseInv, LinesInv
<1>6. HeadInv'
  <2>1. code = "NO_REQUEST"
    BY <1>1 DEF ParseInv, HeadInv
  <2> QED
    BY <1>1, <2>1 DEF ParseInv, HeadInv
<1> QED
  BY <1>4, <1>5, <1>6 DEF ParseInv

(* After a line the types hold, and the lines are those up to its end. *)
LEMMA LineTakenKeeps ==
    ASSUME ParseInv, checkState # "content", TakeLine,
           checkState' \in {"requestline", "header", "content"},
           contentLen' \in {0, BodyLen}, linger' \in BOOLEAN, lineStatus' = "ok",
           code' \in {"NO_REQUEST", "BAD_REQUEST", "GET_REQUEST"}, pc' \in {"loop", "reply"}
    PROVE  PTypes' /\ LinesInv'
<1>1. /\ startLine' = checkIdx' /\ startLine' \in 0 .. readIdx
      /\ stream' = stream /\ readIdx' = readIdx
      /\ LineStart(stream, startLine') /\ lines' = LinesAt(stream, UpTo(stream, startLine'))
  BY LineTaken
<1>2. startLine' \in Nat /\ startLine' \in 0 .. startLine' /\ checkIdx' \in startLine' .. readIdx'
  <2>1. readIdx \in Nat
    BY BufType DEF ParseInv
  <2> QED
    BY <1>1, <2>1
<1>3. PTypes'
  BY <1>1, <1>2 DEF ParseInv, PTypes, ParseTypes
<1>4. Plain(stream', startLine', checkIdx')
  <2>1. \A i \in Nat : i + 1 .. i = {}
    OBVIOUS
  <2>2. startLine' + 1 .. checkIdx' = {}
    BY <1>1, <1>2, <2>1
  <2> QED
    BY <2>2 DEF Plain
<1>5. LinesInv'
  BY <1>1, <1>2, <1>4 DEF LinesInv
<1> QED
  BY <1>3, <1>5

(* The request line. *)
LEMMA RequestLineKeeps ==
    ASSUME ParseInv, RequestLine
    PROVE  ParseInv'
<1>1. /\ checkState = "requestline" /\ TakeLine /\ lineStatus' = "ok"
      /\ contentLen' = contentLen /\ linger' = linger
      /\ \/ Text = <<"G">> /\ checkState' = "header" /\ code' = code /\ pc' = pc
         \/ Text # <<"G">> /\ checkState' = checkState /\ code' = "BAD_REQUEST" /\ pc' = "reply"
  BY DEF RequestLine, Return
<1>2. code = "NO_REQUEST" /\ lines = <<>> /\ contentLen = 0 /\ pc = "loop"
  <2>1. pc = "loop"
    BY <1>1 DEF TakeLine
  <2> QED
    BY <1>1, <2>1 DEF ParseInv, HeadInv
<1>3. PTypes' /\ LinesInv'
  <2>1. contentLen \in {0, BodyLen} /\ linger \in BOOLEAN
    BY DEF ParseInv, PTypes, ParseTypes
  <2> QED
    BY <1>1, <1>2, <2>1, LineTakenKeeps
<1>4. lines' # <<>> /\ Len(lines') = 1 /\ lines'[1] = Text
  <2>1. Len(lines) = 0
    BY <1>2, EmptySeq
  <2> QED
    BY <1>1, <2>1, LineTaken
<1>5. HeadInv'
  <2>1. 2 .. Len(lines') = {}
    BY <1>4
  <2> QED
    BY <1>1, <1>2, <1>4, <2>1 DEF HeadInv
<1> QED
  BY <1>3, <1>5 DEF ParseInv

(* A header field. *)
LEMMA HeaderLineKeeps ==
    ASSUME ParseInv, HeaderLine
    PROVE  ParseInv'
<1>1. /\ checkState = "header" /\ TakeLine /\ lineStatus' = "ok" /\ Text # <<>>
      /\ contentLen' = IF Text = <<"L">> THEN BodyLen ELSE contentLen
      /\ linger' = (linger \/ Text = <<"K">>)
      /\ checkState' = checkState /\ code' = code /\ pc' = pc
  BY DEF HeaderLine
<1>2. code = "NO_REQUEST" /\ pc = "loop"
  <2>1. pc = "loop"
    BY <1>1 DEF TakeLine
  <2> QED
    BY <1>1, <2>1 DEF ParseInv, HeadInv
<1>3. PTypes' /\ LinesInv'
  <2>1. contentLen \in {0, BodyLen} /\ linger \in BOOLEAN
    BY DEF ParseInv, PTypes, ParseTypes
  <2>2. contentLen' \in {0, BodyLen} /\ linger' \in BOOLEAN
    BY <1>1, <2>1
  <2> QED
    BY <1>1, <1>2, <2>2, LineTakenKeeps
<1>4. /\ lines # <<>> /\ lines[1] = <<"G">> /\ \A k \in 2 .. Len(lines) : lines[k] # <<>>
      /\ contentLen # 0 <=> \E k \in 2 .. Len(lines) : lines[k] = <<"L">>
  BY <1>1, <1>2 DEF ParseInv, HeadInv
<1>5. /\ Len(lines) \in Nat /\ Len(lines) >= 1 /\ Len(lines') = Len(lines) + 1
      /\ lines'[Len(lines) + 1] = Text /\ lines' # <<>>
      /\ \A k \in 1 .. Len(lines) : lines'[k] = lines[k]
  BY <1>1, <1>4, LineTaken, LinesType DEF ParseInv
<1> DEFINE n == Len(lines)
           ls == lines'
           u == Text
<1>6. n \in Nat /\ n >= 1 /\ ls[n + 1] = u /\ \A k \in 1 .. n : ls[k] = lines[k]
  BY <1>5
<1> HIDE DEF n, ls, u
<1>7. \A k \in 2 .. n + 1 : ls[k] = IF k = n + 1 THEN u ELSE lines[k]
  BY <1>6
<1>8. \A k \in 2 .. n + 1 : k = n + 1 \/ k \in 2 .. n
  BY <1>6
<1>9. \A k \in 2 .. n : k \in 2 .. n + 1 /\ k # n + 1
  BY <1>6
<1>10. n + 1 \in 2 .. n + 1
  BY <1>6
<1>11. \A k \in 2 .. n + 1 : ls[k] # <<>>
  BY <1>1, <1>4, <1>7, <1>8 DEF n, u
<1>12. (\E k \in 2 .. n + 1 : ls[k] = <<"L">>) <=> u = <<"L">> \/ \E k \in 2 .. n : lines[k] = <<"L">>
  <2>1. ASSUME NEW k \in 2 .. n + 1, ls[k] = <<"L">>
        PROVE  u = <<"L">> \/ \E j \in 2 .. n : lines[j] = <<"L">>
    BY <1>7, <1>8, <2>1
  <2>2. ASSUME NEW k \in 2 .. n, lines[k] = <<"L">>
        PROVE  \E j \in 2 .. n + 1 : ls[j] = <<"L">>
    BY <1>7, <1>9, <2>2
  <2>3. u = <<"L">> => ls[n + 1] = <<"L">>
    BY <1>6
  <2> QED
    BY <1>10, <2>1, <2>2, <2>3
<1>13. contentLen' # 0 <=> \E k \in 2 .. n + 1 : ls[k] = <<"L">>
  BY <1>1, <1>4, <1>12, StreamsAssumption DEF n, u
<1>14. HeadInv'
  <2>1. Len(lines') = n + 1 /\ lines'[1] = <<"G">>
    <3>1. lines'[1] = lines[1]
      BY <1>5
    <3> QED
      BY <1>4, <1>5, <3>1 DEF n
  <2>2. /\ \A k \in 2 .. Len(lines') : lines'[k] # <<>>
        /\ contentLen' # 0 <=> \E k \in 2 .. Len(lines') : lines'[k] = <<"L">>
    BY <1>11, <1>13, <2>1 DEF ls
  <2> QED
    BY <1>1, <1>2, <1>5, <2>1, <2>2 DEF HeadInv
<1> QED
  BY <1>3, <1>14 DEF ParseInv

(* The empty line. *)
LEMMA HeaderEndKeeps ==
    ASSUME ParseInv, HeaderEnd
    PROVE  ParseInv'
<1>1. /\ checkState = "header" /\ TakeLine /\ lineStatus' = "ok" /\ Text = <<>>
      /\ contentLen' = contentLen /\ linger' = linger
      /\ \/ contentLen # 0 /\ checkState' = "content" /\ code' = code /\ pc' = pc
         \/ contentLen = 0 /\ checkState' = checkState /\ code' = "GET_REQUEST" /\ pc' = "reply"
  BY DEF HeaderEnd, Return
<1>2. code = "NO_REQUEST" /\ pc = "loop" /\ contentLen \in {0, BodyLen} /\ linger \in BOOLEAN
  <2>1. pc = "loop"
    BY <1>1 DEF TakeLine
  <2> QED
    BY <1>1, <2>1 DEF ParseInv, HeadInv, PTypes, ParseTypes
<1>3. PTypes' /\ LinesInv'
  BY <1>1, <1>2, LineTakenKeeps
<1>4. /\ lines # <<>> /\ lines[1] = <<"G">> /\ \A k \in 2 .. Len(lines) : lines[k] # <<>>
      /\ contentLen # 0 <=> \E k \in 2 .. Len(lines) : lines[k] = <<"L">>
  BY <1>1, <1>2 DEF ParseInv, HeadInv
<1>5. /\ Len(lines) \in Nat /\ Len(lines) >= 1 /\ Len(lines') = Len(lines) + 1
      /\ lines'[Len(lines) + 1] = Text /\ lines' # <<>>
      /\ \A k \in 1 .. Len(lines) : lines'[k] = lines[k]
  BY <1>1, <1>4, LineTaken, LinesType DEF ParseInv
<1> DEFINE n == Len(lines)
           ls == lines'
<1>6. n \in Nat /\ n >= 1 /\ ls[n + 1] = <<>> /\ \A k \in 1 .. n : ls[k] = lines[k]
  BY <1>1, <1>5
<1>7. Len(ls) = n + 1
  BY <1>5
<1> HIDE DEF n, ls
<1>8. \A k \in 2 .. n + 1 : k = n + 1 \/ k \in 2 .. n
  BY <1>6
<1>9. \A k \in 2 .. n : k \in 2 .. n + 1 /\ ls[k] = lines[k]
  BY <1>6
<1>10. \A k \in 2 .. n + 1 - 1 : ls[k] # <<>>
  <2>1. n + 1 - 1 = n
    BY <1>6
  <2> QED
    BY <1>4, <1>9, <2>1 DEF n
<1>11. contentLen # 0 => \E k \in 2 .. n + 1 : ls[k] = <<"L">>
  BY <1>4, <1>9 DEF n
<1>12. contentLen = 0 => \A k \in 2 .. n + 1 : ls[k] # <<"L">>
  <2> SUFFICES ASSUME contentLen = 0, NEW k \in 2 .. n + 1 PROVE ls[k] # <<"L">>
    OBVIOUS
  <2>1. <<>> # <<"L">>
    OBVIOUS
  <2> QED
    BY <1>4, <1>6, <1>8, <1>9, <2>1 DEF n
<1>13. HeadInv'
  <2>1. ls[1] = <<"G">> /\ Len(ls) >= 2 /\ ls[Len(ls)] = <<>>
    <3>1. ls[1] = lines[1]
      BY <1>6
    <3> QED
      BY <1>4, <1>6, <1>7, <3>1
  <2>2. \A k \in 2 .. Len(ls) - 1 : ls[k] # <<>>
    <3>1. Len(ls) - 1 = n + 1 - 1
      BY <1>6, <1>7
    <3> QED
      BY <1>10, <3>1
  <2>3. contentLen # 0 => \E k \in 2 .. Len(ls) : ls[k] = <<"L">>
    BY <1>7, <1>11
  <2>4. contentLen = 0 => \A k \in 2 .. Len(ls) : ls[k] # <<"L">>
    BY <1>7, <1>12
  <2> QED
    BY <1>1, <1>2, <1>5, <2>1, <2>2, <2>3, <2>4 DEF HeadInv, ls
<1> QED
  BY <1>3, <1>13 DEF ParseInv

(* The body: m_start_line moves on, and with it the length it has to have. *)
LEMMA ContentKeeps ==
    ASSUME ParseInv, checkState = "content", pc = "loop",
           NEW idx \in checkIdx .. readIdx, ParseContent(idx), checkIdx' = idx, lines' = lines
    PROVE  ParseInv'
<1>1. /\ startLine' = idx
      /\ stream' = stream /\ readIdx' = readIdx /\ checkState' = checkState
      /\ contentLen' = contentLen /\ linger' = linger
      /\ \/ /\ readIdx >= contentLen + idx /\ code' = "GET_REQUEST" /\ pc' = "reply"
            /\ lineStatus' = "ok"
         \/ lineStatus' = "open" /\ code' = code /\ pc' = pc
  BY DEF ParseContent, Return
<1>2. /\ readIdx \in Nat /\ checkIdx \in Nat /\ startLine \in Nat
      /\ checkIdx <= readIdx /\ startLine <= checkIdx
  BY BufType DEF ParseInv
<1>3. /\ startLine' \in 0 .. readIdx' /\ checkIdx' \in startLine' .. readIdx'
      /\ \A m \in 0 .. startLine : m \in 0 .. startLine'
  BY <1>1, <1>2
<1>4. PTypes'
  BY <1>1, <1>3 DEF ParseInv, PTypes, ParseTypes
<1>5. LinesInv'
  BY <1>1, <1>3 DEF ParseInv, LinesInv
<1>6. HeadInv'
  <2>1. code = "NO_REQUEST"
    BY DEF ParseInv, HeadInv
  <2> QED
    BY <1>1, <2>1 DEF ParseInv, HeadInv
<1> QED
  BY <1>4, <1>5, <1>6 DEF ParseInv

(* init(): nothing read, no lines. *)
LEMMA InitRequestKeeps ==
    ASSUME ParseInv, InitRequest, pc' = "read"
    PROVE  ParseInv'
<1>1. /\ stream \in Seq(Chars) /\ Len(stream) \in Nat /\ readIdx \in Nat
  BY BufType DEF ParseInv, PTypes
<1>2. stream' \in Seq(Chars)
  <2>1. /\ readIdx + 1 \in Int /\ Len(stream) \in Int
        /\ \A i \in readIdx + 1 .. Len(stream) : i \in 1 .. Len(stream)
    BY <1>1
  <2>2. \A i \in readIdx + 1 .. Len(stream) : stream[i] \in Chars
    BY <1>1, <2>1, ElementOfSeq
  <2>3. SubSeq(stream, readIdx + 1, Len(stream)) \in Seq(Chars)
    BY <2>1, <2>2, SubSeqProperties
  <2> QED
    BY <2>3 DEF InitRequest
<1>3. Len(stream') \in Nat
  BY <1>2, LenProperties
<1>4. PTypes'
  <2>1. /\ readIdx' = 0 /\ checkIdx' = 0 /\ startLine' = 0
        /\ checkState' = "requestline" /\ contentLen' = 0 /\ linger' = FALSE
        /\ lineStatus' = "ok" /\ code' = "NO_REQUEST"
    BY DEF InitRequest
  <2>2. /\ readIdx' \in 0 .. Len(stream') /\ startLine' \in 0 .. readIdx'
        /\ checkIdx' \in startLine' .. readIdx'
    BY <1>3, <2>1
  <2> QED
    BY <1>2, <2>1, <2>2 DEF PTypes, ParseTypes
<1>5. LinesInv'
  <2>1. UpTo(stream', 0) = {} /\ LinesAt(stream', UpTo(stream', 0)) = <<>>
    BY <1>2, NoLines
  <2>2. 0 \in 0 .. 0 /\ 0 + 1 .. 0 = {}
    OBVIOUS
  <2> QED
    BY <2>1, <2>2 DEF InitRequest, LinesInv, LineStart, Plain
<1>6. HeadInv'
  BY DEF InitRequest, HeadInv
<1> QED
  BY <1>4, <1>5, <1>6 DEF ParseInv

(* Outside of process_read() and init(), the parser's state stays. *)
LEMMA OutputKeeps ==
    ASSUME ParseInv, UNCHANGED input,
           pc' = pc \/ pc' \in {"reply", "armed", "write", "closed"}
    PROVE  ParseInv'
<1>1. /\ stream' = stream /\ readIdx' = readIdx /\ checkIdx' = checkIdx /\ startLine' = startLine
      /\ checkState' = checkState /\ contentLen' = contentLen /\ linger' = linger
      /\ lineStatus' = lineStatus /\ code' = code /\ lines' = lines
  BY DEF input, parser
<1>2. PTypes'
  BY <1>1 DEF ParseInv, PTypes, ParseTypes
<1>3. LinesInv'
  BY <1>1 DEF ParseInv, LinesInv
<1>4. HeadInv'
  BY <1>1 DEF ParseInv, HeadInv
<1> QED
  BY <1>2, <1>3, <1>4 DEF ParseInv

-----------------------------------------------------------------------------
(* The response *)

(* The types, and that the file is mapped while its response is written.    *)
OutTypes ==
    /\ writeIdx \in 0 .. MaxHeader /\ body \in 0 .. MaxBody
    /\ mapped \in BOOLEAN
    /\ haveSent \in 0 .. MaxSent
    /\ delivered \in Seq(Nat) /\ calls \in Nat
    /\ pc \in {"read", "loop", "reply"} => ~ mapped /\ writeIdx = 0
    /\ pc \in {"armed", "write"} => writeIdx # 0 /\ (body > 0 => mapped)

(* What the peer has after one call of writev(), while write() counts it.   *)
SentInv ==
    /\ calls = 0 => delivered = <<>>
    /\ pc = "write" =>
          /\ haveSent <= Len(delivered)
          /\ calls = 1 /\ haveSent # 0 =>
                haveSent <= Len(Message) /\ delivered = SubSeq(Message, 1, haveSent)

OutInv == OutTypes /\ SentInv

(* The bounds are numbers. *)
LEMMA Sizes == MaxHeader \in Nat /\ MaxBody \in Nat /\ MaxSent \in Nat /\ MaxHeader # 0
BY SizesAssumption

(* The bytes of a response. *)
LEMMA MessageIs ==
    ASSUME OutTypes
    PROVE  /\ Message \in Seq(Nat) /\ Len(Message) = writeIdx + body
           /\ writeIdx \in Nat /\ body \in Nat /\ haveSent \in Nat /\ Len(delivered) \in Nat
<1>1. writeIdx \in Nat /\ body \in Nat /\ haveSent \in Nat
  BY Sizes DEF OutTypes
<1>2. Len(delivered) \in Nat
  BY LenProperties DEF OutTypes
<1> DEFINE n == writeIdx + body
<1>3. n \in Nat
  BY <1>1
<1>4. Message = [i \in 1 .. n |-> i]
  BY DEF Message
<1> HIDE DEF n
<1>5. Message \in [1 .. n -> Nat] /\ DOMAIN Message = 1 .. n
  BY <1>3, <1>4
<1>6. Message \in Seq(Nat)
  BY <1>3, <1>5, SeqDef
<1>7. Len(Message) = n
  BY <1>3, <1>5, <1>6, LenProperties
<1> QED
  BY <1>1, <1>2, <1>6, <1>7 DEF n

(* The beginning of a response. *)
LEMMA MessagePart ==
    ASSUME OutTypes, NEW n \in Nat, n <= Len(Message)
    PROVE  SubSeq(Message, 1, n) \in Seq(Nat) /\ Len(SubSeq(Message, 1, n)) = n
<1>1. Message \in Seq(Nat) /\ Len(Message) \in Nat
  BY MessageIs, LenProperties
<1>2. n \in Int /\ \A i \in 1 .. n : Message[i] \in Nat
  <2>1. \A i \in 1 .. n : i \in 1 .. Len(Message)
    BY <1>1
  <2> QED
    BY <1>1, <2>1, ElementOfSeq
<1> DEFINE u == SubSeq(Message, 1, n)
<1>3. u \in Seq(Nat) /\ Len(u) = IF 1 <= n THEN n - 1 + 1 ELSE 0
  BY <1>2, SubSeqProperties
<1> HIDE DEF u
<1>4. Len(u) = n
  BY <1>3
<1> QED
  BY <1>3, <1>4 DEF u

(* MappingOutlivesWrite and HeaderArrives follow. *)
LEMMA ResponseIsRight ==
    ASSUME OutInv
    PROVE  MappingOutlivesWrite /\ HeaderArrives
<1>1. OutTypes /\ SentInv
  BY DEF OutInv
<1>2. MappingOutlivesWrite
  BY <1>1 DEF MappingOutlivesWrite, OutTypes
<1>3. ASSUME pc = "write", AllSent, calls = 1
      PROVE  /\ IsPrefix(SubSeq(Message, 1, writeIdx), delivered)
             /\ IsPrefix(delivered, Message)
  <2> DEFINE w == SubSeq(Message, 1, writeIdx)
  <2>1. /\ Message \in Seq(Nat) /\ Len(Message) = writeIdx + body
        /\ writeIdx \in Nat /\ body \in Nat /\ haveSent \in Nat
    BY <1>1, MessageIs
  <2>2. writeIdx # 0 /\ haveSent >= writeIdx
    BY <1>1, <1>3 DEF OutTypes, AllSent
  <2>3. haveSent # 0
    BY <2>1, <2>2
  <2>4. haveSent <= Len(Message) /\ delivered = SubSeq(Message, 1, haveSent)
    BY <1>1, <1>3, <2>3 DEF SentInv
  <2>5. Len(delivered) = haveSent /\ delivered \in Seq(Nat)
    BY <1>1, <2>1, <2>4, MessagePart
  <2>6. w \in Seq(Nat) /\ Len(w) = writeIdx
    <3>1. writeIdx <= Len(Message)
      BY <2>1
    <3> QED
      BY <1>1, <2>1, <3>1, MessagePart
  <2>7. IsPrefix(delivered, Message)
    <3>1. SubSeq(delivered, 1, Len(delivered)) = delivered
      BY <2>5, SubSeqFull
    <3> QED
      BY <2>1, <2>4, <2>5, <3>1 DEF IsPrefix
  <2>8. IsPrefix(w, delivered)
    <3>1. SubSeq(w, 1, Len(w)) = w
      BY <2>6, SubSeqFull
    <3>2. SubSeq(delivered, 1, writeIdx) = w
      <4>1. /\ 1 \in 1 .. Len(Message) /\ haveSent \in 1 .. Len(Message)
            /\ 1 \in 1 .. haveSent - 1 + 1 /\ writeIdx \in 1 .. haveSent - 1 + 1
            /\ 1 + 1 - 1 = 1 /\ 1 + writeIdx - 1 = writeIdx
        BY <2>1, <2>2, <2>3, <2>4
      <4>2. SubSeq(SubSeq(Message, 1, haveSent), 1, writeIdx)
            = SubSeq(Message, 1 + 1 - 1, 1 + writeIdx - 1)
        BY <2>1, <4>1, SubSeqOfSubSeq
      <4> QED
        BY <2>4, <4>1, <4>2
    <3> HIDE DEF w
    <3> QED
      BY <2>2, <2>5, <2>6, <3>1, <3>2 DEF IsPrefix
  <2> QED
    BY <2>7, <2>8
<1>4. HeaderArrives
  BY <1>3 DEF HeaderArrives
<1> QED
  BY <1>2, <1>4

(* A response is built. *)
LEMMA RespondKeeps ==
    ASSUME OutInv, pc = "reply", NEW n \in 0 .. MaxBody, Respond(n),
           mapped' \in BOOLEAN, n # 0 => mapped'
    PROVE  OutInv'
<1>1. PICK h \in 1 .. MaxHeader : writeIdx' = writeIdx + h
  BY DEF Respond
<1>2. /\ body' = n /\ pc' = "armed" /\ delivered' = <<>> /\ calls' = 0 /\ haveSent' = haveSent
      /\ writeIdx = 0
  BY DEF Respond, OutInv, OutTypes
<1>3. writeIdx' \in 0 .. MaxHeader /\ writeIdx' # 0 /\ body' \in 0 .. MaxBody
      /\ (body' > 0 => mapped')
  BY <1>1, <1>2, Sizes
<1>4. delivered' \in Seq(Nat)
  BY <1>2, EmptySeq
<1>5. OutTypes'
  BY <1>2, <1>3, <1>4 DEF OutInv, OutTypes
<1> QED
  BY <1>2, <1>5 DEF OutInv, SentInv

(* writev() takes bytes. *)
LEMMA WritevKeeps ==
    ASSUME OutInv, NEW n \in 1 .. writeIdx + body, Writev(n)
    PROVE  OutInv'
<1>1. /\ pc = "write" /\ pc' = pc /\ writeIdx' = writeIdx /\ body' = body /\ mapped' = mapped
      /\ Len(delivered) + n <= MaxSent /\ delivered' = delivered \o SubSeq(Message, 1, n)
      /\ calls' = calls + 1 /\ haveSent' = haveSent + n
  BY DEF Writev
<1>2. OutTypes /\ SentInv /\ delivered \in Seq(Nat) /\ calls \in Nat /\ MaxSent \in Nat
  BY Sizes DEF OutInv, OutTypes
<1>3. /\ Message \in Seq(Nat) /\ Len(Message) = writeIdx + body
      /\ writeIdx \in Nat /\ body \in Nat /\ haveSent \in Nat /\ Len(delivered) \in Nat
      /\ haveSent <= Len(delivered)
  BY <1>1, <1>2, MessageIs DEF SentInv
<1> DEFINE u == SubSeq(Message, 1, n)
<1>4. u \in Seq(Nat) /\ Len(u) = n /\ n \in Nat /\ n <= Len(Message)
  <2>1. n \in Nat /\ n <= Len(Message)
    BY <1>3
  <2> QED
    BY <1>2, <2>1, MessagePart
<1>5. delivered' \in Seq(Nat) /\ Len(delivered') = Len(delivered) + n
  <2> HIDE DEF u
  <2>1. delivered' = delivered \o u
    BY <1>1 DEF u
  <2> QED
    BY <1>2, <1>4, <2>1, ConcatProperties
<1>6. haveSent' \in 0 .. MaxSent /\ haveSent' <= Len(delivered') /\ calls' \in Nat /\ calls' # 0
  BY <1>1, <1>2, <1>3, <1>4, <1>5
<1>7. OutTypes'
  BY <1>1, <1>2, <1>5, <1>6 DEF OutTypes
<1>8. ASSUME calls' = 1
      PROVE  haveSent' <= Len(Message) /\ delivered' = SubSeq(Message, 1, haveSent')
  <2>1. calls = 0
    BY <1>1, <1>2, <1>8
  <2>2. delivered = <<>> /\ Len(delivered) = 0
    BY <1>2, <2>1, EmptySeq DEF SentInv
  <2>3. haveSent = 0 /\ haveSent' = n
    BY <1>1, <1>3, <1>4, <2>2
  <2>4. delivered' = u
    BY <1>1, <1>4, <2>2, ConcatEmptySeq
  <2> QED
    BY <1>4, <2>3, <2>4
<1>9. Message' = Message
  BY <1>1 DEF Message
<1>10. SentInv'
  BY <1>1, <1>6, <1>8, <1>9 DEF SentInv
<1> QED
  BY <1>7, <1>10 DEF OutInv

(* Every other step of the connection. *)
LEMMA OutStepKeeps ==
    ASSUME OutInv, Next
    PROVE  OutInv'
<1> USE Sizes
<1>1. CASE ParseStep /\ UNCHANGED output
  <2>1. pc \in {"read", "loop"} /\ pc' \in {"read", "loop", "reply"}
    BY <1>1 DEF ParseStep, Read, NoLine, RequestLine, HeaderLine, HeaderEnd, Content, ContentLine,
                TakeLine, ParseContent, Return
  <2>2. /\ writeIdx' = writeIdx /\ body' = body /\ mapped' = mapped /\ haveSent' = haveSent
        /\ delivered' = delivered /\ calls' = calls
    BY <1>1 DEF output
  <2> QED
    BY <2>1, <2>2 DEF OutInv, OutTypes, SentInv
<1>2. CASE ReplyPage
  <2>1. pc = "reply" /\ Respond(0) /\ mapped' = mapped /\ 0 \in 0 .. MaxBody
    BY <1>2 DEF ReplyPage
  <2>2. mapped' \in BOOLEAN
    BY <2>1 DEF OutInv, OutTypes
  <2> QED
    BY <2>1, <2>2, RespondKeeps
<1>3. CASE ReplyFile
  <2>1. PICK n \in 0 .. MaxBody : Respond(n)
    BY <1>3 DEF ReplyFile
  <2> QED
    BY <1>3, <2>1, RespondKeeps DEF ReplyFile
<1>4. CASE ReplyFail
  BY <1>4 DEF ReplyFail, output, OutInv, OutTypes, SentInv
<1>5. CASE HangUp
  BY <1>5 DEF HangUp, output, OutInv, OutTypes, SentInv
<1>6. CASE WriteStart
  <2>1. delivered \in Seq(Nat) /\ Len(delivered) \in Nat
    BY MessageIs DEF OutInv, OutTypes
  <2> QED
    BY <1>6, <2>1 DEF WriteStart, OutInv, OutTypes, SentInv
<1>7. CASE WriteLater
  BY <1>7 DEF WriteLater, output, OutInv, OutTypes, SentInv
<1>8. CASE WriteFail
  BY <1>8 DEF WriteFail, Unmap, OutInv, OutTypes, SentInv
<1>9. CASE WriteKeepAlive
  <2>1. /\ writeIdx' = 0 /\ body' = body /\ mapped' = FALSE /\ haveSent' = haveSent
        /\ delivered' = delivered /\ calls' = calls /\ pc' = "read"
    BY <1>9 DEF WriteKeepAlive, Unmap
  <2>2. writeIdx' \in 0 .. MaxHeader
    BY <2>1
  <2> QED
    BY <2>1, <2>2 DEF OutInv, OutTypes, SentInv
<1>10. CASE WriteClose
  BY <1>10 DEF WriteClose, Unmap, OutInv, OutTypes, SentInv
<1>11. CASE \E n \in 1 .. writeIdx + body : Writev(n)
  BY <1>11, WritevKeeps
<1> QED
  BY <1>1, <1>2, <1>3, <1>4, <1>5, <1>6, <1>7, <1>8, <1>9, <1>10, <1>11 DEF Next

(* Every step of the connection, for the parser. *)
LEMMA ParseStepKeeps ==
    ASSUME ParseInv, Next
    PROVE  ParseInv'
<1>1. CASE Read
  BY <1>1, ReadKeeps
<1>2. CASE NoLine
  BY <1>2, NoLineKeeps
<1>3. CASE RequestLine
  BY <1>3, RequestLineKeeps
<1>4. CASE HeaderLine
  BY <1>4, HeaderLineKeeps
<1>5. CASE HeaderEnd
  BY <1>5, HeaderEndKeeps
<1>6. CASE Content
  <2>1. /\ pc = "loop" /\ checkState = "content" /\ ParseContent(checkIdx)
        /\ checkIdx' = checkIdx /\ lines' = lines
    BY <1>6 DEF Content, InContent
  <2>2. checkIdx \in checkIdx .. readIdx
    BY BufType DEF ParseInv
  <2> QED
    BY <2>1, <2>2, ContentKeeps
<1>7. CASE ContentLine
  <2>1. /\ pc = "loop" /\ checkState = "content" /\ ParseContent(Line.idx)
        /\ checkIdx' = Line.idx /\ lines' = lines
    BY <1>7 DEF ContentLine
  <2>2. Line.idx \in checkIdx .. readIdx
    BY LineIs
  <2> QED
    BY <2>1, <2>2, ContentKeeps
<1>8. CASE WriteKeepAlive
  BY <1>8, InitRequestKeeps DEF WriteKeepAlive
<1>9. ASSUME UNCHANGED input, pc' = pc \/ pc' \in {"reply", "armed", "write", "closed"}
      PROVE  ParseInv'
  BY <1>9, OutputKeeps
<1>10. CASE ReplyPage \/ ReplyFile
  BY <1>9, <1>10 DEF ReplyPage, ReplyFile, Respond
<1>11. CASE ReplyFail \/ HangUp
  BY <1>9, <1>11 DEF ReplyFail, HangUp
<1>12. CASE WriteStart \/ WriteLater \/ WriteFail \/ WriteClose
  BY <1>9, <1>12 DEF WriteStart, WriteLater, WriteFail, WriteClose
<1>13. CASE \E n \in 1 .. writeIdx + body : Writev(n)
  BY <1>9, <1>13 DEF Writev
<1> QED
  BY <1>1, <1>2, <1>3, <1>4, <1>5, <1>6, <1>7, <1>8, <1>10, <1>11, <1>12, <1>13 DEF Next, ParseStep

-----------------------------------------------------------------------------
(* The sample that reads a request *)

(* The instance's operators on bytes are the ones above. *)
LEMMA ReaderOperators ==
    /\ \A b, i : Reader!Byte(b, i) = Byte(b, i)
    /\ \A b : Reader!Stray(b) = Stray(b)
    /\ \A b : Reader!WellFormed(b) = WellFormed(b)
    /\ \A b : Reader!SplitLines(b) = SplitLines(b)
    /\ \A S : Reader!Min(S) = Min(S)
<1>1. \A b, i : Reader!Byte(b, i) = Byte(b, i)
  BY DEF Byte, Reader!Byte
<1>2. \A b : Reader!Stray(b) = Stray(b)
  BY DEF Stray, Reader!Stray
<1>3. \A S : Reader!Min(S) = Min(S)
  BY DEF Min, Reader!Min
<1>4. \A b : Reader!WellFormed(b) = WellFormed(b)
  BY <1>2, <1>3 DEF WellFormed, Reader!WellFormed
<1>5. \A b : Reader!SplitLines(b) = SplitLines(b)
  BY Zenon DEF SplitLines, Reader!SplitLines, Ends, Reader!Ends, InOrder, Reader!InOrder,
               Cardinality, Reader!Cardinality
<1> QED
  BY <1>1, <1>2, <1>3, <1>4, <1>5

RTypes ==
    /\ bytes \in Seq(Chars)
    /\ read_idx \in 0 .. Len(bytes)
    /\ start_line \in 0 .. read_idx /\ chk_idx \in start_line .. read_idx
    /\ chkstate \in {"requestline", "header"}
    /\ result \in {"NO_REQUEST", "BAD_REQUEST", "GET_REQUEST"}
    /\ at \in {"read", "parse", "closed"}

(* No LF alone has come *)
Clean == \A k \in Stray(Reader!buf) : Reader!buf[k] = "r"

(* The lines taken *)
Taken == LinesAt(bytes, UpTo(bytes, start_line))

(* Before an LF alone comes: the lines taken are those that end up to       *)
(* start_line, plain bytes follow, and they say what chkstate and the       *)
(* result do; the reader goes on when no other line has ended and no CR is  *)
(* alone.                                                                   *)
RLines ==
    /\ LineStart(bytes, start_line)
    /\ Plain(bytes, start_line, chk_idx)
    /\ at = "read" => UpTo(bytes, read_idx) = UpTo(bytes, start_line) /\ Stray(Reader!buf) = {}
    /\ chkstate = "requestline" =>
          /\ result # "GET_REQUEST"
          /\ result = "NO_REQUEST" => Taken = <<>>
    /\ chkstate = "header" =>
          /\ Taken # <<>> /\ Taken[1] = <<"G">>
          /\ result = "NO_REQUEST" => \A k \in 2 .. Len(Taken) : Taken[k] # <<>>
    /\ result = "GET_REQUEST" => Len(Taken) >= 2 /\ Taken[Len(Taken)] = <<>>
    /\ result = "BAD_REQUEST" => Stray(Reader!buf) # {} \/ (Taken # <<>> /\ Taken[1] # <<"G">>)

ReaderInv ==
    /\ RTypes
    /\ at \in {"read", "parse"} => result = "NO_REQUEST"
    /\ Clean => RLines

(* What has come, and what of it is stray. *)
LEMMA ReaderBuf ==
    ASSUME RTypes
    PROVE  /\ Reader!buf \in Seq(Chars) /\ Len(Reader!buf) = read_idx
           /\ \A k \in 1 .. read_idx : Reader!buf[k] = bytes[k]
           /\ Len(bytes) \in Nat /\ read_idx \in Nat /\ chk_idx \in Nat /\ start_line \in Nat
           /\ read_idx <= Len(bytes) /\ chk_idx <= read_idx /\ start_line <= chk_idx
           /\ Stray(Reader!buf) \subseteq Stray(bytes)
           /\ Stray(Reader!buf) \subseteq 1 .. read_idx
<1>1. /\ bytes \in Seq(Chars) /\ read_idx \in 0 .. Len(bytes) /\ Len(bytes) \in Nat
      /\ start_line \in 0 .. read_idx /\ chk_idx \in start_line .. read_idx
  BY LenProperties DEF RTypes
<1>2. read_idx \in Int /\ \A k \in 1 .. read_idx : bytes[k] \in Chars
  BY <1>1, ElementOfSeq
<1> DEFINE b == Reader!buf
<1>3. /\ b \in Seq(Chars) /\ Len(b) = IF 1 <= read_idx THEN read_idx - 1 + 1 ELSE 0
      /\ \A k \in 1 .. read_idx - 1 + 1 : b[k] = bytes[1 + k - 1]
  BY <1>2, SubSeqProperties DEF Reader!buf
<1> HIDE DEF b
<1>4. Len(b) = read_idx /\ \A k \in 1 .. read_idx : b[k] = bytes[k]
  BY <1>1, <1>3
<1>5. Stray(b) \subseteq 1 .. read_idx
  BY <1>4 DEF Stray
<1>6. ASSUME NEW k \in Stray(b)
      PROVE  k \in Stray(bytes)
  <2>1. k \in 1 .. read_idx /\ k \in 1 .. Len(bytes) /\ b[k] = bytes[k]
    BY <1>1, <1>4, <1>5
  <2>2. k < read_idx => k < Len(bytes) /\ b[k + 1] = bytes[k + 1]
    BY <1>1, <1>4, <2>1
  <2>3. k # 1 => b[k - 1] = bytes[k - 1]
    BY <1>1, <1>4, <2>1
  <2> QED
    BY <1>4, <2>1, <2>2, <2>3 DEF Stray
<1> QED
  BY <1>1, <1>3, <1>4, <1>5, <1>6 DEF b

(* What parse_line() returns. *)
LEMMA ReaderLine ==
    ASSUME RTypes, NEW beyond \in {"r", "x"}
    PROVE  LET line == Reader!ParseLine(Reader!buf, beyond)
           IN  /\ line.idx \in chk_idx .. read_idx
               /\ line.status \in {"ok", "open", "bad"}
               /\ Clean /\ RLines /\ line.status = "ok" =>
                      /\ line.idx \in LineEnds(bytes) /\ start_line < line.idx
                      /\ line.end = line.idx - 2
                      /\ UpTo(bytes, line.idx) = UpTo(bytes, start_line) \union {line.idx}
               /\ Clean /\ RLines /\ line.status # "ok" => Plain(bytes, start_line, line.idx)
               /\ Clean /\ RLines /\ line.status = "open" =>
                      /\ UpTo(bytes, read_idx) = UpTo(bytes, start_line)
                      /\ Stray(Reader!buf) = {}
               /\ Clean /\ RLines /\ line.status = "bad" => Stray(Reader!buf) # {}
<1> DEFINE b == Reader!buf
           stops == Reader!Stops(b)
           i == Reader!Min(stops)
           line == Reader!ParseLine(b, beyond)
           n == read_idx
<1>1. /\ b \in Seq(Chars) /\ Len(b) = n /\ \A k \in 1 .. n : b[k] = bytes[k]
      /\ Len(bytes) \in Nat /\ n \in Nat /\ chk_idx \in Nat /\ start_line \in Nat
      /\ n <= Len(bytes) /\ chk_idx <= n /\ start_line <= chk_idx
      /\ Stray(b) \subseteq Stray(bytes) /\ Stray(b) \subseteq 1 .. n
  BY ReaderBuf
<1>2. stops = {k \in chk_idx .. n - 1 : Byte(b, k) \in {"r", "n"}}
  BY <1>1, ReaderOperators DEF Reader!Stops
<1> DEFINE next == IF i + 1 < n THEN Byte(b, i + 1) ELSE beyond
<1>3. line = IF stops = {} THEN [status |-> "open", idx |-> n, end |-> 0]
             ELSE IF Byte(b, i) = "r" /\ i + 1 = n THEN [status |-> "open", idx |-> i, end |-> 0]
             ELSE IF Byte(b, i) = "r" /\ next = "n"
                  THEN [status |-> "ok", idx |-> i + 2, end |-> i]
             ELSE IF Byte(b, i) = "n" /\ i > 1 /\ next = "r"
                  THEN [status |-> "ok", idx |-> i + 1, end |-> i - 1]
             ELSE [status |-> "bad", idx |-> i, end |-> 0]
  BY <1>1, ReaderOperators DEF Reader!ParseLine
<1>4. i = Min(stops)
  BY ReaderOperators
<1> HIDE DEF b, stops, i, line, n
<1>5. \A k \in chk_idx .. n - 1 : Byte(b, k) = bytes[k + 1] /\ k + 1 \in 1 .. n
  BY <1>1 DEF Byte
<1>6. CASE stops = {}
  <2>1. line = [status |-> "open", idx |-> n, end |-> 0]
    BY <1>3, <1>6
  <2>2. n \in chk_idx .. n
    BY <1>1
  <2>3. \A k \in chk_idx + 1 .. n : bytes[k] \notin {"r", "n"}
    <3> SUFFICES ASSUME NEW k \in chk_idx + 1 .. n PROVE bytes[k] \notin {"r", "n"}
      OBVIOUS
    <3>1. k - 1 \in chk_idx .. n - 1 /\ k - 1 + 1 = k
      BY <1>1
    <3>2. Byte(b, k - 1) \notin {"r", "n"}
      BY <1>2, <1>6, <3>1
    <3> QED
      BY <1>5, <3>1, <3>2
  <2>4. ASSUME RLines
        PROVE  /\ Plain(bytes, start_line, n) /\ UpTo(bytes, n) = UpTo(bytes, start_line)
               /\ Stray(b) = {}
    <3>1. Plain(bytes, start_line, n)
      <4>1. \A k \in start_line + 1 .. n : k \in start_line + 1 .. chk_idx \/ k \in chk_idx + 1 .. n
        BY <1>1
      <4> QED
        BY <2>3, <2>4, <4>1 DEF Plain, RLines
    <3>2. \A k \in LineEnds(bytes) : k <= n <=> k <= start_line
      BY <1>1, <3>1 DEF LineEnds, Plain
    <3>3. \A k \in Stray(b) : start_line < k
      <4>1. start_line # 0 => \A k \in Stray(bytes) : start_line < k
        BY <2>4 DEF RLines, LineStart, LineEnds
      <4> QED
        BY <1>1, <4>1
    <3>4. \A k \in Stray(b) : k \in start_line + 1 .. n /\ bytes[k] \in {"r", "n"}
      <4>1. \A k \in Stray(b) : k \in 1 .. n /\ b[k] \in {"r", "n"}
        BY <1>1 DEF Stray
      <4> QED
        BY <1>1, <3>3, <4>1
    <3>5. Stray(b) = {}
      BY <3>1, <3>4 DEF Plain
    <3> QED
      BY <3>1, <3>2, <3>5 DEF UpTo
  <2> QED
    BY <2>1, <2>2, <2>4 DEF line, b, n
<1>7. CASE stops # {}
  <2>1. stops \in SUBSET Nat
    BY <1>1, <1>2
  <2>2. i \in stops /\ \A k \in stops : i <= k
    BY <1>4, <1>7, <2>1, LeastElement
  <2>3. /\ i \in chk_idx .. n - 1 /\ i \in Nat /\ i + 1 \in 1 .. n /\ i + 1 \in 1 .. Len(bytes)
        /\ Byte(b, i) = bytes[i + 1] /\ (Byte(b, i) = "r" \/ Byte(b, i) = "n")
    BY <1>1, <1>2, <1>5, <2>2
  <2>4. \A k \in chk_idx + 1 .. i : bytes[k] \notin {"r", "n"}
    <3> SUFFICES ASSUME NEW k \in chk_idx + 1 .. i PROVE bytes[k] \notin {"r", "n"}
      OBVIOUS
    <3>1. k - 1 \in chk_idx .. n - 1 /\ k - 1 + 1 = k /\ ~ (i <= k - 1)
      BY <1>1, <2>3
    <3>2. k - 1 \notin stops
      BY <2>2, <3>1
    <3>3. Byte(b, k - 1) \notin {"r", "n"}
      BY <1>2, <3>1, <3>2
    <3> QED
      BY <1>5, <3>1, <3>3
  <2>5. ASSUME RLines
        PROVE  /\ Plain(bytes, start_line, i)
               /\ \A k \in LineEnds(bytes) : k <= i => k <= start_line
               /\ \A k \in Stray(bytes) : i < k
               /\ i # 0 => bytes[i] # "r"
    <3>1. Plain(bytes, start_line, i)
      <4>1. \A k \in start_line + 1 .. i : k \in start_line + 1 .. chk_idx \/ k \in chk_idx + 1 .. i
        BY <1>1, <2>3
      <4> QED
        BY <2>4, <2>5, <4>1 DEF Plain, RLines
    <3>2. \A k \in LineEnds(bytes) : k <= i => k <= start_line
      BY <1>1, <2>3, <3>1 DEF LineEnds, Plain
    <3>3. start_line # 0 => bytes[start_line] = "n" /\ \A k \in Stray(bytes) : start_line < k
      BY <2>5 DEF RLines, LineStart, LineEnds
    <3>4. \A k \in Stray(bytes) : k \in 1 .. Len(bytes) /\ bytes[k] \in {"r", "n"}
      BY DEF Stray
    <3>5. \A k \in Stray(bytes) : i < k
      <4> SUFFICES ASSUME NEW k \in Stray(bytes), k <= i PROVE FALSE
        BY <1>1, <2>3, <3>4
      <4>1. k \in start_line + 1 .. i
        BY <1>1, <2>3, <3>3, <3>4
      <4> QED
        BY <3>1, <3>4, <4>1 DEF Plain
    <3>6. i # 0 => bytes[i] # "r"
      <4>1. CASE i = start_line
        BY <3>3, <4>1
      <4>2. CASE i # start_line
        <5>1. i \in start_line + 1 .. i
          BY <1>1, <2>3, <4>2
        <5> QED
          BY <3>1, <5>1 DEF Plain
      <4> QED
        BY <4>1, <4>2
    <3> QED
      BY <3>1, <3>2, <3>5, <3>6
  <2>6. i \in chk_idx .. n
    BY <1>1, <2>3
  <2>7. CASE Byte(b, i) = "r" /\ i + 1 = n
    <3>1. line = [status |-> "open", idx |-> i, end |-> 0]
      BY <1>3, <1>7, <2>7
    <3>2. ASSUME RLines
          PROVE  UpTo(bytes, n) = UpTo(bytes, start_line) /\ Stray(b) = {}
      <4>1. \A k \in LineEnds(bytes) : k <= n <=> k <= start_line
        <5>1. bytes[n] # "n"
          BY <2>3, <2>7
        <5> QED
          BY <1>1, <2>3, <2>5, <2>7, <3>2, <5>1 DEF LineEnds
      <4>2. \A k \in Stray(b) : k = n
        BY <1>1, <2>3, <2>5, <2>7, <3>2
      <4>3. n \notin Stray(b)
        <5>0. n \in 1 .. n /\ bytes[n] = "r"
          BY <2>3, <2>7
        <5>1. b[n] = "r" /\ ~ (n < n)
          BY <1>1, <5>0
        <5> QED
          BY <1>1, <5>1 DEF Stray
      <4> QED
        BY <4>1, <4>2, <4>3 DEF UpTo
    <3> QED
      BY <2>5, <2>6, <3>1, <3>2 DEF line, b, n
  <2>8. CASE Byte(b, i) = "r" /\ i + 1 # n /\ next = "n"
    <3>1. line = [status |-> "ok", idx |-> i + 2, end |-> i]
      BY <1>3, <1>7, <2>8
    <3>2. i + 1 < n /\ i + 2 \in chk_idx .. n /\ i + 2 \in 2 .. Len(bytes)
      BY <1>1, <2>3, <2>8
    <3>3. bytes[i + 1] = "r" /\ bytes[i + 2] = "n"
      <4>1. Byte(b, i + 1) = "n" /\ i + 1 \in chk_idx .. n - 1 /\ i + 1 + 1 = i + 2
        BY <1>1, <2>3, <2>8, <3>2
      <4> QED
        BY <1>5, <2>3, <2>8, <4>1
    <3>4. ASSUME RLines
          PROVE  /\ i + 2 \in LineEnds(bytes) /\ start_line < i + 2
                 /\ UpTo(bytes, i + 2) = UpTo(bytes, start_line) \union {i + 2}
      <4>1. i + 1 \notin Stray(bytes) /\ i + 2 \notin Stray(bytes)
        <5>1. ASSUME NEW k, k = i + 1
              PROVE  k \notin Stray(bytes)
          <6>1. bytes[k] = "r" /\ k + 1 = i + 2
            BY <2>3, <3>3, <5>1
          <6>2. bytes[k + 1] = "n"
            BY <3>3, <6>1
          <6> QED
            BY <6>1, <6>2 DEF Stray
        <5>2. ASSUME NEW k, k = i + 2
              PROVE  k \notin Stray(bytes)
          <6>1. bytes[k] = "n" /\ k - 1 = i + 1 /\ k # 1
            BY <2>3, <3>3, <5>2
          <6>2. bytes[k - 1] = "r"
            BY <3>3, <6>1
          <6> QED
            BY <6>1, <6>2 DEF Stray
        <5> QED
          BY <5>1, <5>2
      <4>2. \A k \in Stray(bytes) : i + 2 < k
        <5> SUFFICES ASSUME NEW k \in Stray(bytes) PROVE i + 2 < k
          OBVIOUS
        <5>1. i < k /\ k # i + 1 /\ k # i + 2
          BY <2>5, <3>4, <4>1
        <5>2. k \in Nat
          BY <1>1 DEF Stray
        <5> QED
          BY <2>3, <5>1, <5>2
      <4>3. i + 2 \in LineEnds(bytes)
        BY <3>2, <3>3, <4>2 DEF LineEnds
      <4>4. start_line < i + 2
        BY <1>1, <2>3
      <4>5. \A k \in LineEnds(bytes) : k <= i + 2 <=> k <= start_line \/ k = i + 2
        <5> SUFFICES ASSUME NEW k \in LineEnds(bytes)
                     PROVE  k <= i + 2 <=> k <= start_line \/ k = i + 2
          OBVIOUS
        <5>1. k \in Nat /\ bytes[k] = "n"
          BY <1>1 DEF LineEnds
        <5>2. k # i + 1
          BY <3>3, <5>1
        <5> QED
          BY <1>1, <2>3, <2>5, <3>4, <4>4, <5>1, <5>2
      <4> QED
        BY <4>3, <4>4, <4>5 DEF UpTo
    <3>5. i + 2 - 2 = i
      BY <2>3
    <3>6. /\ line.status = "ok" /\ line.idx = i + 2 /\ line.end = line.idx - 2
          /\ line.idx \in chk_idx .. n
      <4>1. line.status = "ok" /\ line.idx = i + 2 /\ line.end = i
        BY <3>1
      <4>2. \A x, y, z \in Int : x = y + 2 /\ z = y => z = x - 2
        OBVIOUS
      <4>3. line.end = line.idx - 2
        <5>1. line.idx \in Int /\ line.end \in Int /\ i \in Int
          BY <2>3, <4>1
        <5> QED
          BY <4>1, <4>2, <5>1
      <4> QED
        BY <3>2, <4>1, <4>3
    <3>7. RLines => /\ line.idx \in LineEnds(bytes) /\ start_line < line.idx
                    /\ UpTo(bytes, line.idx) = UpTo(bytes, start_line) \union {line.idx}
      BY <3>4, <3>6
    <3> QED
      BY <3>6, <3>7 DEF line, b, n
  <2>9. CASE Byte(b, i) = "r" /\ i + 1 # n /\ next # "n"
    <3>1. line = [status |-> "bad", idx |-> i, end |-> 0]
      BY <1>3, <1>7, <2>9
    <3>2. ASSUME NEW k \in 1 .. n, k = i + 1
          PROVE  k \in Stray(b)
      <4>1. k < n /\ b[k] = "r" /\ next = b[k + 1]
        BY <1>1, <2>3, <2>9, <3>2 DEF Byte
      <4> QED
        BY <1>1, <2>9, <4>1 DEF Stray
    <3> QED
      BY <2>3, <2>5, <2>6, <3>1, <3>2 DEF line, b, n
  <2>10. CASE Byte(b, i) = "n"
    <3>1. line.idx \in {i, i + 1} /\ line.status \in {"ok", "bad"} /\ i + 1 \in chk_idx .. n
      <4>1. i + 1 \in chk_idx .. n
        BY <1>1, <2>3
      <4> QED
        BY <1>3, <1>7, <2>10, <4>1
    <3>2. ASSUME RLines
          PROVE  ~ Clean
      <4>1. ASSUME NEW k \in 1 .. n, k = i + 1
            PROVE  k \in Stray(b) /\ b[k] = "n"
        <5>1. b[k] = "n" /\ k - 1 = i
          <6>1. b[k] = bytes[i + 1] /\ k - 1 = i
            BY <1>1, <2>3, <4>1
          <6> QED
            BY <2>3, <2>10, <6>1
        <5>2. k # 1 => b[k - 1] # "r"
          <6>1. k # 1 => k - 1 \in 1 .. n /\ i # 0
            BY <1>1, <2>3, <4>1
          <6> QED
            BY <1>1, <2>5, <3>2, <5>1, <6>1
        <5> QED
          BY <1>1, <5>1, <5>2 DEF Stray
      <4> QED
        BY <2>3, <4>1 DEF Clean, b
    <3> QED
      BY <2>6, <3>1, <3>2 DEF line, b, n
  <2> QED
    BY <2>3, <2>7, <2>8, <2>9, <2>10
<1> QED
  BY <1>6, <1>7

(* The properties of the reader's verdict follow from its invariant. *)
LEMMA ReaderIsRight ==
    ASSUME ReaderInv
    PROVE  ReaderVerdict
<1> DEFINE whole == SplitLines(WellFormed(Reader!buf))
           good == whole # <<>> /\ whole[1] = <<"G">>
           get == good /\ \E k \in 2 .. Len(whole) : whole[k] = <<>>
           bad == Stray(Reader!buf) # {} \/ (whole # <<>> /\ ~ good)
<1> SUFFICES ASSUME Clean
             PROVE  /\ at = "read" => ~ get /\ ~ bad
                    /\ result = "GET_REQUEST" => get
                    /\ result = "BAD_REQUEST" => bad
  BY ReaderOperators, Zenon DEF ReaderVerdict, Reader!ReaderVerdict, Clean
<1>1. RTypes /\ RLines /\ (at = "read" => result = "NO_REQUEST")
  BY DEF ReaderInv
<1>2. /\ bytes \in Seq(Chars) /\ read_idx \in 0 .. Len(bytes) /\ read_idx \in Nat
      /\ start_line \in Nat /\ start_line <= read_idx
  BY <1>1, ReaderBuf DEF RTypes
<1>3. whole = LinesAt(bytes, UpTo(bytes, read_idx))
  BY <1>2, PrefixLines DEF Reader!buf
<1>4. UpTo(bytes, read_idx) \in SUBSET LineEnds(bytes) /\ UpTo(bytes, start_line) \in SUBSET LineEnds(bytes)
  BY DEF UpTo
<1>5. /\ whole \in Seq(Seq(Chars)) /\ Len(whole) \in Nat
      /\ Taken \in Seq(Seq(Chars)) /\ Len(Taken) \in Nat
  BY <1>2, <1>3, <1>4, LinesAtType DEF Taken
<1>6. Len(Taken) <= Len(whole) /\ \A k \in 1 .. Len(Taken) : whole[k] = Taken[k]
  BY <1>2, <1>3, LinesExtend DEF Taken
<1> HIDE DEF whole
<1>7. (Taken # <<>> => Len(Taken) >= 1) /\ (whole # <<>> <=> Len(whole) >= 1)
  BY <1>5, EmptySeq
<1>8. Taken # <<>> => whole # <<>> /\ whole[1] = Taken[1]
  BY <1>5, <1>6, <1>7
<1>9. ASSUME at = "read"
      PROVE  ~ get /\ ~ bad
  <2>1. whole = Taken /\ Stray(Reader!buf) = {} /\ result = "NO_REQUEST"
    BY <1>1, <1>3, <1>9 DEF RLines, Taken
  <2>2. CASE chkstate = "requestline"
    BY <1>1, <2>1, <2>2 DEF RLines
  <2>3. CASE chkstate = "header"
    BY <1>1, <2>1, <2>3 DEF RLines
  <2> QED
    BY <1>1, <2>2, <2>3 DEF RTypes
<1>10. ASSUME result = "GET_REQUEST"
       PROVE  get
  <2>1. chkstate = "header" /\ Taken # <<>> /\ Taken[1] = <<"G">>
    BY <1>1, <1>10 DEF RLines, RTypes
  <2>2. Len(Taken) >= 2 /\ Taken[Len(Taken)] = <<>>
    BY <1>1, <1>10 DEF RLines
  <2>3. Len(Taken) \in 2 .. Len(whole) /\ Len(Taken) \in 1 .. Len(Taken)
    BY <1>5, <1>6, <2>2
  <2>4. whole[Len(Taken)] = <<>>
    BY <1>6, <2>2, <2>3
  <2> QED
    BY <1>8, <2>1, <2>3, <2>4
<1>11. ASSUME result = "BAD_REQUEST"
       PROVE  bad
  BY <1>1, <1>8, <1>11 DEF RLines
<1> QED
  BY <1>9, <1>10, <1>11

(* While no line ends at start_line + 1, no byte is known: initially. *)
LEMMA ReaderStarts ==
    ASSUME Reader!Init
    PROVE  ReaderInv
<1>1. /\ bytes \in Seq(Chars) /\ read_idx = 0 /\ chk_idx = 0 /\ start_line = 0
      /\ chkstate = "requestline" /\ result = "NO_REQUEST" /\ at = "read"
  BY StreamsAssumption DEF Reader!Init, Chars
<1>2. RTypes
  <2>1. Len(bytes) \in Nat
    BY <1>1, LenProperties
  <2> QED
    BY <1>1, <2>1 DEF RTypes
<1>3. UpTo(bytes, 0) = {} /\ LinesAt(bytes, UpTo(bytes, 0)) = <<>>
  BY <1>1, NoLines
<1>4. Stray(Reader!buf) = {}
  <2>1. Stray(Reader!buf) \subseteq 1 .. 0
    BY <1>1, <1>2, ReaderBuf
  <2> QED
    BY <2>1
<1>5. 0 + 1 .. 0 = {}
  OBVIOUS
<1> QED
  BY <1>1, <1>2, <1>3, <1>4, <1>5 DEF ReaderInv, RLines, LineStart, Plain, Taken

(* More bytes come: what was stray remains so. *)
LEMMA ReaderReads ==
    ASSUME ReaderInv, Reader!Read
    PROVE  ReaderInv'
<1>1. /\ at = "read" /\ at' = "parse" /\ read_idx' \in read_idx + 1 .. Len(bytes)
      /\ bytes' = bytes /\ chk_idx' = chk_idx /\ start_line' = start_line
      /\ chkstate' = chkstate /\ result' = result /\ result = "NO_REQUEST"
  BY DEF Reader!Read, ReaderInv
<1>2. /\ Reader!buf \in Seq(Chars) /\ Len(Reader!buf) = read_idx
      /\ \A k \in 1 .. read_idx : Reader!buf[k] = bytes[k]
      /\ Len(bytes) \in Nat /\ read_idx \in Nat /\ chk_idx \in Nat /\ start_line \in Nat
      /\ read_idx <= Len(bytes) /\ chk_idx <= read_idx /\ start_line <= chk_idx
  BY ReaderBuf DEF ReaderInv
<1>3. RTypes'
  <2>1. /\ read_idx' \in 0 .. Len(bytes') /\ start_line' \in 0 .. read_idx'
        /\ chk_idx' \in start_line' .. read_idx'
    BY <1>1, <1>2
  <2> QED
    BY <1>1, <2>1 DEF ReaderInv, RTypes
<1>4. /\ Len(Reader!buf') = read_idx'
      /\ \A k \in 1 .. read_idx' : Reader!buf'[k] = bytes[k]
  <2>1. \A a, b \in Nat : \A n \in a + 1 .. b : n \in Nat /\ 1 <= n /\ n - 1 + 1 = n /\ n <= b
    OBVIOUS
  <2>2. read_idx' \in Nat /\ 1 <= read_idx' /\ read_idx' <= Len(bytes)
    BY <1>1, <1>2, <2>1
  <2>3. ASSUME NEW n \in Nat, 1 <= n, n <= Len(bytes)
        PROVE  /\ Len(SubSeq(bytes, 1, n)) = n
               /\ \A k \in 1 .. n : SubSeq(bytes, 1, n)[k] = bytes[k]
    <3> DEFINE c == SubSeq(bytes, 1, n)
    <3>1. n \in Int /\ \A k \in 1 .. n : bytes[k] \in Chars
      <4>1. bytes \in Seq(Chars) /\ \A k \in 1 .. n : k \in 1 .. Len(bytes)
        BY <1>2, <2>3 DEF ReaderInv, RTypes
      <4> QED
        BY <4>1, ElementOfSeq
    <3>2. /\ Len(c) = IF 1 <= n THEN n - 1 + 1 ELSE 0
          /\ \A k \in 1 .. n - 1 + 1 : c[k] = bytes[1 + k - 1]
      BY <3>1, SubSeqProperties
    <3> HIDE DEF c
    <3>3. Len(c) = n /\ \A k \in 1 .. n : c[k] = bytes[k]
      BY <2>3, <3>2
    <3> QED
      BY <3>3 DEF c
  <2>4. Reader!buf' = SubSeq(bytes, 1, read_idx')
    BY <1>1 DEF Reader!buf
  <2> QED
    BY <2>2, <2>3, <2>4
<1>5. Clean' => Clean
  <2> SUFFICES ASSUME NEW k \in Stray(Reader!buf), Reader!buf[k] # "r"
               PROVE  k \in Stray(Reader!buf') /\ Reader!buf'[k] # "r"
    BY DEF Clean
  <2>1. k \in 1 .. read_idx /\ Reader!buf[k] = "n" /\ (k = 1 \/ Reader!buf[k - 1] # "r")
    BY <1>2 DEF Stray
  <2>2. k \in 1 .. read_idx' /\ Reader!buf'[k] = "n"
    <3>1. k \in 1 .. read_idx'
      BY <1>1, <1>2, <2>1
    <3> QED
      BY <1>2, <1>4, <2>1, <3>1
  <2>3. k = 1 \/ Reader!buf'[k - 1] # "r"
    <3>1. k # 1 => k - 1 \in 1 .. read_idx /\ k - 1 \in 1 .. read_idx'
      BY <1>1, <1>2, <2>1
    <3> QED
      BY <1>2, <1>4, <2>1, <3>1
  <2> QED
    BY <1>4, <2>2, <2>3 DEF Stray
<1>6. Clean' => RLines'
  <2>1. Clean => RLines
    BY DEF ReaderInv
  <2>2. Taken' = Taken
    BY <1>1 DEF Taken
  <2> QED
    BY <1>1, <1>5, <2>1, <2>2 DEF RLines
<1> QED
  BY <1>1, <1>3, <1>6 DEF ReaderInv

(* parse_content() takes a line, or ends. *)
LEMMA ReaderParses ==
    ASSUME ReaderInv, Reader!ParseContent
    PROVE  ReaderInv'
<1> PICK beyond \in {"r", "x"} :
        LET line == Reader!ParseLine(Reader!buf, beyond)
            text == SubSeq(Reader!buf, start_line + 1, line.end)
        IN  /\ chk_idx' = line.idx
            /\ \/ /\ line.status = "ok"
                  /\ start_line' = line.idx
                  /\ Reader!RequestLine(text) \/ Reader!HeaderLine(text)
               \/ /\ line.status # "ok"
                  /\ Reader!Return(IF line.status = "open" THEN "NO_REQUEST" ELSE "BAD_REQUEST")
                  /\ UNCHANGED <<start_line, chkstate>>
  BY DEF Reader!ParseContent
<1> DEFINE line == Reader!ParseLine(Reader!buf, beyond)
           text == SubSeq(Reader!buf, start_line + 1, line.end)
<1>1. /\ chk_idx' = line.idx /\ bytes' = bytes /\ read_idx' = read_idx /\ at = "parse"
      /\ \/ /\ line.status = "ok"
            /\ start_line' = line.idx
            /\ Reader!RequestLine(text) \/ Reader!HeaderLine(text)
         \/ /\ line.status # "ok"
            /\ Reader!Return(IF line.status = "open" THEN "NO_REQUEST" ELSE "BAD_REQUEST")
            /\ start_line' = start_line /\ chkstate' = chkstate
  BY DEF Reader!ParseContent
<1>2. /\ line.idx \in chk_idx .. read_idx
      /\ line.status \in {"ok", "open", "bad"}
      /\ Clean /\ RLines /\ line.status = "ok" =>
             /\ line.idx \in LineEnds(bytes) /\ start_line < line.idx
             /\ line.end = line.idx - 2
             /\ UpTo(bytes, line.idx) = UpTo(bytes, start_line) \union {line.idx}
      /\ Clean /\ RLines /\ line.status # "ok" => Plain(bytes, start_line, line.idx)
      /\ Clean /\ RLines /\ line.status = "open" =>
             /\ UpTo(bytes, read_idx) = UpTo(bytes, start_line)
             /\ Stray(Reader!buf) = {}
      /\ Clean /\ RLines /\ line.status = "bad" => Stray(Reader!buf) # {}
  BY ReaderLine DEF ReaderInv
<1> HIDE DEF line
<1>3. /\ RTypes /\ result = "NO_REQUEST" /\ (Clean => RLines)
      /\ bytes \in Seq(Chars) /\ Reader!buf \in Seq(Chars) /\ Len(Reader!buf) = read_idx
      /\ \A k \in 1 .. read_idx : Reader!buf[k] = bytes[k]
      /\ Len(bytes) \in Nat /\ read_idx \in Nat /\ chk_idx \in Nat /\ start_line \in Nat
      /\ read_idx <= Len(bytes) /\ chk_idx <= read_idx /\ start_line <= chk_idx
  BY <1>1, ReaderBuf DEF ReaderInv, RTypes
<1>4. Reader!buf' = Reader!buf /\ Clean' = Clean
  BY <1>1 DEF Reader!buf, Clean
<1>5. line.idx \in Nat /\ line.idx <= read_idx /\ chk_idx <= line.idx
  BY <1>2, <1>3
<1>6. /\ chkstate' \in {"requestline", "header"}
      /\ \/ result' = result /\ at' = at
         \/ result' \in {"NO_REQUEST", "BAD_REQUEST", "GET_REQUEST"} /\ Reader!Return(result')
  BY <1>1, <1>3 DEF Reader!RequestLine, Reader!HeaderLine, Reader!Return, RTypes
<1>7. RTypes' /\ (at' \in {"read", "parse"} => result' = "NO_REQUEST")
  <2>1. /\ start_line' \in 0 .. read_idx /\ chk_idx' \in start_line' .. read_idx
    BY <1>1, <1>3, <1>5
  <2>2. /\ result' \in {"NO_REQUEST", "BAD_REQUEST", "GET_REQUEST"}
        /\ at' \in {"read", "parse", "closed"}
        /\ at' \in {"read", "parse"} => result' = "NO_REQUEST"
    BY <1>1, <1>3, <1>6 DEF Reader!Return
  <2> QED
    BY <1>1, <1>3, <1>6, <2>1, <2>2 DEF RTypes
<1>8. ASSUME Clean, line.status = "ok"
      PROVE  RLines'
  <2>0. RLines
    BY <1>3, <1>8
  <2>1. /\ line.idx \in LineEnds(bytes) /\ start_line < line.idx /\ line.end = line.idx - 2
        /\ UpTo(bytes, line.idx) = UpTo(bytes, start_line) \union {line.idx}
        /\ start_line' = line.idx /\ chk_idx' = line.idx
    BY <1>1, <1>2, <1>8, <2>0
  <2> DEFINE S == UpTo(bytes, start_line)
             u == SubSeq(bytes, start_line + 1, line.idx - 2)
             n == Len(Taken)
             ls == Taken'
  <2>2. S \in SUBSET LineEnds(bytes)
    BY DEF UpTo
  <2>3. \/ S = {} /\ start_line = 0
        \/ start_line \in S /\ \A k \in S : k <= start_line
    <3>1. CASE start_line = 0
      BY <1>3, <3>1, NoLines
    <3>2. CASE start_line # 0
      <4>1. start_line \in LineEnds(bytes)
        BY <2>0, <3>2 DEF RLines, LineStart
      <4> QED
        BY <1>3, <4>1 DEF UpTo
    <3> QED
      BY <3>1, <3>2
  <2>4. text = u
    <3>1. start_line + 1 \in Nat \ {0} /\ line.idx - 2 \in Int /\ line.idx - 2 <= read_idx
      BY <1>3, <1>5
    <3>2. SubSeq(Reader!buf, start_line + 1, line.idx - 2) = u
      BY <1>3, <3>1, SameSubSeq
    <3> QED
      BY <2>1, <3>2
  <2>5. u \in Seq(Chars)
    <3>1. start_line + 1 \in Int /\ line.idx - 2 \in Int
          /\ \A k \in start_line + 1 .. line.idx - 2 : k \in 1 .. Len(bytes)
      BY <1>3, <1>5
    <3>2. \A k \in start_line + 1 .. line.idx - 2 : bytes[k] \in Chars
      BY <1>3, <3>1, ElementOfSeq
    <3> QED
      BY <3>1, <3>2, SubSeqProperties
  <2> HIDE DEF S
  <2>6. LinesAt(bytes, S \union {line.idx}) = Append(LinesAt(bytes, S), u)
    <3>1. ASSUME NEW x, x = line.idx
          PROVE  LinesAt(bytes, S \union {x})
                 = Append(LinesAt(bytes, S), SubSeq(bytes, start_line + 1, x - 2))
      <4>1. x \in LineEnds(bytes) /\ start_line < x
        BY <2>1, <3>1
      <4>2. bytes \in Seq(Chars) /\ start_line \in Nat
        BY <1>3
      <4> QED
        BY <2>2, <2>3, <4>1, <4>2, LinesAppend
    <3> QED
      BY <3>1
  <2>7. ls = Append(Taken, u)
    BY <1>1, <2>1, <2>6 DEF S, Taken
  <2>8. Taken \in Seq(Seq(Chars)) /\ n \in Nat
    BY <1>3, <2>2, LinesAtType DEF S, Taken
  <2> HIDE DEF u, ls
  <2>9. /\ Len(ls) = n + 1 /\ ls[n + 1] = u /\ ls # <<>>
        /\ \A k \in 1 .. n : ls[k] = Taken[k]
    BY <2>5, <2>7, <2>8, AppendProperties
  <2>10. LineStart(bytes, start_line') /\ Plain(bytes, start_line', chk_idx')
    <3>1. \A k \in Nat : k + 1 .. k = {}
      OBVIOUS
    <3>2. start_line' + 1 .. chk_idx' = {}
      BY <1>5, <2>1, <3>1
    <3> QED
      BY <2>1, <3>2 DEF LineStart, Plain
  <2>11. at' # "read"
    BY <1>1, <1>8 DEF Reader!RequestLine, Reader!HeaderLine, Reader!Return
  <2>12. CASE Reader!RequestLine(text)
    <3>1. chkstate = "requestline" /\ Taken = <<>> /\ n = 0
      <4>1. chkstate = "requestline"
        BY <2>12 DEF Reader!RequestLine
      <4> QED
        BY <1>3, <2>0, <4>1, EmptySeq DEF RLines
    <3>2. ls[1] = u /\ Len(ls) = 1 /\ 2 .. Len(ls) = {}
      <4>1. n + 1 = 1
        BY <3>1
      <4> QED
        BY <2>9, <4>1
    <3>3. \/ u = <<"G">> /\ chkstate' = "header" /\ result' = "NO_REQUEST"
          \/ u # <<"G">> /\ chkstate' = "requestline" /\ result' = "BAD_REQUEST"
      BY <1>3, <2>4, <2>12, <3>1 DEF Reader!RequestLine, Reader!Return
    <3> QED
      BY <1>1, <2>9, <2>10, <2>11, <3>2, <3>3 DEF RLines, ls
  <2>13. CASE Reader!HeaderLine(text)
    <3>1. chkstate = "header" /\ chkstate' = "header"
      BY <2>13 DEF Reader!HeaderLine
    <3>2. Taken # <<>> /\ Taken[1] = <<"G">> /\ \A k \in 2 .. n : Taken[k] # <<>>
      BY <1>3, <2>0, <3>1 DEF RLines
    <3>3. n >= 1
      BY <2>8, <3>2, EmptySeq
    <3>4. ls[1] = <<"G">>
      <4>1. 1 \in 1 .. n
        BY <2>8, <3>3
      <4> QED
        BY <2>9, <3>2, <4>1
    <3>5. \/ u = <<>> /\ result' = "GET_REQUEST"
          \/ u # <<>> /\ result' = "NO_REQUEST"
      BY <1>3, <2>4, <2>13 DEF Reader!HeaderLine, Reader!Return
    <3>6. CASE u = <<>>
      <4>1. Len(ls) >= 2 /\ ls[Len(ls)] = <<>> /\ result' = "GET_REQUEST"
        BY <2>8, <2>9, <3>3, <3>5, <3>6
      <4> QED
        BY <1>1, <2>9, <2>10, <2>11, <3>1, <3>4, <4>1 DEF RLines, ls
    <3>7. CASE u # <<>>
      <4>1. \A k \in 2 .. n + 1 : k = n + 1 \/ (k \in 2 .. n /\ k \in 1 .. n)
        BY <2>8
      <4>2. \A k \in 2 .. Len(ls) : ls[k] # <<>>
        BY <2>9, <3>2, <3>7, <4>1
      <4>3. result' = "NO_REQUEST"
        BY <3>5, <3>7
      <4> QED
        BY <1>1, <2>9, <2>10, <2>11, <3>1, <3>4, <4>2, <4>3 DEF RLines, ls
    <3> QED
      BY <3>6, <3>7
  <2> QED
    BY <1>1, <1>8, <2>12, <2>13
<1>9. ASSUME Clean, line.status # "ok"
      PROVE  RLines'
  <2>0. RLines
    BY <1>3, <1>9
  <2>1. /\ start_line' = start_line /\ chkstate' = chkstate /\ chk_idx' = line.idx
        /\ Reader!Return(IF line.status = "open" THEN "NO_REQUEST" ELSE "BAD_REQUEST")
    BY <1>1, <1>9
  <2>2. Taken' = Taken
    BY <1>1, <2>1 DEF Taken
  <2>3. LineStart(bytes, start_line) /\ Plain(bytes, start_line, line.idx)
    BY <1>2, <1>9, <2>0 DEF RLines
  <2>4. CASE line.status = "open"
    <3>1. /\ result' = "NO_REQUEST" /\ UpTo(bytes, read_idx) = UpTo(bytes, start_line)
          /\ Stray(Reader!buf) = {}
      BY <1>2, <1>9, <2>0, <2>1, <2>4 DEF Reader!Return
    <3> QED
      BY <1>1, <1>3, <1>4, <2>0, <2>1, <2>2, <2>3, <3>1 DEF RLines
  <2>5. CASE line.status # "open"
    <3>1. result' = "BAD_REQUEST" /\ at' = "closed" /\ Stray(Reader!buf) # {}
      BY <1>2, <1>9, <2>0, <2>1, <2>5 DEF Reader!Return
    <3> QED
      BY <1>1, <1>3, <1>4, <2>0, <2>1, <2>2, <2>3, <3>1 DEF RLines
  <2> QED
    BY <2>4, <2>5
<1> QED
  BY <1>4, <1>7, <1>8, <1>9 DEF ReaderInv

(* Every step of the reader. *)
LEMMA ReaderKeeps ==
    ASSUME ReaderInv, Reader!Next
    PROVE  ReaderInv'
<1>1. CASE Reader!Read
  BY <1>1, ReaderReads
<1>2. CASE Reader!ReadNothing
  <2>1. /\ at = "read" /\ at' = "closed" /\ bytes' = bytes /\ read_idx' = read_idx
        /\ chk_idx' = chk_idx /\ start_line' = start_line /\ chkstate' = chkstate
        /\ result' = result
    BY <1>2 DEF Reader!ReadNothing
  <2>2. Reader!buf' = Reader!buf /\ Clean' = Clean /\ Taken' = Taken
    BY <2>1 DEF Reader!buf, Clean, Taken
  <2> QED
    BY <2>1, <2>2 DEF ReaderInv, RTypes, RLines
<1>3. CASE Reader!ParseContent
  BY <1>3, ReaderParses
<1> QED
  BY <1>1, <1>2, <1>3 DEF Reader!Next

-----------------------------------------------------------------------------
(* The run's composition *)

ConnInv == ParseInv /\ OutInv /\ ReaderInv

(* At the start nothing has come. *)
LEMMA ConnStarts ==
    ASSUME MCInit
    PROVE  ConnInv
<1>1. Init /\ Reader!Init
  BY DEF MCInit
<1>2. ReaderInv
  BY <1>1, ReaderStarts
<1>3. /\ stream \in Seq(Chars) /\ readIdx = 0 /\ checkIdx = 0 /\ startLine = 0
      /\ checkState = "requestline" /\ contentLen = 0 /\ linger = FALSE
      /\ lineStatus = "ok" /\ code = "NO_REQUEST" /\ pc = "read" /\ lines = <<>>
  BY <1>1, StreamsAssumption DEF Init, ParseInit, Chars
<1>4. PTypes
  <2>1. Len(stream) \in Nat
    BY <1>3, LenProperties
  <2>2. readIdx \in 0 .. Len(stream) /\ startLine \in 0 .. readIdx /\ checkIdx \in startLine .. readIdx
    BY <1>3, <2>1
  <2> QED
    BY <1>3, <2>2 DEF PTypes, ParseTypes
<1>5. LinesInv
  <2>1. UpTo(stream, 0) = {} /\ LinesAt(stream, UpTo(stream, 0)) = <<>>
    BY <1>3, NoLines
  <2>2. 0 \in 0 .. 0 /\ 0 + 1 .. 0 = {}
    OBVIOUS
  <2> QED
    BY <1>3, <2>1, <2>2 DEF LinesInv, LineStart, Plain
<1>6. HeadInv
  BY <1>3 DEF HeadInv
<1>7. OutInv
  <2>1. /\ writeIdx = 0 /\ body = 0 /\ mapped = FALSE /\ haveSent = 0
        /\ delivered = <<>> /\ calls = 0
    BY <1>1 DEF Init
  <2>2. /\ writeIdx \in 0 .. MaxHeader /\ body \in 0 .. MaxBody /\ haveSent \in 0 .. MaxSent
        /\ delivered \in Seq(Nat) /\ calls \in Nat
    BY <2>1, EmptySeq, Sizes
  <2> QED
    BY <1>3, <2>1, <2>2 DEF OutInv, OutTypes, SentInv
<1> QED
  BY <1>2, <1>4, <1>5, <1>6, <1>7 DEF ConnInv, ParseInv

(* A step is one of the connection's or of the reader's. *)
LEMMA ConnSteps ==
    ASSUME ConnInv, [MCNext]_<<program, vars, reader>>
    PROVE  ConnInv'
<1>1. ASSUME UNCHANGED vars
      PROVE  ParseInv' /\ OutInv'
  <2>1. UNCHANGED input /\ pc' = pc /\ UNCHANGED output
    BY <1>1 DEF vars
  <2>2. ParseInv'
    BY <2>1, OutputKeeps DEF ConnInv
  <2>3. OutInv'
    <3>1. Message' = Message
      BY <2>1 DEF Message, output
    <3> QED
      BY <2>1, <3>1 DEF ConnInv, OutInv, OutTypes, SentInv, output
  <2> QED
    BY <2>2, <2>3
<1>2. ASSUME UNCHANGED reader
      PROVE  ReaderInv'
  <2>1. /\ bytes' = bytes /\ read_idx' = read_idx /\ chk_idx' = chk_idx /\ start_line' = start_line
        /\ chkstate' = chkstate /\ result' = result /\ at' = at
    BY <1>2 DEF reader
  <2>2. Reader!buf' = Reader!buf /\ Clean' = Clean /\ Taken' = Taken
    BY <2>1 DEF Reader!buf, Clean, Taken
  <2> QED
    BY <2>1, <2>2 DEF ConnInv, ReaderInv, RTypes, RLines
<1>3. CASE program = "connection" /\ Next /\ UNCHANGED <<program, reader>>
  BY <1>2, <1>3, ParseStepKeeps, OutStepKeeps DEF ConnInv
<1>4. CASE program = "reader" /\ Reader!Next /\ UNCHANGED <<program, vars>>
  BY <1>1, <1>4, ReaderKeeps DEF ConnInv
<1>5. CASE UNCHANGED <<program, vars, reader>>
  BY <1>1, <1>2, <1>5 DEF ConnInv
<1> QED
  BY <1>3, <1>4, <1>5 DEF MCNext

(* The inductive invariant holds. *)
LEMMA ConnInvariant == MCSpec => []ConnInv
<1>1. MCInit => ConnInv
  BY ConnStarts
<1>2. ConnInv /\ [MCNext]_<<program, vars, reader>> => ConnInv'
  BY ConnSteps
<1> QED
  BY <1>1, <1>2, PTL DEF MCSpec

(* The connection's types: readIdx, checkIdx and startLine never leave what  *)
(* arrived, and the response fits its bounds (http_conn.h:72-95).            *)
THEOREM TypeCorrect == MCSpec => []TypeOK
<1>1. ConnInv => TypeOK
  BY DEF ConnInv, ParseInv, OutInv, PTypes, OutTypes, TypeOK
<1> QED
  BY <1>1, ConnInvariant, PTL

(* However TCP splits a stream of any length, parse_line() has delivered    *)
(* the first lines of what arrived, and none is held back when the parser   *)
(* waits before the body.                                                   *)
THEOREM LinesResumeHolds == MCSpec => []LinesResume
<1>1. ConnInv => LinesResume
  BY ParserIsRight DEF ConnInv
<1> QED
  BY <1>1, ConnInvariant, PTL

(* process_read() takes a request only when all of it is in the buffer, and *)
(* rejects it only for its request line, whatever the split.                *)
THEOREM VerdictIsSoundHolds == MCSpec => []VerdictIsSound
<1>1. ConnInv => VerdictIsSound
  BY ParserIsRight DEF ConnInv
<1> QED
  BY <1>1, ConnInvariant, PTL

(* The parser waits for more bytes only when the request, as long as it has *)
(* no body, is not decided.                                                 *)
THEOREM NoNeedlessWaitHolds == MCSpec => []NoNeedlessWait
<1>1. ConnInv => NoNeedlessWait
  BY ParserIsRight DEF ConnInv
<1> QED
  BY <1>1, ConnInvariant, PTL

(* The file is mapped for as long as writev() may be given it, and unmapped *)
(* when the next request is awaited, however often EAGAIN ends write().      *)
THEOREM MappingOutlivesWriteHolds == MCSpec => []MappingOutlivesWrite
<1>1. ConnInv => MappingOutlivesWrite
  BY ResponseIsRight DEF ConnInv
<1> QED
  BY <1>1, ConnInvariant, PTL

(* A write() that is done after one writev() has given the peer the whole   *)
(* header and nothing but the response's beginning.                         *)
THEOREM HeaderArrivesHolds == MCSpec => []HeaderArrives
<1>1. ConnInv => HeaderArrives
  BY ResponseIsRight DEF ConnInv
<1> QED
  BY <1>1, ConnInvariant, PTL

(* The sample's verdict on a stream without an LF alone is the one all its  *)
(* bytes call for, however they were split, and whatever byte another       *)
(* connection left behind them in the buffer.                               *)
THEOREM ReaderVerdictHolds == MCSpec => []ReaderVerdict
<1>1. ConnInv => ReaderVerdict
  BY ReaderIsRight DEF ConnInv
<1> QED
  BY <1>1, ConnInvariant, PTL
=============================================================================
