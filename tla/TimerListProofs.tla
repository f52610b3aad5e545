-------------------------- MODULE TimerListProofs --------------------------
(***************************************************************************)
(* Proofs about the operations of TimerList.tla, for any number of Timer   *)
(* objects: from a list that is linked both ways and ascends, each makes   *)
(* one that is and does, with the timer that was to come in or to go.      *)
(***************************************************************************)
EXTENDS TimerList, Integers, FiniteSetTheorems, SequenceTheorems, WellFoundedInduction, TLAPS

Records ==
    [head : Timers \union {Null}, tail : Timers \union {Null},
     next : [Timers -> Timers \union {Null}], prev : [Timers -> Timers \union {Null}]]

(* From p on, next leads through w[1], ..., w[n], and no further. *)
Path(l, p, w, n) ==
    /\ n \in Nat /\ w \in [1 .. n -> Timers]
    /\ \A i, j \in 1 .. n : w[i] = w[j] => i = j
    /\ p = IF n = 0 THEN Null ELSE w[1]
    /\ \A i \in 1 .. n : l.next[w[i]] = IF i = n THEN Null ELSE w[i + 1]

(* And prev leads back from tail. *)
Linked(l, w, n) ==
    /\ Path(l, l.head, w, n)
    /\ \A i \in 1 .. n : l.prev[w[i]] = IF i = 1 THEN Null ELSE w[i - 1]
    /\ n # 0 => l.tail = w[n]

Ascends(ex, w, n) == \A i, j \in 1 .. n : i <= j => ex[w[i]] <= ex[w[j]]

(* l is a list of the objects S: ListOf, with the order of them as a       *)
(* witness in place of the walk that finds it.                             *)
Holds(l, ex, S) ==
    /\ l \in Records
    /\ \E n \in Nat : \E w \in [1 .. n -> Timers] :
          /\ Linked(l, w, n) /\ Ascends(ex, w, n)
          /\ S = {w[i] : i \in 1 .. n}

-----------------------------------------------------------------------------
(* A set of naturals that is not empty has a least element. *)
LEMMA LeastElement ==
    ASSUME NEW S \in SUBSET Nat, S # {}
    PROVE  \E n \in S : \A m \in S : n <= m
<1>1. PICK n \in S : \A m \in S : ~ (<<m, n>> \in OpToRel(<, Nat))
  BY NatLessThanWellFounded, WFMin
<1>2. \A m \in S : ~ (m < n)
  BY <1>1 DEF OpToRel
<1> QED
  BY <1>2

(* No path has more objects than there are. *)
LEMMA PathIsShort ==
    ASSUME NEW l, NEW p, NEW w, NEW n, Path(l, p, w, n)
    PROVE  n <= Cardinality(Timers) /\ Cardinality(Timers) \in Nat
<1>1. w \in Injection(1 .. n, Timers)
  BY DEF Path, Injection, IsInjective
<1>2. Cardinality(1 .. n) <= Cardinality(Timers) /\ Cardinality(Timers) \in Nat
  BY <1>1, TimersAssumption, FS_Injection, FS_CardinalityType
<1>3. Cardinality(1 .. n) = n
  BY FS_Interval DEF Path
<1> QED
  BY <1>2, <1>3

(* What the walk meets: the path, then null pointers. *)
LEMMA MetPath ==
    ASSUME NEW l, NEW p, NEW w, NEW n, Path(l, p, w, n)
    PROVE  Met(l, p) = [i \in 1 .. Cardinality(Timers) + 1 |-> IF i <= n THEN w[i] ELSE Null]
<1> DEFINE N == Cardinality(Timers) + 1
           f == [i \in 1 .. N |-> IF i <= n THEN w[i] ELSE Null]
           Fits(g) == g = [i \in 1 .. N |->
                             IF i = 1 THEN p ELSE IF g[i - 1] = Null THEN Null ELSE l.next[g[i - 1]]]
<1>1. n \in Nat /\ N \in Nat /\ n < N
  <2>1. n <= Cardinality(Timers) /\ Cardinality(Timers) \in Nat
    BY PathIsShort
  <2> QED
    BY <2>1 DEF Path
<1>2. Met(l, p) = CHOOSE g : Fits(g)
  BY DEF Met
<1> HIDE DEF N
<1>3. Fits(f)
  <2>1. ASSUME NEW i \in 1 .. N
        PROVE  f[i] = IF i = 1 THEN p ELSE IF f[i - 1] = Null THEN Null ELSE l.next[f[i - 1]]
    <3>1. CASE i = 1
      BY <1>1, <3>1 DEF Path
    <3>2. CASE i # 1
      <4>1. i - 1 \in 1 .. N
        BY <1>1, <3>2
      <4>2. CASE i - 1 <= n
        <5>1. f[i - 1] = w[i - 1] /\ i - 1 \in 1 .. n
          BY <4>1, <4>2
        <5>2. w[i - 1] \in Timers /\ l.next[w[i - 1]] = IF i - 1 = n THEN Null ELSE w[(i - 1) + 1]
          BY <5>1 DEF Path
        <5>3. f[i] = IF i - 1 = n THEN Null ELSE w[i]
          BY <1>1, <5>1
        <5> QED
          BY <1>1, <3>2, <5>1, <5>2, <5>3, TimersAssumption
      <4>3. CASE ~(i - 1 <= n)
        BY <1>1, <3>2, <4>1, <4>3
      <4> QED
        BY <4>2, <4>3
    <3> QED
      BY <3>1, <3>2
  <2> QED
    BY <2>1
<1> HIDE DEF f, Fits
<1>4. Fits(Met(l, p))
  BY <1>2, <1>3, Zenon
<1> USE DEF Fits
<1> DEFINE g == Met(l, p)
<1>5. \A i \in 1 .. N : g[i] = f[i]
  <2> DEFINE Bad == {i \in 1 .. N : g[i] # f[i]}
  <2>1. SUFFICES ASSUME Bad # {} PROVE FALSE
    OBVIOUS
  <2>a. Bad \in SUBSET Nat
    BY <1>1
  <2> HIDE DEF Bad
  <2>2. PICK i \in Bad : \A j \in Bad : i <= j
    BY <2>1, <2>a, LeastElement
  <2> USE DEF Bad
  <2>3. /\ g[i] = IF i = 1 THEN p ELSE IF g[i - 1] = Null THEN Null ELSE l.next[g[i - 1]]
        /\ f[i] = IF i = 1 THEN p ELSE IF f[i - 1] = Null THEN Null ELSE l.next[f[i - 1]]
    BY <1>3, <1>4
  <2>4. i # 1 => i - 1 \in 1 .. N /\ i - 1 \notin Bad
    BY <1>1, <2>2
  <2> QED
    BY <2>2, <2>3, <2>4
<1>6. g = [i \in 1 .. N |-> g[i]] /\ f = [i \in 1 .. N |-> f[i]]
  BY <1>3, <1>4
<1> QED
  BY <1>5, <1>6 DEF f, N

(* A walk finds a path. *)
LEMMA WalkFromPath ==
    ASSUME NEW l, NEW p, NEW w, NEW n, Path(l, p, w, n)
    PROVE  WalkFrom(l, p) = w
<1> DEFINE N == Cardinality(Timers) + 1
           at == Met(l, p)
<1>1. n \in Nat /\ N \in Nat /\ n < N /\ w \in [1 .. n -> Timers]
  <2>1. n <= Cardinality(Timers) /\ Cardinality(Timers) \in Nat
    BY PathIsShort
  <2> QED
    BY <2>1 DEF Path
<1>2. at = [i \in 1 .. N |-> IF i <= n THEN w[i] ELSE Null]
  BY MetPath
<1> HIDE DEF N, at
<1>3. {j \in DOMAIN at : at[j] # Null} = 1 .. n
  BY <1>1, <1>2, TimersAssumption
<1>4. Cardinality(1 .. n) = n
  BY <1>1, FS_Interval
<1>5. WalkFrom(l, p) = [i \in 1 .. n |-> at[i]]
  BY <1>3, <1>4 DEF WalkFrom, at
<1>6. \A i \in 1 .. n : at[i] = w[i]
  BY <1>1, <1>2
<1> QED
  BY <1>1, <1>5, <1>6

(* The rest of a path, from any of its objects on. *)
LEMMA PathSuffix ==
    ASSUME NEW l, NEW p, NEW w, NEW n, Path(l, p, w, n), NEW k \in 1 .. n
    PROVE  Path(l, w[k], [i \in 1 .. n - k + 1 |-> w[i + k - 1]], n - k + 1)
<1> DEFINE m == n - k + 1
           v == [i \in 1 .. m |-> w[i + k - 1]]
<1>1. n \in Nat /\ m \in Nat /\ m # 0
  BY DEF Path
<1>2. \A i \in 1 .. m : i + k - 1 \in 1 .. n /\ v[i] = w[i + k - 1]
  BY <1>1
<1>3. v \in [1 .. m -> Timers] /\ v[1] = w[k]
  BY <1>1, <1>2 DEF Path
<1>4. \A i, j \in 1 .. m : v[i] = v[j] => i = j
  BY <1>1, <1>2 DEF Path
<1>5. ASSUME NEW i \in 1 .. m PROVE l.next[v[i]] = IF i = m THEN Null ELSE v[i + 1]
  <2>1. l.next[v[i]] = IF i + k - 1 = n THEN Null ELSE w[(i + k - 1) + 1]
    BY <1>2 DEF Path
  <2>2. i + k - 1 = n <=> i = m
    BY <1>1
  <2>3. i # m => v[i + 1] = w[(i + k - 1) + 1]
    BY <1>1
  <2> QED
    BY <2>1, <2>2, <2>3
<1> HIDE DEF m, v
<1>6. Path(l, w[k], v, m)
  BY <1>1, <1>3, <1>4, <1>5 DEF Path
<1> QED
  BY <1>6 DEF m, v

-----------------------------------------------------------------------------
(* Sequences of objects with one put in, and with one taken out. *)
Insert(w, n, j, t) == [i \in 1 .. n + 1 |-> IF i <= j THEN w[i] ELSE IF i = j + 1 THEN t ELSE w[i - 1]]

Remove(w, n, k) == [i \in 1 .. n - 1 |-> IF i < k THEN w[i] ELSE w[i + 1]]

(* add_timer(timer, lst_head) stops at the last object that t does not     *)
(* expire before.                                                          *)
LEMMA BeforeStops ==
    ASSUME NEW l, NEW p, NEW w, NEW n, Path(l, p, w, n),
           NEW ex \in [Timers -> Nat], Ascends(ex, w, n),
           NEW t \in Timers, NEW k \in 1 .. n, ex[w[k]] <= ex[t]
    PROVE  \E j \in k .. n : /\ Before(l, ex, t, w[k]) = w[j]
                             /\ \A i \in 1 .. j : ex[w[i]] <= ex[t]
                             /\ \A i \in j + 1 .. n : ex[t] <= ex[w[i]]
<1> DEFINE m == n - k + 1
           v == [i \in 1 .. m |-> w[i + k - 1]]
           Stops(i) == /\ i = m \/ ex[t] < ex[v[i + 1]]
                       /\ \A j \in 1 .. i - 1 : ex[v[j + 1]] <= ex[t]
<1>1. n \in Nat /\ m \in Nat /\ m # 0 /\ w \in [1 .. n -> Timers]
  BY DEF Path
<1>2. \A i \in 1 .. m : i + k - 1 \in 1 .. n /\ v[i] = w[i + k - 1] /\ v[i] \in Timers
  BY <1>1
<1>3. WalkFrom(l, w[k]) = v
  BY PathSuffix, WalkFromPath
<1>4. Len(v) = m /\ DOMAIN v = 1 .. m
  <2>1. v \in Seq(Timers)
    BY <1>1, <1>2
  <2> QED
    BY <1>1, <2>1, LenProperties
<1> HIDE DEF m, v
<1>5. Before(l, ex, t, w[k]) = v[CHOOSE i \in 1 .. m : Stops(i)]
  BY <1>3, <1>4 DEF Before
<1>6. \E i \in 1 .. m : Stops(i)
  <2> DEFINE S == {i \in 1 .. m : i = m \/ ex[t] < ex[v[i + 1]]}
  <2>1. S \in SUBSET Nat /\ m \in S
    BY <1>1
  <2> HIDE DEF S
  <2>2. PICK i \in S : \A j \in S : i <= j
    BY <2>1, LeastElement
  <2> USE DEF S
  <2>3. ASSUME NEW j \in 1 .. i - 1 PROVE ex[v[j + 1]] <= ex[t]
    <3>1. j \in 1 .. m /\ j + 1 \in 1 .. m /\ j \notin S
      BY <1>1, <2>2
    <3>2. ex[v[j + 1]] \in Nat /\ ex[t] \in Nat
      BY <1>2, <3>1
    <3> QED
      BY <3>1, <3>2
  <2> QED
    BY <2>2, <2>3
<1> DEFINE i == CHOOSE i \in 1 .. m : Stops(i)
<1>7. i \in 1 .. m /\ Stops(i)
  BY <1>6
<1> HIDE DEF i
<1> DEFINE j == i + k - 1
<1>8. j \in k .. n /\ j \in Nat /\ v[i] = w[j]
  BY <1>1, <1>2, <1>7 DEF m
<1>t. \A h \in 1 .. n : ex[w[h]] \in Nat
  BY <1>1
<1>9. ex[w[j]] <= ex[t]
  <2>1. CASE i = 1
    BY <2>1
  <2>2. CASE i # 1
    <3>1. i - 1 \in 1 .. i - 1 /\ (i - 1) + 1 = i
      BY <1>7, <2>2
    <3> QED
      BY <1>7, <1>8, <3>1
  <2> QED
    BY <2>1, <2>2
<1>10. ASSUME NEW h \in 1 .. j PROVE ex[w[h]] <= ex[t]
  <2>1. h \in 1 .. n /\ j \in 1 .. n /\ h <= j
    BY <1>1, <1>8
  <2>2. ex[w[h]] <= ex[w[j]]
    BY <2>1 DEF Ascends
  <2> QED
    BY <1>t, <1>9, <2>1, <2>2
<1>11. ASSUME NEW h \in j + 1 .. n PROVE ex[t] <= ex[w[h]]
  <2>1. i # m /\ i + 1 \in 1 .. m /\ v[i + 1] = w[j + 1]
    <3>1. i # m /\ i + 1 \in 1 .. m /\ (i + 1) + k - 1 = j + 1
      BY <1>1, <1>7, <1>8 DEF m
    <3> QED
      BY <1>2, <3>1
  <2>2. ex[t] < ex[w[j + 1]]
    BY <1>7, <2>1
  <2>3. h \in 1 .. n /\ j + 1 \in 1 .. n /\ j + 1 <= h
    BY <1>1, <1>8
  <2>4. ex[w[j + 1]] <= ex[w[h]]
    BY <2>3 DEF Ascends
  <2> QED
    BY <1>t, <2>2, <2>3, <2>4
<1> QED
  BY <1>5, <1>8, <1>10, <1>11 DEF i

OneMore(v, w, n, t) ==
    /\ v \in [1 .. n + 1 -> Timers]
    /\ \A i, h \in 1 .. n + 1 : v[i] = v[h] => i = h
    /\ {v[i] : i \in 1 .. n + 1} = {w[i] : i \in 1 .. n} \union {t}

(* The sequence with t put in behind its object j. *)
LEMMA InsertIs ==
    ASSUME NEW n \in Nat, NEW w \in [1 .. n -> Timers], \A i, h \in 1 .. n : w[i] = w[h] => i = h,
           NEW t \in Timers, \A i \in 1 .. n : w[i] # t, NEW j \in 1 .. n
    PROVE  OneMore(Insert(w, n, j, t), w, n, t)
<1> DEFINE v == Insert(w, n, j, t)
<1>1. \A i \in 1 .. n + 1 : /\ i <= j => i \in 1 .. n /\ v[i] = w[i]
                            /\ i = j + 1 => v[i] = t
                            /\ i > j + 1 => i - 1 \in 1 .. n /\ v[i] = w[i - 1]
  BY DEF Insert
<1>2. v = [i \in 1 .. n + 1 |-> v[i]]
  BY DEF Insert
<1> HIDE DEF v
<1>3. \A i \in 1 .. n + 1 : v[i] \in Timers
  BY <1>1
<1>4. ASSUME NEW i \in 1 .. n + 1, NEW h \in 1 .. n + 1, v[i] = v[h] PROVE i = h
  BY <1>1, <1>4
<1>5. ASSUME NEW i \in 1 .. n + 1 PROVE v[i] = t \/ \E h \in 1 .. n : v[i] = w[h]
  BY <1>1
<1>6. ASSUME NEW h \in 1 .. n PROVE \E i \in 1 .. n + 1 : v[i] = w[h]
  <2>1. CASE h <= j
    BY <1>1, <2>1
  <2>2. CASE h > j
    <3>1. h + 1 \in 1 .. n + 1 /\ h + 1 > j + 1 /\ (h + 1) - 1 = h
      BY <2>2
    <3> QED
      BY <1>1, <3>1
  <2> QED
    BY <2>1, <2>2
<1>7. j + 1 \in 1 .. n + 1 /\ v[j + 1] = t
  BY <1>1
<1>8. {v[i] : i \in 1 .. n + 1} = {w[i] : i \in 1 .. n} \union {t}
  BY <1>5, <1>6, <1>7
<1>9. v \in [1 .. n + 1 -> Timers]
  BY <1>2, <1>3
<1>10. OneMore(v, w, n, t)
  BY <1>4, <1>8, <1>9 DEF OneMore
<1> QED
  BY <1>10 DEF v

(* add_timer(timer, lst_head), from an object that t does not expire before *)
LEMMA AddAfterLinks ==
    ASSUME NEW l \in Records, NEW n \in Nat, NEW w \in [1 .. n -> Timers], Linked(l, w, n),
           NEW ex \in [Timers -> Nat], Ascends(ex, w, n),
           NEW t \in Timers, \A i \in 1 .. n : w[i] # t,
           NEW k \in 1 .. n, ex[w[k]] <= ex[t]
    PROVE  /\ AddAfter(l, ex, t, w[k]) \in Records
           /\ \E v : /\ Linked(AddAfter(l, ex, t, w[k]), v, n + 1) /\ Ascends(ex, v, n + 1)
                     /\ OneMore(v, w, n, t)
<1>1. Path(l, l.head, w, n)
  BY DEF Linked
<1>2. PICK j \in k .. n : /\ Before(l, ex, t, w[k]) = w[j]
                          /\ \A i \in 1 .. j : ex[w[i]] <= ex[t]
                          /\ \A i \in j + 1 .. n : ex[t] <= ex[w[i]]
  BY <1>1, BeforeStops
<1> DEFINE new == AddAfter(l, ex, t, w[k])
           v == Insert(w, n, j, t)
           x == l.next[w[j]]
<1>3. /\ j \in 1 .. n /\ w[j] \in Timers /\ w[j] # t
      /\ \A i, h \in 1 .. n : w[i] = w[h] => i = h
      /\ x = IF j = n THEN Null ELSE w[j + 1]
      /\ Null \notin Timers
  BY <1>1, TimersAssumption DEF Path
<1>4. x # t /\ (j # n => j + 1 \in 1 .. n /\ x \in Timers) /\ (x = Null <=> j = n)
  BY <1>3
<1>5. /\ new \in Records /\ new.head = l.head
      /\ new.tail = IF j = n THEN t ELSE l.tail
      /\ \A y \in Timers : new.next[y] = IF y = t THEN x ELSE IF y = w[j] THEN t ELSE l.next[y]
      /\ \A y \in Timers : new.prev[y] = IF y = t THEN w[j] ELSE IF y = x THEN t ELSE l.prev[y]
  <2>1. CASE j = n
    <3>1. new = [l EXCEPT !.next = [@ EXCEPT ![w[j]] = t, ![t] = Null], !.prev[t] = w[j], !.tail = t]
      BY <1>2, <1>4, <2>1 DEF AddAfter
    <3> HIDE DEF new, x
    <3>2. /\ new.head = l.head /\ new.tail = t
          /\ new.next = [l.next EXCEPT ![w[j]] = t, ![t] = Null]
          /\ new.prev = [l.prev EXCEPT ![t] = w[j]]
          /\ new \in Records
      BY <1>3, <3>1 DEF Records
    <3>3. /\ l.next \in [Timers -> Timers \union {Null}] /\ l.prev \in [Timers -> Timers \union {Null}]
          /\ x = Null
      BY <1>4, <2>1 DEF Records
    <3> QED
      BY <1>3, <2>1, <3>2, <3>3
  <2>2. CASE j # n
    <3>1. new = [l EXCEPT !.next = [@ EXCEPT ![w[j]] = t, ![t] = x],
                          !.prev = [@ EXCEPT ![x] = t, ![t] = w[j]]]
      BY <1>2, <1>4, <2>2 DEF AddAfter
    <3> HIDE DEF new, x
    <3>2. /\ new.head = l.head /\ new.tail = l.tail
          /\ new.next = [l.next EXCEPT ![w[j]] = t, ![t] = x]
          /\ new.prev = [l.prev EXCEPT ![x] = t, ![t] = w[j]]
          /\ new \in Records
      BY <1>3, <1>4, <2>2, <3>1 DEF Records
    <3>3. /\ l.next \in [Timers -> Timers \union {Null}] /\ l.prev \in [Timers -> Timers \union {Null}]
          /\ x \in Timers
      BY <1>4, <2>2 DEF Records
    <3> QED
      BY <1>3, <1>4, <2>2, <3>2, <3>3
  <2> QED
    BY <2>1, <2>2
<1>6. OneMore(v, w, n, t)
  BY <1>3, InsertIs
<1>7. \A i \in 1 .. n + 1 : /\ i <= j => i \in 1 .. n /\ v[i] = w[i]
                            /\ i = j + 1 => v[i] = t
                            /\ i > j + 1 => i - 1 \in 1 .. n /\ v[i] = w[i - 1]
  BY <1>3 DEF Insert
<1> HIDE DEF new, v, x
<1>8. new.head = v[1]
  <2>1. l.head = w[1]
    BY <1>1, <1>3 DEF Path
  <2> QED
    BY <1>3, <1>5, <1>7, <2>1
<1>9. ASSUME NEW i \in 1 .. n + 1 PROVE new.next[v[i]] = IF i = n + 1 THEN Null ELSE v[i + 1]
  <2>0. \A h \in 1 .. n : l.next[w[h]] = IF h = n THEN Null ELSE w[h + 1]
    BY <1>1 DEF Path
  <2>1. CASE i < j
    <3>1. v[i] = w[i] /\ v[i + 1] = w[i + 1] /\ i \in 1 .. n /\ i # n
      BY <1>3, <1>7, <2>1
    <3>2. w[i] # w[j] /\ w[i] # t /\ w[i] \in Timers
      BY <1>3, <2>1, <3>1
    <3> QED
      BY <1>5, <2>0, <3>1, <3>2
  <2>2. CASE i = j
    <3>1. v[i] = w[j] /\ v[i + 1] = t /\ i # n + 1
      BY <1>3, <1>7, <2>2
    <3> QED
      BY <1>3, <1>5, <3>1
  <2>3. CASE i = j + 1
    <3>1. v[i] = t /\ new.next[t] = x
      BY <1>5, <1>7, <2>3
    <3>2. j # n => v[i + 1] = w[j + 1]
      <4>1. ASSUME j # n PROVE i + 1 \in 1 .. n + 1 /\ i + 1 > j + 1 /\ (i + 1) - 1 = j + 1
        BY <1>3, <2>3, <4>1
      <4> QED
        BY <1>7, <4>1
    <3> QED
      BY <1>3, <2>3, <3>1, <3>2
  <2>4. CASE i > j + 1
    <3>1. v[i] = w[i - 1] /\ i - 1 \in 1 .. n
      BY <1>7, <2>4
    <3>2. w[i - 1] # w[j] /\ w[i - 1] # t /\ w[i - 1] \in Timers
      BY <1>3, <2>4, <3>1
    <3>3. new.next[v[i]] = IF i - 1 = n THEN Null ELSE w[(i - 1) + 1]
      BY <1>5, <2>0, <3>1, <3>2
    <3>4. i # n + 1 => v[i + 1] = w[(i - 1) + 1]
      <4>1. ASSUME i # n + 1 PROVE i + 1 \in 1 .. n + 1 /\ i + 1 > j + 1 /\ (i + 1) - 1 = (i - 1) + 1
        BY <1>3, <2>4, <4>1
      <4> QED
        BY <1>7, <4>1
    <3> QED
      BY <3>3, <3>4
  <2> QED
    BY <1>3, <2>1, <2>2, <2>3, <2>4
<1>10. ASSUME NEW i \in 1 .. n + 1 PROVE new.prev[v[i]] = IF i = 1 THEN Null ELSE v[i - 1]
  <2>0. \A h \in 1 .. n : l.prev[w[h]] = IF h = 1 THEN Null ELSE w[h - 1]
    BY DEF Linked
  <2>1. CASE i <= j
    <3>1. v[i] = w[i] /\ i \in 1 .. n /\ w[i] \in Timers /\ w[i] # t
      BY <1>3, <1>7, <2>1
    <3>2. w[i] # x
      BY <1>3, <1>4, <2>1, <3>1
    <3>3. i # 1 => v[i - 1] = w[i - 1]
      BY <1>3, <1>7, <2>1
    <3> QED
      BY <1>5, <2>0, <3>1, <3>2, <3>3
  <2>2. CASE i = j + 1
    <3>1. v[i] = t /\ v[i - 1] = w[j] /\ i # 1
      BY <1>3, <1>7, <2>2
    <3> QED
      BY <1>3, <1>5, <3>1
  <2>3. CASE i > j + 1
    <3>1. v[i] = w[i - 1] /\ i - 1 \in 1 .. n /\ i # 1 /\ w[i - 1] \in Timers /\ w[i - 1] # t
      BY <1>3, <1>7, <2>3
    <3>2. CASE i = j + 2
      <4>1. v[i] = x /\ v[i - 1] = t
        BY <1>3, <1>7, <3>1, <3>2
      <4> QED
        BY <1>4, <1>5, <3>1, <4>1
    <3>3. CASE i # j + 2
      <4>1. w[i - 1] # x
        BY <1>3, <1>4, <2>3, <3>1, <3>3
      <4>2. (i - 1) - 1 \in 1 .. n /\ v[i - 1] = w[(i - 1) - 1]
        <5>1. i - 1 \in 1 .. n + 1 /\ i - 1 > j + 1
          BY <1>3, <2>3, <3>3
        <5> QED
          BY <1>7, <5>1
      <4> QED
        BY <1>5, <2>0, <3>1, <4>1, <4>2
    <3> QED
      BY <3>2, <3>3
  <2> QED
    BY <1>3, <2>1, <2>2, <2>3
<1>11. new.tail = v[n + 1]
  <2>1. CASE j = n
    BY <1>3, <1>5, <1>7, <2>1
  <2>2. CASE j # n
    <3>1. v[n + 1] = w[n]
      <4>1. n + 1 > j + 1 /\ n + 1 \in 1 .. n + 1 /\ (n + 1) - 1 = n
        BY <1>3, <2>2
      <4> QED
        BY <1>7, <4>1
    <3>2. l.tail = w[n]
      BY <1>3 DEF Linked
    <3> QED
      BY <1>5, <2>2, <3>1, <3>2
  <2> QED
    BY <2>1, <2>2
<1>12. ASSUME NEW i \in 1 .. n + 1, NEW h \in 1 .. n + 1, i <= h PROVE ex[v[i]] <= ex[v[h]]
  <2>1. \A y \in 1 .. n : ex[w[y]] \in Nat
    OBVIOUS
  <2>2. \A y, z \in 1 .. n : y <= z => ex[w[y]] <= ex[w[z]]
    BY DEF Ascends
  <2>3. \A y \in 1 .. n : (y <= j => ex[w[y]] <= ex[t]) /\ (y > j => ex[t] <= ex[w[y]])
    BY <1>2, <1>3
  <2>4. CASE i <= j
    BY <1>3, <1>7, <1>12, <2>1, <2>2, <2>3, <2>4
  <2>5. CASE i = j + 1
    BY <1>3, <1>7, <1>12, <2>1, <2>2, <2>3, <2>5
  <2>6. CASE i > j + 1
    BY <1>3, <1>7, <1>12, <2>1, <2>2, <2>3, <2>6
  <2> QED
    BY <1>3, <2>4, <2>5, <2>6
<1>13. Linked(new, v, n + 1) /\ Ascends(ex, v, n + 1)
  BY <1>6, <1>8, <1>9, <1>10, <1>11, <1>12 DEF Linked, Path, Ascends, OneMore
<1> QED
  BY <1>5, <1>6, <1>13 DEF new, v

OneLess(v, w, n, t) ==
    /\ v \in [1 .. n - 1 -> Timers]
    /\ \A i, h \in 1 .. n - 1 : v[i] = v[h] => i = h
    /\ {v[i] : i \in 1 .. n - 1} = {w[i] : i \in 1 .. n} \ {t}

(* The sequence without its object k. *)
LEMMA RemoveIs ==
    ASSUME NEW n \in Nat, NEW w \in [1 .. n -> Timers], \A i, h \in 1 .. n : w[i] = w[h] => i = h,
           NEW k \in 1 .. n
    PROVE  OneLess(Remove(w, n, k), w, n, w[k])
<1> DEFINE v == Remove(w, n, k)
<1>1. \A i \in 1 .. n - 1 : /\ i \in 1 .. n /\ i + 1 \in 1 .. n
                            /\ i < k => v[i] = w[i]
                            /\ i >= k => v[i] = w[i + 1]
  BY DEF Remove
<1>2. v = [i \in 1 .. n - 1 |-> v[i]]
  BY DEF Remove
<1> HIDE DEF v
<1>3. \A i \in 1 .. n - 1 : v[i] \in Timers
  BY <1>1
<1>4. ASSUME NEW i \in 1 .. n - 1, NEW h \in 1 .. n - 1, v[i] = v[h] PROVE i = h
  BY <1>1, <1>4
<1>5. ASSUME NEW i \in 1 .. n - 1 PROVE \E h \in 1 .. n : v[i] = w[h] /\ h # k
  BY <1>1
<1>6. ASSUME NEW h \in 1 .. n, h # k PROVE \E i \in 1 .. n - 1 : v[i] = w[h]
  <2>1. CASE h < k
    <3>1. h \in 1 .. n - 1
      BY <2>1
    <3> QED
      BY <1>1, <2>1, <3>1
  <2>2. CASE h > k
    <3>1. h - 1 \in 1 .. n - 1 /\ h - 1 >= k /\ (h - 1) + 1 = h
      BY <2>2
    <3> QED
      BY <1>1, <3>1
  <2> QED
    BY <1>6, <2>1, <2>2
<1>7. {v[i] : i \in 1 .. n - 1} = {w[i] : i \in 1 .. n} \ {w[k]}
  <2>1. ASSUME NEW y \in {v[i] : i \in 1 .. n - 1} PROVE y \in {w[i] : i \in 1 .. n} \ {w[k]}
    <3>1. PICK h \in 1 .. n : y = w[h] /\ h # k
      BY <1>5
    <3> QED
      BY <3>1
  <2>2. ASSUME NEW y \in {w[i] : i \in 1 .. n} \ {w[k]} PROVE y \in {v[i] : i \in 1 .. n - 1}
    <3>1. PICK h \in 1 .. n : y = w[h] /\ h # k
      BY <2>2
    <3> QED
      BY <1>6, <3>1
  <2> QED
    BY <2>1, <2>2
<1>8. v \in [1 .. n - 1 -> Timers]
  BY <1>2, <1>3
<1>9. OneLess(v, w, n, w[k])
  BY <1>4, <1>7, <1>8 DEF OneLess
<1> QED
  BY <1>9 DEF v

(* In new, the neighbours of w[k] have been linked with each other. *)
Unlinked(new, l, w, n, k) ==
    /\ new \in Records
    /\ new.head = IF k # 1 THEN l.head ELSE IF n = 1 THEN Null ELSE w[2]
    /\ n # 1 => new.tail = IF k = n THEN w[n - 1] ELSE l.tail
    /\ \A i \in 1 .. n : i # k =>
          /\ new.next[w[i]] = IF i # k - 1 THEN l.next[w[i]] ELSE IF k = n THEN Null ELSE w[k + 1]
          /\ new.prev[w[i]] = IF i # k + 1 THEN l.prev[w[i]] ELSE IF k = 1 THEN Null ELSE w[k - 1]

(* Then new is the list without w[k]. *)
LEMMA UnlinkedLinks ==
    ASSUME NEW l, NEW n \in Nat, NEW w \in [1 .. n -> Timers], Linked(l, w, n),
           NEW k \in 1 .. n, NEW new, Unlinked(new, l, w, n, k)
    PROVE  Linked(new, Remove(w, n, k), n - 1)
<1> DEFINE v == Remove(w, n, k)
<1>1. /\ \A i, h \in 1 .. n : w[i] = w[h] => i = h
      /\ l.head = w[1] /\ l.tail = w[n]
      /\ \A i \in 1 .. n : l.next[w[i]] = IF i = n THEN Null ELSE w[i + 1]
      /\ \A i \in 1 .. n : l.prev[w[i]] = IF i = 1 THEN Null ELSE w[i - 1]
  BY DEF Linked, Path
<1>2. OneLess(v, w, n, w[k])
  BY <1>1, RemoveIs
<1>3. \A i \in 1 .. n - 1 : /\ i \in 1 .. n /\ i + 1 \in 1 .. n
                            /\ i < k => v[i] = w[i]
                            /\ i >= k => v[i] = w[i + 1]
  BY DEF Remove
<1> HIDE DEF v
<1>4. n - 1 # 0 => new.head = v[1]
  BY <1>1, <1>3 DEF Unlinked
<1>5. n - 1 = 0 => new.head = Null
  BY DEF Unlinked
<1>6. ASSUME NEW i \in 1 .. n - 1 PROVE new.next[v[i]] = IF i = n - 1 THEN Null ELSE v[i + 1]
  <2>1. CASE i < k - 1
    <3>1. v[i] = w[i] /\ v[i + 1] = w[i + 1] /\ i # n - 1 /\ i \in 1 .. n /\ i # k /\ i # n
      BY <1>3, <2>1
    <3> QED
      BY <1>1, <2>1, <3>1 DEF Unlinked
  <2>2. CASE i = k - 1
    <3>1. v[i] = w[i] /\ i # k /\ i \in 1 .. n
      BY <1>3, <2>2
    <3>2. i # n - 1 => v[i + 1] = w[k + 1] /\ k # n
      BY <1>3, <2>2
    <3>3. i = n - 1 => k = n
      BY <2>2
    <3> QED
      BY <2>2, <3>1, <3>2, <3>3 DEF Unlinked
  <2>3. CASE i >= k
    <3>1. v[i] = w[i + 1] /\ i + 1 \in 1 .. n /\ i + 1 # k /\ i + 1 # k - 1
      BY <1>3, <2>3
    <3>2. new.next[w[i + 1]] = IF i + 1 = n THEN Null ELSE w[(i + 1) + 1]
      BY <1>1, <3>1 DEF Unlinked
    <3>3. i # n - 1 => v[i + 1] = w[(i + 1) + 1] /\ i + 1 # n
      BY <1>3, <2>3
    <3>4. i = n - 1 => i + 1 = n
      OBVIOUS
    <3> QED
      BY <3>1, <3>2, <3>3, <3>4
  <2> QED
    BY <2>1, <2>2, <2>3
<1>7. ASSUME NEW i \in 1 .. n - 1 PROVE new.prev[v[i]] = IF i = 1 THEN Null ELSE v[i - 1]
  <2>1. CASE i < k
    <3>1. v[i] = w[i] /\ i \in 1 .. n /\ i # k /\ i # k + 1
      BY <1>3, <2>1
    <3>2. i # 1 => v[i - 1] = w[i - 1]
      BY <1>3, <2>1
    <3> QED
      BY <1>1, <3>1, <3>2 DEF Unlinked
  <2>2. CASE i = k
    <3>1. v[i] = w[k + 1] /\ k + 1 \in 1 .. n /\ k + 1 # k
      BY <1>3, <2>2
    <3>2. i # 1 => v[i - 1] = w[k - 1]
      BY <1>3, <2>2
    <3> QED
      BY <2>2, <3>1, <3>2 DEF Unlinked
  <2>3. CASE i > k
    <3>1. v[i] = w[i + 1] /\ i + 1 \in 1 .. n /\ i + 1 # k /\ i + 1 # k + 1 /\ i # 1
      BY <1>3, <2>3
    <3>2. v[i - 1] = w[(i - 1) + 1] /\ (i - 1) + 1 = (i + 1) - 1
      BY <1>3, <2>3
    <3>3. new.prev[w[i + 1]] = w[(i + 1) - 1]
      BY <1>1, <3>1 DEF Unlinked
    <3> QED
      BY <3>1, <3>2, <3>3
  <2> QED
    BY <2>1, <2>2, <2>3
<1>8. n - 1 # 0 => new.tail = v[n - 1]
  BY <1>1, <1>3 DEF Unlinked
<1>9. Linked(new, v, n - 1)
  BY <1>2, <1>4, <1>5, <1>6, <1>7, <1>8 DEF Linked, Path, OneLess
<1> QED
  BY <1>9 DEF v

(* del_timer(), whether at the head, at the tail, both or neither. *)
LEMMA DelUnlinks ==
    ASSUME NEW l \in Records, NEW n \in Nat, NEW w \in [1 .. n -> Timers], Linked(l, w, n),
           NEW k \in 1 .. n
    PROVE  Unlinked(DelTimer(l, w[k]), l, w, n, k)
<1> DEFINE t == w[k]
           new == DelTimer(l, t)
<1>1. /\ \A i, h \in 1 .. n : w[i] = w[h] => i = h
      /\ l.head = w[1] /\ l.tail = w[n]
      /\ l.next[t] = IF k = n THEN Null ELSE w[k + 1]
      /\ l.prev[t] = IF k = 1 THEN Null ELSE w[k - 1]
  BY DEF Linked, Path
<1>2. /\ l.next \in [Timers -> Timers \union {Null}] /\ l.prev \in [Timers -> Timers \union {Null}]
      /\ l.head \in Timers \union {Null} /\ l.tail \in Timers \union {Null}
  BY DEF Records
<1>3. /\ (t = l.head <=> k = 1) /\ (t = l.tail <=> k = n)
      /\ (k # n => k + 1 \in 1 .. n) /\ (k # 1 => k - 1 \in 1 .. n)
  BY <1>1
<1>4. CASE k = 1 /\ k = n
  <2>1. new = [l EXCEPT !.head = Null, !.tail = Null]
    BY <1>3, <1>4 DEF DelTimer
  <2> HIDE DEF new
  <2>2. new.head = Null /\ new \in Records
    BY <2>1 DEF Records
  <2>3. Unlinked(new, l, w, n, k)
    BY <1>4, <2>2 DEF Unlinked
  <2> QED
    BY <2>3 DEF new
<1>5. CASE k = 1 /\ k # n
  <2>1. new = [l EXCEPT !.head = w[2], !.prev[w[2]] = Null]
    BY <1>1, <1>3, <1>5 DEF DelTimer
  <2>2. 2 \in 1 .. n /\ w[2] \in Timers
    BY <1>5
  <2> HIDE DEF new
  <2>3. /\ new.head = w[2] /\ new.tail = l.tail /\ new.next = l.next
        /\ new.prev = [l.prev EXCEPT ![w[2]] = Null] /\ new \in Records
    BY <2>1, <2>2 DEF Records
  <2>4. \A i \in 1 .. n : new.prev[w[i]] = IF i = 2 THEN Null ELSE l.prev[w[i]]
    BY <1>1, <1>2, <2>2, <2>3
  <2>5. Unlinked(new, l, w, n, k)
    BY <1>5, <2>3, <2>4 DEF Unlinked
  <2> QED
    BY <2>5 DEF new
<1>6. CASE k # 1 /\ k = n
  <2>1. new = [l EXCEPT !.tail = w[k - 1], !.next[w[k - 1]] = Null]
    BY <1>1, <1>3, <1>6 DEF DelTimer
  <2>2. k - 1 \in 1 .. n /\ w[k - 1] \in Timers
    BY <1>6
  <2> HIDE DEF new
  <2>3. /\ new.head = l.head /\ new.tail = w[k - 1] /\ new.prev = l.prev
        /\ new.next = [l.next EXCEPT ![w[k - 1]] = Null] /\ new \in Records
    BY <2>1, <2>2 DEF Records
  <2>4. \A i \in 1 .. n : new.next[w[i]] = IF i = k - 1 THEN Null ELSE l.next[w[i]]
    BY <1>1, <1>2, <2>2, <2>3
  <2>5. Unlinked(new, l, w, n, k)
    BY <1>6, <2>3, <2>4 DEF Unlinked
  <2> QED
    BY <2>5 DEF new
<1>7. CASE k # 1 /\ k # n
  <2>1. new = [l EXCEPT !.next[w[k - 1]] = w[k + 1], !.prev[w[k + 1]] = w[k - 1]]
    BY <1>1, <1>3, <1>7 DEF DelTimer
  <2>2. k - 1 \in 1 .. n /\ w[k - 1] \in Timers /\ k + 1 \in 1 .. n /\ w[k + 1] \in Timers
    BY <1>7
  <2> HIDE DEF new
  <2>3. /\ new.head = l.head /\ new.tail = l.tail
        /\ new.next = [l.next EXCEPT ![w[k - 1]] = w[k + 1]]
        /\ new.prev = [l.prev EXCEPT ![w[k + 1]] = w[k - 1]] /\ new \in Records
    BY <2>1, <2>2 DEF Records
  <2>4. \A i \in 1 .. n : /\ new.next[w[i]] = IF i = k - 1 THEN w[k + 1] ELSE l.next[w[i]]
                          /\ new.prev[w[i]] = IF i = k + 1 THEN w[k - 1] ELSE l.prev[w[i]]
    BY <1>1, <1>2, <2>2, <2>3
  <2>5. Unlinked(new, l, w, n, k)
    BY <1>7, <2>3, <2>4 DEF Unlinked
  <2> QED
    BY <2>5 DEF new
<1> QED
  BY <1>4, <1>5, <1>6, <1>7

-----------------------------------------------------------------------------
(* The operations on lists. *)

(* The constructor of TimerList *)
LEMMA EmptyHolds ==
    ASSUME NEW ex
    PROVE  Holds(Empty, ex, {})
<1> DEFINE w == [i \in 1 .. 0 |-> Null]
<1>1. w \in [1 .. 0 -> Timers] /\ {w[i] : i \in 1 .. 0} = {}
  OBVIOUS
<1>2. Linked(Empty, w, 0) /\ Ascends(ex, w, 0)
  BY DEF Linked, Path, Ascends, Empty
<1>3. Empty \in Records
  BY DEF Empty, Records
<1> QED
  BY <1>1, <1>2, <1>3 DEF Holds

(* What the head is. *)
LEMMA HeadOfList ==
    ASSUME NEW l, NEW ex, NEW S, Holds(l, ex, S)
    PROVE  S \subseteq Timers /\ l.head \in S \union {Null}
BY DEF Holds, Linked, Path

(* add_timer(timer), of a timer that does not expire before the head.      *)
THEOREM AddKeepsList ==
    ASSUME NEW l, NEW old \in [Timers -> Nat], NEW S, Holds(l, old, S),
           NEW t \in Timers, t \notin S,
           NEW ex \in [Timers -> Nat], \A u \in S : ex[u] = old[u],
           l.head # Null => ex[l.head] <= ex[t]
    PROVE  Holds(AddTimer(NewTimer(l, t), ex, t), ex, S \union {t})
<1>0. PICK n \in Nat : \E w \in [1 .. n -> Timers] :
        Linked(l, w, n) /\ Ascends(old, w, n) /\ S = {w[i] : i \in 1 .. n}
  BY DEF Holds
<1>1. PICK w \in [1 .. n -> Timers] : Linked(l, w, n) /\ Ascends(old, w, n) /\ S = {w[i] : i \in 1 .. n}
  BY <1>0
<1> DEFINE new == NewTimer(l, t)
           add == AddTimer(new, ex, t)
<1>2. /\ new \in Records /\ new.head = l.head /\ new.tail = l.tail
      /\ new.next = [l.next EXCEPT ![t] = Null] /\ new.prev = [l.prev EXCEPT ![t] = Null]
  BY DEF Holds, Records, NewTimer
<1>3. l \in Records /\ l.next \in [Timers -> Timers \union {Null}] /\ l.prev \in [Timers -> Timers \union {Null}]
  BY DEF Holds, Records
<1>4. \A i \in 1 .. n : w[i] # t /\ w[i] \in S
  BY <1>1
<1> HIDE DEF new
<1>5. Linked(new, w, n)
  <2>1. \A i \in 1 .. n : new.next[w[i]] = l.next[w[i]] /\ new.prev[w[i]] = l.prev[w[i]]
    BY <1>2, <1>3, <1>4
  <2> QED
    BY <1>1, <1>2, <2>1 DEF Linked, Path
<1>6. Ascends(ex, w, n)
  BY <1>1, <1>4 DEF Ascends
<1>7. CASE n = 0
  <2> DEFINE v == [i \in 1 .. 1 |-> t]
  <2>1. new.head = Null
    BY <1>5, <1>7 DEF Linked, Path
  <2>2. add = [new EXCEPT !.head = t, !.tail = t]
    BY <2>1 DEF AddTimer
  <2> HIDE DEF add
  <2>a. new.next[t] = Null /\ new.prev[t] = Null
    BY <1>2, <1>3
  <2>b. /\ add.head = t /\ add.tail = t /\ add.next = new.next /\ add.prev = new.prev
        /\ add \in Records
    BY <1>2, <2>2 DEF Records
  <2>3. add.head = t /\ add.tail = t /\ add.next[t] = Null /\ add.prev[t] = Null /\ add \in Records
    BY <2>a, <2>b
  <2>4. v \in [1 .. 1 -> Timers] /\ \A i \in 1 .. 1 : v[i] = t /\ i = 1
    OBVIOUS
  <2> HIDE DEF v
  <2>5. Path(add, add.head, v, 1)
    BY <2>3, <2>4 DEF Path
  <2>6. Linked(add, v, 1)
    BY <2>3, <2>4, <2>5 DEF Linked
  <2>7. Ascends(ex, v, 1)
    <3>1. ex[t] <= ex[t]
      OBVIOUS
    <3> QED
      BY <2>4, <3>1 DEF Ascends
  <2>8. S \union {t} = {v[i] : i \in 1 .. 1}
    BY <1>1, <1>7, <2>4
  <2>9. Holds(add, ex, S \union {t})
    <3> DEFINE Has(m) == \E u \in [1 .. m -> Timers] :
             Linked(add, u, m) /\ Ascends(ex, u, m) /\ S \union {t} = {u[i] : i \in 1 .. m}
    <3>1. Has(1)
      BY <2>4, <2>6, <2>7, <2>8
    <3> HIDE DEF Has
    <3>2. \E m \in Nat : Has(m)
      BY <3>1
    <3> QED
      BY <2>3, <3>2 DEF Holds, Has
  <2> QED
    BY <2>9 DEF add, new
<1>8. CASE n # 0
  <2>1. 1 \in 1 .. n /\ new.head = w[1] /\ w[1] \in Timers
    BY <1>5, <1>8 DEF Linked, Path
  <2>2. w[1] # Null /\ ex[w[1]] <= ex[t]
    BY <1>2, <2>1, TimersAssumption
  <2>3. add = AddAfter(new, ex, t, w[1])
    <3>1. ~(ex[t] < ex[w[1]])
      BY <2>1, <2>2
    <3> QED
      BY <2>1, <2>2, <3>1 DEF AddTimer
  <2> HIDE DEF add
  <2>4. /\ add \in Records
        /\ \E v : Linked(add, v, n + 1) /\ Ascends(ex, v, n + 1) /\ OneMore(v, w, n, t)
    BY <1>2, <1>4, <1>5, <1>6, <2>1, <2>2, <2>3, AddAfterLinks
  <2>5. Holds(add, ex, S \union {t})
    <3>1. n + 1 \in Nat
      OBVIOUS
    <3> QED
      BY <1>1, <2>4, <3>1 DEF Holds, OneMore
  <2> QED
    BY <2>5 DEF add, new
<1> QED
  BY <1>7, <1>8

(* del_timer() *)
THEOREM DelKeepsList ==
    ASSUME NEW l, NEW ex \in [Timers -> Nat], NEW S, Holds(l, ex, S), NEW t \in S
    PROVE  Holds(DelTimer(l, t), ex, S \ {t})
<1>0. PICK n \in Nat : \E w \in [1 .. n -> Timers] :
        Linked(l, w, n) /\ Ascends(ex, w, n) /\ S = {w[i] : i \in 1 .. n}
  BY DEF Holds
<1>1. PICK w \in [1 .. n -> Timers] : Linked(l, w, n) /\ Ascends(ex, w, n) /\ S = {w[i] : i \in 1 .. n}
  BY <1>0
<1>2. PICK k \in 1 .. n : w[k] = t
  BY <1>1
<1>3. \A i, h \in 1 .. n : w[i] = w[h] => i = h
  BY <1>1 DEF Linked, Path
<1> DEFINE v == Remove(w, n, k)
           new == DelTimer(l, t)
<1>4. l \in Records
  BY DEF Holds
<1>5. Unlinked(new, l, w, n, k)
  BY <1>1, <1>2, <1>4, DelUnlinks
<1>6. OneLess(v, w, n, t)
  BY <1>2, <1>3, RemoveIs
<1>7. \A i \in 1 .. n - 1 : /\ i \in 1 .. n /\ i + 1 \in 1 .. n
                            /\ (v[i] = w[i] /\ i < k) \/ (v[i] = w[i + 1] /\ i >= k)
  BY DEF Remove
<1>8. Linked(new, v, n - 1)
  BY <1>1, <1>5, UnlinkedLinks
<1> HIDE DEF v, new
<1>9. Ascends(ex, v, n - 1)
  BY <1>1, <1>7 DEF Ascends
<1>10. n - 1 \in Nat /\ new \in Records
  BY <1>5 DEF Unlinked
<1> QED
  BY <1>1, <1>6, <1>8, <1>9, <1>10 DEF Holds, OneLess, new

(* adjust_timer(), of a timer that was put off. *)
THEOREM AdjustKeepsList ==
    ASSUME NEW l, NEW old \in [Timers -> Nat], NEW S, Holds(l, old, S), NEW t \in S,
           NEW ex \in [Timers -> Nat], \A u \in S \ {t} : ex[u] = old[u], old[t] <= ex[t]
    PROVE  Holds(AdjustTimer(l, ex, t), ex, S)
<1>0. PICK n \in Nat : \E w \in [1 .. n -> Timers] :
        Linked(l, w, n) /\ Ascends(old, w, n) /\ S = {w[i] : i \in 1 .. n}
  BY DEF Holds
<1>1. PICK w \in [1 .. n -> Timers] : Linked(l, w, n) /\ Ascends(old, w, n) /\ S = {w[i] : i \in 1 .. n}
  BY <1>0
<1>2. PICK k \in 1 .. n : w[k] = t
  BY <1>1
<1>3. /\ \A i, h \in 1 .. n : w[i] = w[h] => i = h
      /\ l.head = w[1] /\ l.tail = w[n]
      /\ \A i \in 1 .. n : l.next[w[i]] = IF i = n THEN Null ELSE w[i + 1]
      /\ \A i \in 1 .. n : l.prev[w[i]] = IF i = 1 THEN Null ELSE w[i - 1]
  BY <1>1 DEF Linked, Path
<1>4. /\ l \in Records /\ t \in Timers
      /\ l.next \in [Timers -> Timers \union {Null}] /\ l.prev \in [Timers -> Timers \union {Null}]
  BY <1>1, <1>2 DEF Holds, Records
<1>5. \A i \in 1 .. n : (i # k => w[i] # t /\ ex[w[i]] = old[w[i]]) /\ ex[w[i]] \in Nat /\ old[w[i]] \in Nat
  BY <1>1, <1>2, <1>3
<1>6. \A i, h \in 1 .. n : i <= h => old[w[i]] <= old[w[h]]
  BY <1>1 DEF Ascends
<1> DEFINE x == l.next[t]
           out == AdjustTimer(l, ex, t)
<1>7. x = (IF k = n THEN Null ELSE w[k + 1]) /\ (k # n => k + 1 \in 1 .. n /\ w[k + 1] \in Timers) /\ Null \notin Timers
  BY <1>2, <1>3, TimersAssumption
<1>8. CASE x = Null \/ ex[t] < ex[x]
  <2>1. out = l
    <3>1. x # Null => ex[x] \in Nat /\ ex[t] \in Nat
      BY <1>4, <1>7
    <3> QED
      BY <1>8, <3>1 DEF AdjustTimer
  <2>2. ASSUME NEW i \in 1 .. n, NEW h \in 1 .. n, i <= h PROVE ex[w[i]] <= ex[w[h]]
    <3>1. CASE i = k /\ h # k
      <4>1. k # n /\ k + 1 \in 1 .. n /\ k + 1 <= h
        BY <2>2, <3>1
      <4>2. ex[t] < ex[w[k + 1]] /\ old[w[k + 1]] <= old[w[h]] /\ k + 1 # k
        BY <1>6, <1>7, <1>8, <4>1
      <4> QED
        BY <1>2, <1>5, <3>1, <4>1, <4>2
    <3>2. CASE i # k /\ h = k
      <4>1. old[w[i]] <= old[t]
        BY <1>2, <1>6, <2>2, <3>2
      <4> QED
        BY <1>2, <1>5, <3>2, <4>1
    <3>3. CASE i # k /\ h # k
      BY <1>5, <1>6, <2>2, <3>3
    <3>4. CASE i = k /\ h = k
      BY <1>5, <3>4
    <3> QED
      BY <3>1, <3>2, <3>3, <3>4
  <2>3. Ascends(ex, w, n)
    BY <2>2 DEF Ascends
  <2> QED
    BY <1>1, <1>4, <2>1, <2>3 DEF Holds
<1>9. CASE ~(x = Null \/ ex[t] < ex[x])
  <2> DEFINE mid == IF k = 1
                      THEN [l EXCEPT !.head = x, !.prev[x] = Null, !.next[t] = Null]
                      ELSE [l EXCEPT !.prev[x] = w[k - 1], !.next[w[k - 1]] = x]
             v == Remove(w, n, k)
  <2>1. k # n /\ k + 1 \in 1 .. n /\ x = w[k + 1] /\ x \in Timers /\ ex[x] <= ex[t] /\ x # t
    <3>1. k # n /\ k + 1 \in 1 .. n /\ x = w[k + 1] /\ x \in Timers
      BY <1>7, <1>9
    <3>2. ex[x] \in Nat /\ ex[t] \in Nat
      BY <1>4, <3>1
    <3>3. w[k + 1] # t
      BY <1>5, <3>1
    <3> QED
      BY <1>9, <3>1, <3>2, <3>3
  <2>2. (t = l.head <=> k = 1) /\ (k # 1 => k - 1 \in 1 .. n /\ l.prev[t] = w[k - 1])
    BY <1>2, <1>3
  <2>3. out = AddAfter(mid, ex, t, x)
    BY <1>9, <2>1, <2>2 DEF AdjustTimer
  <2>4. Unlinked(mid, l, w, n, k)
    <3>1. CASE k = 1
      <4>1. mid = [l EXCEPT !.head = x, !.prev[x] = Null, !.next[t] = Null]
        BY <3>1
      <4> HIDE DEF mid, x
      <4>2. /\ mid.head = x /\ mid.tail = l.tail /\ mid \in Records
            /\ mid.prev = [l.prev EXCEPT ![x] = Null] /\ mid.next = [l.next EXCEPT ![t] = Null]
        BY <1>4, <2>1, <4>1 DEF Records
      <4>3. \A i \in 1 .. n : i # k =>
               /\ mid.next[w[i]] = l.next[w[i]]
               /\ mid.prev[w[i]] = IF i = 2 THEN Null ELSE l.prev[w[i]]
        <5>1. ASSUME NEW i \in 1 .. n, i # k PROVE mid.next[w[i]] = l.next[w[i]]
          BY <1>4, <1>5, <4>2, <5>1
        <5>2. ASSUME NEW i \in 1 .. n PROVE mid.prev[w[i]] = IF i = 2 THEN Null ELSE l.prev[w[i]]
          <6>1. w[i] \in Timers /\ (w[i] = x <=> i = 2)
            BY <1>3, <2>1, <3>1
          <6> QED
            BY <1>4, <4>2, <6>1
        <5> QED
          BY <5>1, <5>2
      <4> QED
        BY <2>1, <3>1, <4>2, <4>3 DEF Unlinked
    <3>2. CASE k # 1
      <4>1. mid = [l EXCEPT !.prev[x] = w[k - 1], !.next[w[k - 1]] = x]
        BY <3>2
      <4>2. w[k - 1] \in Timers /\ k - 1 \in 1 .. n
        BY <2>2, <3>2
      <4> HIDE DEF mid, x
      <4>3. /\ mid.head = l.head /\ mid.tail = l.tail /\ mid \in Records
            /\ mid.prev = [l.prev EXCEPT ![x] = w[k - 1]] /\ mid.next = [l.next EXCEPT ![w[k - 1]] = x]
        BY <1>4, <2>1, <4>1, <4>2 DEF Records
      <4>4. \A i \in 1 .. n : i # k =>
               /\ mid.next[w[i]] = IF i = k - 1 THEN x ELSE l.next[w[i]]
               /\ mid.prev[w[i]] = IF i = k + 1 THEN w[k - 1] ELSE l.prev[w[i]]
        <5>1. ASSUME NEW i \in 1 .. n
              PROVE  /\ mid.next[w[i]] = IF i = k - 1 THEN x ELSE l.next[w[i]]
                     /\ mid.prev[w[i]] = IF i = k + 1 THEN w[k - 1] ELSE l.prev[w[i]]
          <6>1. w[i] \in Timers /\ (w[i] = x <=> i = k + 1) /\ (w[i] = w[k - 1] <=> i = k - 1)
            BY <1>3, <2>1, <4>2
          <6> QED
            BY <1>4, <4>2, <4>3, <6>1
        <5> QED
          BY <5>1
      <4> QED
        BY <2>1, <3>2, <4>3, <4>4 DEF Unlinked
    <3> QED
      BY <3>1, <3>2
  <2> HIDE DEF mid
  <2>5. Linked(mid, v, n - 1)
    BY <1>1, <2>4, UnlinkedLinks
  <2>6. OneLess(v, w, n, t)
    BY <1>2, <1>3, RemoveIs
  <2>7. \A i \in 1 .. n - 1 : /\ i \in 1 .. n /\ i + 1 \in 1 .. n
                              /\ (v[i] = w[i] /\ i < k) \/ (v[i] = w[i + 1] /\ i >= k)
    BY DEF Remove
  <2> HIDE DEF v, x
  <2>8. k \in 1 .. n - 1 /\ v[k] = x
    BY <2>1, <2>7
  <2>9. Ascends(ex, v, n - 1)
    <3>1. ASSUME NEW i \in 1 .. n - 1 PROVE \E g \in 1 .. n : v[i] = w[g] /\ g # k /\ ex[v[i]] = old[w[g]]
                                                   /\ g = IF i < k THEN i ELSE i + 1
      BY <1>5, <2>7
    <3>2. ASSUME NEW i \in 1 .. n - 1, NEW h \in 1 .. n - 1, i <= h PROVE ex[v[i]] <= ex[v[h]]
      <4>1. PICK g \in 1 .. n : ex[v[i]] = old[w[g]] /\ g = IF i < k THEN i ELSE i + 1
        BY <3>1
      <4>2. PICK f \in 1 .. n : ex[v[h]] = old[w[f]] /\ f = IF h < k THEN h ELSE h + 1
        BY <3>1
      <4>3. g <= f
        BY <3>2, <4>1, <4>2
      <4> QED
        BY <1>6, <4>1, <4>2, <4>3
    <3> QED
      BY <3>2 DEF Ascends
  <2>10. /\ n - 1 \in Nat /\ mid \in Records /\ v \in [1 .. n - 1 -> Timers]
         /\ \A i \in 1 .. n - 1 : v[i] # t
    <3>1. ASSUME NEW i \in 1 .. n - 1 PROVE v[i] # t
      <4>1. CASE v[i] = w[i] /\ i < k
        <5>1. i \in 1 .. n /\ i # k
          BY <4>1
        <5> QED
          BY <1>5, <4>1, <5>1
      <4>2. CASE v[i] = w[i + 1] /\ i >= k
        <5>1. i + 1 \in 1 .. n /\ i + 1 # k
          BY <4>2
        <5> QED
          BY <1>5, <4>2, <5>1
      <4> QED
        BY <2>7, <4>1, <4>2
    <3> QED
      BY <2>4, <2>6, <3>1 DEF Unlinked, OneLess
  <2> HIDE DEF out
  <2>11. /\ out \in Records
         /\ \E u : Linked(out, u, (n - 1) + 1) /\ Ascends(ex, u, (n - 1) + 1) /\ OneMore(u, v, n - 1, t)
    <3>1. out = AddAfter(mid, ex, t, v[k]) /\ ex[v[k]] <= ex[t]
      BY <2>1, <2>3, <2>8
    <3> QED
      BY <1>4, <2>5, <2>8, <2>9, <2>10, <3>1, AddAfterLinks
  <2>12. (n - 1) + 1 = n
    OBVIOUS
  <2>13. PICK u : Linked(out, u, n) /\ Ascends(ex, u, n) /\ OneMore(u, v, n - 1, t)
    BY <2>11, <2>12
  <2>14. u \in [1 .. n -> Timers] /\ {u[i] : i \in 1 .. n} = {v[i] : i \in 1 .. n - 1} \union {t}
    BY <2>12, <2>13 DEF OneMore
  <2>15. {v[i] : i \in 1 .. n - 1} = S \ {t}
    BY <1>1, <2>6 DEF OneLess
  <2>16. S = {u[i] : i \in 1 .. n}
    BY <2>14, <2>15
  <2>17. Holds(out, ex, S)
    BY <2>11, <2>13, <2>14, <2>16 DEF Holds
  <2> QED
    BY <2>17 DEF out
<1> QED
  BY <1>8, <1>9

(* Which timers a tick calls back, though it stops at the first one that   *)
(* has not expired: all that have.                                         *)
THEOREM TickFindsAll ==
    ASSUME NEW l, NEW ex \in [Timers -> Nat], NEW S, Holds(l, ex, S), NEW cur \in Nat
    PROVE  Expired(l, ex, cur) = {t \in S : ex[t] <= cur}
<1>0. PICK n \in Nat : \E w \in [1 .. n -> Timers] :
        Linked(l, w, n) /\ Ascends(ex, w, n) /\ S = {w[i] : i \in 1 .. n}
  BY DEF Holds
<1>1. PICK w \in [1 .. n -> Timers] : Linked(l, w, n) /\ Ascends(ex, w, n) /\ S = {w[i] : i \in 1 .. n}
  BY <1>0
<1>2. Walk(l) = w
  BY <1>1, WalkFromPath DEF Walk, Linked
<1>3. Expired(l, ex, cur) = {w[i] : i \in {j \in 1 .. n : \A k \in 1 .. j : ex[w[k]] <= cur}}
  BY <1>2 DEF Expired
<1>4. ASSUME NEW j \in 1 .. n
      PROVE  (\A k \in 1 .. j : ex[w[k]] <= cur) <=> ex[w[j]] <= cur
  <2>1. j \in 1 .. j
    OBVIOUS
  <2>2. ASSUME ex[w[j]] <= cur, NEW k \in 1 .. j PROVE ex[w[k]] <= cur
    <3>1. k \in 1 .. n /\ k <= j
      OBVIOUS
    <3>2. ex[w[k]] <= ex[w[j]] /\ ex[w[k]] \in Nat /\ ex[w[j]] \in Nat
      BY <1>1, <3>1 DEF Ascends
    <3> QED
      BY <2>2, <3>2
  <2> QED
    BY <2>1, <2>2
<1>5. {j \in 1 .. n : \A k \in 1 .. j : ex[w[k]] <= cur} = {j \in 1 .. n : ex[w[j]] <= cur}
  BY <1>4
<1> QED
  BY <1>1, <1>3, <1>5

(* tick() takes them off. *)
THEOREM TickKeepsList ==
    ASSUME NEW l, NEW ex \in [Timers -> Nat], NEW S, Holds(l, ex, S), NEW cur \in Nat
    PROVE  Holds(TickList(l, ex, cur), ex, S \ Expired(l, ex, cur))
<1>0. PICK n \in Nat : \E w \in [1 .. n -> Timers] :
        Linked(l, w, n) /\ Ascends(ex, w, n) /\ S = {w[i] : i \in 1 .. n}
  BY DEF Holds
<1>1. PICK w \in [1 .. n -> Timers] : Linked(l, w, n) /\ Ascends(ex, w, n) /\ S = {w[i] : i \in 1 .. n}
  BY <1>0
<1> DEFINE E == Expired(l, ex, cur)
           out == TickList(l, ex, cur)
<1>2. Walk(l) = w /\ Len(w) = n
  <2>1. w \in Seq(Timers) /\ DOMAIN w = 1 .. n
    OBVIOUS
  <2> QED
    BY <1>1, <2>1, WalkFromPath, LenProperties DEF Walk, Linked
<1>3. E = {t \in S : ex[t] <= cur}
  BY TickFindsAll
<1>4. /\ \A i, h \in 1 .. n : w[i] = w[h] => i = h
      /\ n # 0 => l.head = w[1] /\ l.tail = w[n]
      /\ \A i \in 1 .. n : l.next[w[i]] = IF i = n THEN Null ELSE w[i + 1]
      /\ \A i \in 1 .. n : l.prev[w[i]] = IF i = 1 THEN Null ELSE w[i - 1]
      /\ \A i, h \in 1 .. n : i <= h => ex[w[i]] <= ex[w[h]]
      /\ \A i \in 1 .. n : ex[w[i]] \in Nat /\ w[i] \in Timers
  BY <1>1 DEF Linked, Path, Ascends
(* The objects that have expired are the first k. *)
<1>5. \E k \in 0 .. n : \A i \in 1 .. n : ex[w[i]] <= cur <=> i <= k
  <2> DEFINE Late == {i \in 1 .. n : ex[w[i]] > cur}
  <2>1. CASE Late = {}
    <3>1. \A i \in 1 .. n : ex[w[i]] <= cur
      BY <1>4, <2>1
    <3> QED
      BY <3>1
  <2>2. CASE Late # {}
    <3>1. Late \in SUBSET Nat
      OBVIOUS
    <3> HIDE DEF Late
    <3>2. PICK i \in Late : \A j \in Late : i <= j
      BY <2>2, <3>1, LeastElement
    <3> USE DEF Late
    <3>3. i - 1 \in 0 .. n
      BY <3>2
    <3>4. ASSUME NEW j \in 1 .. n PROVE ex[w[j]] <= cur <=> j <= i - 1
      <4>1. i <= j => ex[w[i]] <= ex[w[j]]
        BY <1>4, <3>2
      <4>2. j < i => j \notin Late
        BY <3>2
      <4> QED
        BY <1>4, <3>2, <4>1, <4>2
    <3> QED
      BY <3>3, <3>4
  <2> QED
    BY <2>1, <2>2
<1>6. PICK k \in 0 .. n : \A i \in 1 .. n : ex[w[i]] <= cur <=> i <= k
  BY <1>5
<1>7. E = {w[i] : i \in 1 .. k}
  <2>1. \A i \in 1 .. k : i \in 1 .. n
    OBVIOUS
  <2> QED
    BY <1>1, <1>3, <1>6, <2>1
<1>8. Cardinality(E) = k
  <2> DEFINE f == [i \in 1 .. k |-> w[i]]
  <2>1. \A i \in 1 .. k : i \in 1 .. n
    OBVIOUS
  <2>2. f \in Bijection(1 .. k, E)
    BY <1>4, <1>7, <2>1 DEF Bijection, Injection, Surjection, IsInjective
  <2>3. ExistsBijection(1 .. k, E)
    BY <2>2 DEF ExistsBijection
  <2> QED
    BY <2>3, FS_CountingElements
<1> DEFINE m == n - k
           v == [i \in 1 .. m |-> w[i + k]]
<1>9. \A i \in 1 .. m : i + k \in 1 .. n /\ v[i] = w[i + k]
  OBVIOUS
<1>10. /\ m \in Nat /\ v \in [1 .. m -> Timers]
       /\ \A i, h \in 1 .. m : v[i] = v[h] => i = h
  BY <1>4, <1>9
<1>11. S \ E = {v[i] : i \in 1 .. m}
  <2>1. ASSUME NEW y \in S \ E PROVE \E i \in 1 .. m : y = v[i]
    <3>1. PICK j \in 1 .. n : y = w[j]
      BY <1>1
    <3>2. j - k \in 1 .. m /\ (j - k) + k = j
      BY <1>7, <2>1, <3>1
    <3> QED
      BY <1>9, <3>1, <3>2
  <2>2. ASSUME NEW i \in 1 .. m PROVE v[i] \in S \ E
    <3>1. i + k \in 1 .. n /\ v[i] = w[i + k] /\ ~(i + k <= k)
      BY <1>9
    <3> QED
      BY <1>1, <1>3, <1>6, <3>1
  <2> QED
    BY <2>1, <2>2
<1>12. /\ l \in Records
       /\ l.next \in [Timers -> Timers \union {Null}] /\ l.prev \in [Timers -> Timers \union {Null}]
  BY DEF Holds, Records
<1> HIDE DEF E, m, v
<1>13. CASE k = 0
  <2>1. out = l
    BY <1>2, <1>8, <1>13 DEF TickList, E
  <2>2. E = {}
    BY <1>7, <1>13
  <2> QED
    BY <2>1, <2>2 DEF E
<1>14. CASE k = n /\ k # 0
  <2>1. out = [l EXCEPT !.head = Null]
    BY <1>2, <1>8, <1>14 DEF TickList, E
  <2>2. out \in Records /\ out.head = Null
    BY <1>12, <2>1 DEF Records
  <2>3. m = 0
    BY <1>14 DEF m
  <2> HIDE DEF out
  <2>4. Linked(out, v, m) /\ Ascends(ex, v, m)
    BY <1>10, <2>2, <2>3 DEF Linked, Path, Ascends
  <2>5. Holds(out, ex, S \ E)
    BY <1>10, <1>11, <2>2, <2>4 DEF Holds
  <2> QED
    BY <2>5 DEF out, E
<1>15. CASE k # n /\ k # 0
  <2>1. k + 1 \in 1 .. n /\ w[k + 1] \in Timers /\ w[k + 1] # Null
    BY <1>4, <1>15, TimersAssumption
  <2>2. out = [l EXCEPT !.head = w[k + 1], !.prev[w[k + 1]] = Null]
    <3>1. k < n
      BY <1>15
    <3>2. (IF k < n THEN w[k + 1] ELSE Null) = w[k + 1]
      BY <3>1
    <3>3. out = IF k = 0 THEN l
                ELSE IF w[k + 1] = Null THEN [l EXCEPT !.head = Null]
                ELSE [l EXCEPT !.head = w[k + 1], !.prev[w[k + 1]] = Null]
      BY <1>2, <1>8, <3>2 DEF TickList, E
    <3> QED
      BY <1>15, <2>1, <3>3
  <2> HIDE DEF out
  <2>3. /\ out \in Records /\ out.head = w[k + 1] /\ out.tail = l.tail /\ out.next = l.next
        /\ out.prev = [l.prev EXCEPT ![w[k + 1]] = Null]
    BY <1>12, <2>1, <2>2 DEF Records
  <2>4. m # 0 /\ out.head = v[1] /\ out.tail = v[m]
    <3>1. m # 0 /\ 1 \in 1 .. m /\ m \in 1 .. m /\ m + k = n /\ n # 0
      BY <1>10, <1>15 DEF m
    <3> QED
      BY <1>4, <1>9, <2>3, <3>1
  <2>5. ASSUME NEW i \in 1 .. m PROVE out.next[v[i]] = IF i = m THEN Null ELSE v[i + 1]
    <3>1. out.next[v[i]] = IF i + k = n THEN Null ELSE w[(i + k) + 1]
      BY <1>4, <1>9, <2>3
    <3>2. i + k = n <=> i = m
      BY DEF m
    <3>3. i # m => i + 1 \in 1 .. m /\ (i + 1) + k = (i + k) + 1
      BY <1>10
    <3> QED
      BY <1>9, <3>1, <3>2, <3>3
  <2>6. ASSUME NEW i \in 1 .. m PROVE out.prev[v[i]] = IF i = 1 THEN Null ELSE v[i - 1]
    <3>1. i + k \in 1 .. n /\ v[i] = w[i + k] /\ v[i] \in Timers /\ i + k # 1
      BY <1>4, <1>9, <1>15
    <3>2. v[i] = w[k + 1] <=> i = 1
      <4>1. w[i + k] = w[k + 1] => i + k = k + 1
        BY <1>4, <2>1, <3>1
      <4>2. i + k = k + 1 <=> i = 1
        BY <1>10
      <4> QED
        BY <3>1, <4>1, <4>2
    <3>3. i # 1 => i - 1 \in 1 .. m /\ v[i - 1] = w[(i + k) - 1]
      <4>1. i # 1 => i - 1 \in 1 .. m /\ (i - 1) + k = (i + k) - 1
        BY <1>10
      <4> QED
        BY <1>9, <4>1
    <3>4. l.prev[v[i]] = w[(i + k) - 1]
      BY <1>4, <3>1
    <3> QED
      BY <1>12, <2>1, <2>3, <3>1, <3>2, <3>3, <3>4
  <2>7. Linked(out, v, m)
    BY <1>10, <2>4, <2>5, <2>6 DEF Linked, Path
  <2>8. Ascends(ex, v, m)
    BY <1>4, <1>9, <1>10 DEF Ascends
  <2>9. Holds(out, ex, S \ E)
    BY <1>10, <1>11, <2>3, <2>7, <2>8 DEF Holds
  <2> QED
    BY <2>9 DEF out, E
<1> QED
  BY <1>13, <1>14, <1>15

(* The list of the runs' invariants. *)
THEOREM HoldsIsListOf ==
    ASSUME NEW l, NEW ex \in [Timers -> Nat], NEW S, Holds(l, ex, S)
    PROVE  ListOf(l, ex, S)
<1>0. PICK n \in Nat : \E w \in [1 .. n -> Timers] :
        Linked(l, w, n) /\ Ascends(ex, w, n) /\ S = {w[i] : i \in 1 .. n}
  BY DEF Holds
<1>1. PICK w \in [1 .. n -> Timers] : Linked(l, w, n) /\ Ascends(ex, w, n) /\ S = {w[i] : i \in 1 .. n}
  BY <1>0
<1>2. Walk(l) = w /\ Len(w) = n /\ DOMAIN w = 1 .. n
  <2>1. w \in Seq(Timers) /\ DOMAIN w = 1 .. n
    OBVIOUS
  <2> QED
    BY <1>1, <2>1, WalkFromPath, LenProperties DEF Walk, Linked
<1>3. Cardinality(S) = n
  <2>1. w \in Bijection(1 .. n, S)
    BY <1>1 DEF Bijection, Injection, Surjection, IsInjective, Linked, Path
  <2>2. ExistsBijection(1 .. n, S)
    BY <2>1 DEF ExistsBijection
  <2> QED
    BY <2>2, FS_CountingElements
<1>4. ASSUME NEW i \in 1 .. n
      PROVE  /\ l.prev[w[i]] = IF i = 1 THEN Null ELSE w[i - 1]
             /\ i > 1 => ex[w[i - 1]] <= ex[w[i]]
  <2>1. l.prev[w[i]] = IF i = 1 THEN Null ELSE w[i - 1]
    BY <1>1 DEF Linked
  <2>2. i > 1 => i - 1 \in 1 .. n /\ i - 1 <= i
    OBVIOUS
  <2> QED
    BY <1>1, <2>1, <2>2 DEF Ascends
<1>5. w # <<>> => n # 0
  <2>1. n = 0 => Len(w) = 0
    BY <1>2
  <2>2. w \in Seq(Timers)
    OBVIOUS
  <2> QED
    BY <2>1, <2>2, EmptySeq
<1>6. n # 0 => l.tail = w[n]
  BY <1>1 DEF Linked
<1> QED
  BY <1>1, <1>2, <1>3, <1>4, <1>5, <1>6 DEF ListOf
=============================================================================
