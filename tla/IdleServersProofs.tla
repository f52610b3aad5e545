------------------------- MODULE IdleServersProofs -------------------------
(***************************************************************************)
(* Proofs about the servers with epoll timeouts as MCIdleServers.tla       *)
(* composes them, for any descriptors, memory, delays and slots: what the  *)
(* heap, the list and the wheel hold, when epoll_wait returns to the heap, *)
(* and that the servers with the heap and the list do what IdleTimers.tla  *)
(* says.                                                                   *)
(***************************************************************************)
EXTENDS MCIdleServers, FiniteSetTheorems, WellFoundedInduction, TLAPS

HTimers ==
    [pq : SUBSET Timers, callback : SUBSET Timers, expire : [Timers -> Nat],
     owner : [Timers -> Fds \union {Null}]]

(* The types of what the server with the heap keeps.  It never dies.       *)
HeapTypes ==
    /\ now \in Nat /\ start \in Nat /\ start <= now
    /\ timeout \in Int
    /\ open \subseteq Fds /\ data \subseteq open /\ fin \subseteq open
    /\ tm \in HTimers
    /\ timer \in [Fds -> Timers \union {Null}]
    /\ pc \in {"wait", "events"}

(* An open connection's timer is in the heap with its callback, and such a *)
(* timer is that of its connection.                                        *)
OwnTimers ==
    /\ \A f \in open : timer[f] \in Heap!Live /\ tm.owner[timer[f]] = f
    /\ \A t \in Heap!Live : tm.owner[t] \in open /\ timer[tm.owner[t]] = t

(* No timer expires before the wait ends, nor, during a batch, before now; *)
(* by the end of the batch there is time left until the first one expires. *)
Waits ==
    /\ timeout = -1 \/ timeout \in 0 .. HeapDelay
    /\ tm.pq # {} => timeout >= 0
    /\ \A t \in tm.pq : start + timeout <= tm.expire[t] /\ tm.expire[t] <= now + HeapDelay
    /\ pc = "wait" /\ timeout >= 0 => now <= start + timeout
    /\ pc = "events" => \A t \in tm.pq : now <= tm.expire[t]
    /\ pc = "events" /\ batch = {} => \A t \in tm.pq : now + timeout <= tm.expire[t]

HeapInv == HeapTypes /\ OwnTimers

-----------------------------------------------------------------------------
(* A set of naturals that is not empty has a least element. *)
LEMMA LeastElement ==
    ASSUME NEW S \in SUBSET Nat, S # {}
    PROVE  \E n \in S : \A m \in S : n <= m
<1>1. PICK n \in S : \A m \in S : ~ (<<m, n>> \in OpToRel(<, Nat))
  BY NatLessThanWellFounded, WFMin
<1>2. \A m \in S : ~ (m < n)
  BY <1>1 DEF OpToRel
<1> QED
  BY <1>2

(* The top of a heap is one of its timers, and none expires before it. *)
LEMMA TopOfHeap ==
    ASSUME NEW h \in HTimers, h.pq # {}
    PROVE  /\ \E t \in h.pq : Heap!TopTime(h) = h.expire[t]
           /\ Heap!TopTime(h) \in Nat
           /\ \A t \in h.pq : Heap!TopTime(h) <= h.expire[t]
<1> DEFINE S == {h.expire[t] : t \in h.pq}
<1>1. h.pq \subseteq Timers /\ h.expire \in [Timers -> Nat]
  BY DEF HTimers
<1>2. S \in SUBSET Nat /\ S # {}
  BY <1>1
<1>3. \E e \in S : \A m \in S : e <= m
  <2> HIDE DEF S
  <2> QED
    BY <1>2, LeastElement
<1>4. \E e \in S : \A t \in h.pq : e <= h.expire[t]
  BY <1>3
<1>5. Heap!TopTime(h) \in S /\ \A t \in h.pq : Heap!TopTime(h) <= h.expire[t]
  BY <1>4 DEF Heap!TopTime
<1> QED
  BY <1>1, <1>5

(* Pruning a heap takes timers without a callback away and nothing else. *)
LEMMA PrunedHeap ==
    ASSUME NEW h \in HTimers
    PROVE  /\ Heap!Pruned(h) \in HTimers
           /\ Heap!Pruned(h).callback = h.callback
           /\ Heap!Pruned(h).expire = h.expire
           /\ Heap!Pruned(h).owner = h.owner
           /\ Heap!Pruned(h).pq \subseteq h.pq
           /\ \A t \in h.pq : t \in h.callback => t \in Heap!Pruned(h).pq
BY DEF Heap!Pruned, HTimers

(* A timer that is new in the heap. *)
LEMMA AddedTimer ==
    ASSUME NEW h \in HTimers, NEW f \in Fds, NEW t \in Timers, now \in Nat, DelayAssumption
    PROVE  /\ Heap!Add(h, f, t) \in HTimers
           /\ Heap!Add(h, f, t).pq = h.pq \union {t}
           /\ Heap!Add(h, f, t).callback = h.callback \union {t}
           /\ Heap!Add(h, f, t).expire = [h.expire EXCEPT ![t] = now + HeapDelay]
           /\ Heap!Add(h, f, t).owner = [h.owner EXCEPT ![t] = f]
<1>1. now + HeapDelay \in Nat
  BY DEF DelayAssumption
<1> QED
  BY <1>1 DEF Heap!Add, HTimers

(* A timer that loses its callback. *)
LEMMA DeletedTimer ==
    ASSUME NEW h \in HTimers, NEW t
    PROVE  /\ Heap!Del(h, t) \in HTimers
           /\ Heap!Del(h, t).pq = h.pq
           /\ Heap!Del(h, t).callback = h.callback \ {t}
           /\ Heap!Del(h, t).expire = h.expire
           /\ Heap!Del(h, t).owner = h.owner
BY DEF Heap!Del, HTimers

-----------------------------------------------------------------------------
(* What each event does to the heap: timer t is set for connection f ...   *)
TimerSet(f, t) ==
    /\ tm' \in HTimers
    /\ timer' = [timer EXCEPT ![f] = t]
    /\ tm'.owner = [tm.owner EXCEPT ![t] = f]
    /\ tm'.expire = [tm.expire EXCEPT ![t] = now + HeapDelay]
    /\ tm'.pq \subseteq tm.pq \union {t}
    /\ (Heap!Live)' = (Heap!Live \ (IF f \in open THEN {timer[f]} ELSE {})) \union {t}
    /\ open' = open \union {f}

(* ... or the timer of f loses its callback, and f is closed.              *)
TimerDropped(f, t) ==
    /\ tm' \in HTimers
    /\ timer' \in [Fds -> Timers \union {Null}]
    /\ \A g \in Fds \ {f} : timer'[g] = timer[g]
    /\ \A u \in Timers \ {t} : tm'.owner[u] = tm.owner[u] /\ tm'.expire[u] = tm.expire[u]
    /\ tm'.expire[t] \in {tm.expire[t], now + HeapDelay}
    /\ tm'.pq \subseteq tm.pq \union {t}
    /\ t \in tm'.pq => tm'.expire[t] = now + HeapDelay
    /\ (Heap!Live)' = Heap!Live \ {timer[f]}
    /\ open' = open \ {f}

(* A connection is accepted: it is given a timer from free memory. *)
LEMMA AcceptSets ==
    ASSUME HeapInv, DelayAssumption, NEW f \in Fds, NEW t \in Timers, Heap!Accept(f, t)
    PROVE  f \notin open /\ t \notin tm.pq /\ TimerSet(f, t) /\ UNCHANGED <<data, fin>>
<1>1. tm \in HTimers /\ now \in Nat
  BY DEF HeapInv, HeapTypes
<1> DEFINE h == Heap!Add(tm, f, t)
<1>2. tm' = Heap!Pruned(h) /\ timer' = [timer EXCEPT ![f] = t]
  BY DEF Heap!Accept, Heap!NextClock
<1>3. f \notin open /\ t \notin tm.pq /\ open' = open \union {f} /\ UNCHANGED <<data, fin>>
  BY DEF Heap!Accept, Heap!NewConnection
<1>4. /\ h \in HTimers /\ h.pq = tm.pq \union {t} /\ h.callback = tm.callback \union {t}
      /\ h.expire = [tm.expire EXCEPT ![t] = now + HeapDelay] /\ h.owner = [tm.owner EXCEPT ![t] = f]
  BY <1>1, AddedTimer
<1> HIDE DEF h
<1>5. /\ tm' \in HTimers /\ tm'.callback = h.callback /\ tm'.expire = h.expire /\ tm'.owner = h.owner
      /\ tm'.pq \subseteq h.pq /\ \A u \in h.pq : u \in h.callback => u \in tm'.pq
  BY <1>2, <1>4, PrunedHeap
<1>6. (Heap!Live)' = Heap!Live \union {t}
  BY <1>3, <1>4, <1>5 DEF Heap!Live
<1> QED
  BY <1>2, <1>3, <1>4, <1>5, <1>6 DEF TimerSet

(* An open connection's timer is one of the timers in the heap. *)
LEMMA OpenTimer ==
    ASSUME HeapInv, NEW f \in open
    PROVE  /\ f \in Fds /\ timer[f] \in Timers /\ timer[f] \in tm.pq
           /\ timer[f] \in tm.callback /\ tm.owner[timer[f]] = f
BY DEF HeapInv, HeapTypes, OwnTimers, Heap!Live, HTimers

(* Bytes are read: the connection is given a new timer, and its old one    *)
(* loses its callback.                                                     *)
LEMMA ReadDataSets ==
    ASSUME HeapInv, DelayAssumption, NEW f \in Fds, NEW t \in Timers, Heap!ReadData(f, t)
    PROVE  f \in open /\ t \notin tm.pq /\ TimerSet(f, t) /\ UNCHANGED <<open, fin>> /\ data' = data \ {f}
<1>1. tm \in HTimers /\ now \in Nat /\ data \subseteq open
  BY DEF HeapInv, HeapTypes
<1> DEFINE d == Heap!Del(tm, timer[f])
           h == Heap!Add(d, f, t)
<1>2. tm' = Heap!Pruned(h) /\ timer' = [timer EXCEPT ![f] = t]
  BY DEF Heap!ReadData, Heap!NextClock
<1>3. /\ f \in open /\ t \notin tm.pq
      /\ UNCHANGED <<open, fin>> /\ data' = data \ {f}
  BY <1>1 DEF Heap!ReadData, Heap!Bytes
<1>4. /\ d \in HTimers /\ d.pq = tm.pq /\ d.callback = tm.callback \ {timer[f]}
      /\ d.expire = tm.expire /\ d.owner = tm.owner
  BY <1>1, DeletedTimer
<1> HIDE DEF d
<1>5. /\ h \in HTimers /\ h.pq = d.pq \union {t} /\ h.callback = d.callback \union {t}
      /\ h.expire = [d.expire EXCEPT ![t] = now + HeapDelay] /\ h.owner = [d.owner EXCEPT ![t] = f]
  BY <1>1, <1>4, AddedTimer
<1> HIDE DEF h
<1>6. /\ tm' \in HTimers /\ tm'.callback = h.callback /\ tm'.expire = h.expire /\ tm'.owner = h.owner
      /\ tm'.pq \subseteq h.pq /\ \A u \in h.pq : u \in h.callback => u \in tm'.pq
  BY <1>2, <1>5, PrunedHeap
<1>7. timer[f] # t
  BY <1>3, OpenTimer
<1>8. (Heap!Live)' = (Heap!Live \ {timer[f]}) \union {t}
  BY <1>3, <1>4, <1>5, <1>6, <1>7 DEF Heap!Live
<1> QED
  BY <1>2, <1>3, <1>4, <1>5, <1>6, <1>8 DEF TimerSet

(* The end is read: the connection is closed, and its timer loses its      *)
(* callback.                                                               *)
LEMMA ReadEndDrops ==
    ASSUME HeapInv, DelayAssumption, NEW f \in Fds, NEW t \in Timers, Heap!ReadEnd(f, t)
    PROVE  /\ f \in open /\ t \notin tm.pq /\ TimerDropped(f, t)
           /\ data' = data \ {f} /\ fin' = fin \ {f}
<1>1. /\ tm \in HTimers /\ now \in Nat /\ fin \subseteq open
      /\ timer \in [Fds -> Timers \union {Null}]
  BY DEF HeapInv, HeapTypes
<1>2. /\ f \in open /\ t \notin tm.pq
      /\ open' = open \ {f} /\ data' = data \ {f} /\ fin' = fin \ {f}
  BY <1>1 DEF Heap!ReadEnd, Heap!EndOfFile, Heap!Close
<1>3. timer[f] \in tm.pq /\ timer[f] # t
  BY <1>2, OpenTimer
<1> DEFINE d == Heap!Del(tm, timer[f])
           a == Heap!Add(d, f, t)
           e == Heap!Del(a, t)
<1> HIDE DEF e
<1>4. /\ d \in HTimers /\ d.pq = tm.pq /\ d.callback = tm.callback \ {timer[f]}
      /\ d.expire = tm.expire /\ d.owner = tm.owner
  BY <1>1, DeletedTimer
<1>5. CASE f \in data
  <2>1. tm' = Heap!Pruned(e) /\ timer' = [timer EXCEPT ![f] = t]
    BY <1>5 DEF Heap!ReadEnd, Heap!NextClock, e
  <2> HIDE DEF d
  <2>2. /\ a \in HTimers /\ a.pq = d.pq \union {t} /\ a.callback = d.callback \union {t}
        /\ a.expire = [d.expire EXCEPT ![t] = now + HeapDelay] /\ a.owner = [d.owner EXCEPT ![t] = f]
    <3>1. d \in HTimers /\ now \in Nat
      BY <1>1, <1>4
    <3> QED
      BY <3>1, AddedTimer
  <2> HIDE DEF a
  <2>3. /\ e \in HTimers /\ e.pq = a.pq /\ e.callback = a.callback \ {t}
        /\ e.expire = a.expire /\ e.owner = a.owner
    BY <2>2, DeletedTimer DEF e
  <2>4. /\ tm' \in HTimers /\ tm'.callback = e.callback /\ tm'.expire = e.expire /\ tm'.owner = e.owner
        /\ tm'.pq \subseteq e.pq /\ \A u \in e.pq : u \in e.callback => u \in tm'.pq
    BY <2>1, <2>3, PrunedHeap
  <2>5. (Heap!Live)' = Heap!Live \ {timer[f]}
    BY <1>2, <1>4, <2>2, <2>3, <2>4 DEF Heap!Live
  <2>6. timer' \in [Fds -> Timers \union {Null}] /\ \A g \in Fds \ {f} : timer'[g] = timer[g]
    BY <1>1, <2>1
  <2>7. /\ \A u \in Timers \ {t} : tm'.owner[u] = tm.owner[u] /\ tm'.expire[u] = tm.expire[u]
        /\ tm'.expire[t] = now + HeapDelay
    BY <1>1, <1>4, <2>2, <2>3, <2>4 DEF HTimers
  <2>8. tm'.pq \subseteq tm.pq \union {t}
    BY <1>4, <2>2, <2>3, <2>4
  <2> QED
    BY <1>2, <2>4, <2>5, <2>6, <2>7, <2>8 DEF TimerDropped
<1>6. CASE f \notin data
  <2>1. tm' = Heap!Pruned(d) /\ timer' = timer
    BY <1>6 DEF Heap!ReadEnd, Heap!NextClock
  <2> HIDE DEF d
  <2>2. /\ tm' \in HTimers /\ tm'.callback = d.callback /\ tm'.expire = d.expire /\ tm'.owner = d.owner
        /\ tm'.pq \subseteq d.pq /\ \A u \in d.pq : u \in d.callback => u \in tm'.pq
    BY <1>4, <2>1, PrunedHeap
  <2>3. (Heap!Live)' = Heap!Live \ {timer[f]}
    BY <1>4, <2>2 DEF Heap!Live
  <2> QED
    BY <1>1, <1>2, <1>4, <2>1, <2>2, <2>3 DEF TimerDropped
<1> QED
  BY <1>5, <1>6

-----------------------------------------------------------------------------
(* Setting the timer of one connection leaves the others theirs. *)
LEMMA SetKeepsOwners ==
    ASSUME HeapInv, NEW f \in Fds, NEW t \in Timers, t \notin tm.pq, TimerSet(f, t)
    PROVE  OwnTimers' /\ timer' \in [Fds -> Timers \union {Null}]
<1>1. /\ open \subseteq Fds /\ timer \in [Fds -> Timers \union {Null}]
      /\ tm.owner \in [Timers -> Fds \union {Null}] /\ t \notin Heap!Live /\ Heap!Live \subseteq Timers
  BY DEF HeapInv, HeapTypes, HTimers, Heap!Live
<1>2. /\ timer' = [timer EXCEPT ![f] = t] /\ tm'.owner = [tm.owner EXCEPT ![t] = f]
      /\ (Heap!Live)' = (Heap!Live \ (IF f \in open THEN {timer[f]} ELSE {})) \union {t}
      /\ open' = open \union {f}
  BY DEF TimerSet
<1>3. /\ timer'[f] = t /\ \A g \in Fds \ {f} : timer'[g] = timer[g]
      /\ tm'.owner[t] = f /\ \A u \in Timers \ {t} : tm'.owner[u] = tm.owner[u]
      /\ timer' \in [Fds -> Timers \union {Null}]
  BY <1>1, <1>2
<1>4. /\ \A g \in open : timer[g] \in Heap!Live /\ tm.owner[timer[g]] = g
      /\ \A u \in Heap!Live : tm.owner[u] \in open /\ timer[tm.owner[u]] = u
  BY DEF HeapInv, OwnTimers
<1>5. ASSUME NEW g \in open' PROVE timer'[g] \in (Heap!Live)' /\ tm'.owner[timer'[g]] = g
  <2>1. CASE g = f
    BY <1>2, <1>3, <2>1
  <2>2. CASE g # f
    <3>1. g \in open /\ timer'[g] = timer[g] /\ timer[g] \in Heap!Live /\ tm.owner[timer[g]] = g
      BY <1>1, <1>2, <1>3, <1>4, <2>2
    <3>2. timer[g] # t /\ timer[g] \in Timers
      BY <1>1, <3>1
    <3>3. f \in open => timer[f] # timer[g]
      BY <1>4, <2>2, <3>1
    <3> QED
      BY <1>2, <1>3, <3>1, <3>2, <3>3
  <2> QED
    BY <2>1, <2>2
<1>6. ASSUME NEW u \in (Heap!Live)' PROVE tm'.owner[u] \in open' /\ timer'[tm'.owner[u]] = u
  <2>1. CASE u = t
    BY <1>2, <1>3, <2>1
  <2>2. CASE u # t
    <3>1. u \in Heap!Live /\ (f \in open => u # timer[f]) /\ u \in Timers
      BY <1>1, <1>2, <2>2
    <3>2. tm'.owner[u] = tm.owner[u] /\ tm.owner[u] \in open /\ timer[tm.owner[u]] = u
      BY <1>3, <1>4, <2>2, <3>1
    <3>3. tm.owner[u] # f
      BY <3>1, <3>2
    <3> QED
      BY <1>1, <1>2, <1>3, <3>2, <3>3
  <2> QED
    BY <2>1, <2>2
<1> QED
  BY <1>3, <1>5, <1>6 DEF OwnTimers

(* So does dropping one. *)
LEMMA DropKeepsOwners ==
    ASSUME HeapInv, NEW f \in open, NEW t \in Timers, t \notin tm.pq, TimerDropped(f, t)
    PROVE  OwnTimers'
<1>1. /\ open \subseteq Fds /\ t \notin Heap!Live /\ Heap!Live \subseteq Timers
  BY DEF HeapInv, HeapTypes, HTimers, Heap!Live
<1>2. /\ (Heap!Live)' = Heap!Live \ {timer[f]} /\ open' = open \ {f}
      /\ \A g \in Fds \ {f} : timer'[g] = timer[g]
      /\ \A u \in Timers \ {t} : tm'.owner[u] = tm.owner[u]
  BY DEF TimerDropped
<1>3. /\ \A g \in open : timer[g] \in Heap!Live /\ tm.owner[timer[g]] = g
      /\ \A u \in Heap!Live : tm.owner[u] \in open /\ timer[tm.owner[u]] = u
  BY DEF HeapInv, OwnTimers
<1>4. ASSUME NEW g \in open' PROVE timer'[g] \in (Heap!Live)' /\ tm'.owner[timer'[g]] = g
  <2>1. g \in open /\ g # f /\ timer'[g] = timer[g] /\ timer[g] \in Heap!Live
    BY <1>1, <1>2, <1>3
  <2>2. timer[g] # timer[f] /\ timer[g] # t /\ timer[g] \in Timers
    BY <1>1, <1>3, <2>1
  <2> QED
    BY <1>2, <1>3, <2>1, <2>2
<1>5. ASSUME NEW u \in (Heap!Live)' PROVE tm'.owner[u] \in open' /\ timer'[tm'.owner[u]] = u
  <2>1. u \in Heap!Live /\ u # timer[f] /\ u \in Timers /\ u # t
    BY <1>1, <1>2
  <2>2. tm'.owner[u] = tm.owner[u] /\ tm.owner[u] \in open /\ timer[tm.owner[u]] = u
    BY <1>2, <1>3, <2>1
  <2> QED
    BY <1>1, <1>2, <2>1, <2>2
<1> QED
  BY <1>4, <1>5 DEF OwnTimers

(* The connections that a tick closes are those whose timers expired, and  *)
(* they are open.                                                          *)
LEMMA TickTypes ==
    ASSUME HeapInv, Heap!Tick
    PROVE  LET fired == {t \in tm.pq : tm.expire[t] <= now}
               fds == {tm.owner[t] : t \in fired \intersect tm.callback}
           IN  /\ pc = "wait" /\ pc' = "wait" /\ batch' = batch
               /\ start' = now /\ now' = now /\ timer' = timer
               /\ fds \subseteq open
               /\ open' = open \ fds /\ data' = data \ fds /\ fin' = fin \ fds
               /\ tm' \in HTimers /\ tm' = [tm EXCEPT !.pq = tm.pq \ fired]
               /\ tm'.pq = tm.pq \ fired /\ tm'.expire = tm.expire /\ tm'.owner = tm.owner
               /\ (Heap!Live)' = Heap!Live \ fired
               /\ timeout' = IF tm'.pq = {} THEN -1 ELSE Heap!TopTime(tm') - now
               /\ timeout' \in Int
<1> DEFINE fired == {t \in tm.pq : tm.expire[t] <= now}
           fds == {tm.owner[t] : t \in fired \intersect tm.callback}
<1>1. tm \in HTimers /\ now \in Nat
  BY DEF HeapInv, HeapTypes
<1>2. fds \subseteq open
  BY DEF HeapInv, OwnTimers, Heap!Live
<1>3. /\ pc = "wait" /\ batch' = batch /\ start' = now /\ now' = now /\ timer' = timer
      /\ open' = open \ fds /\ data' = data \ fds /\ fin' = fin \ fds
      /\ tm' = [tm EXCEPT !.pq = tm.pq \ fired]
      /\ timeout' = IF tm'.pq = {} THEN -1 ELSE Heap!TopTime(tm') - now
      /\ pc' = IF fds \subseteq open THEN "wait" ELSE "died"
  BY DEF Heap!Tick, Heap!TickCloses, Heap!TimedOut, Heap!Close
<1>4. /\ tm' \in HTimers /\ tm'.pq = tm.pq \ fired /\ tm'.expire = tm.expire
      /\ tm'.owner = tm.owner /\ tm'.callback = tm.callback
  BY <1>1, <1>3 DEF HTimers
<1>5. (Heap!Live)' = Heap!Live \ fired
  BY <1>4 DEF Heap!Live
<1>6. timeout' \in Int
  <2>1. tm'.pq # {} => Heap!TopTime(tm') \in Nat
    BY <1>4, TopOfHeap
  <2> QED
    BY <1>1, <1>3, <2>1
<1>7. pc' = "wait"
  BY <1>2, <1>3
<1> QED
  BY <1>2, <1>3, <1>4, <1>5, <1>6, <1>7

(* A tick takes a connection's timer only with the connection. *)
LEMMA TickKeepsOwners ==
    ASSUME HeapInv, Heap!Tick
    PROVE  OwnTimers'
<1> DEFINE fired == {t \in tm.pq : tm.expire[t] <= now}
           fds == {tm.owner[t] : t \in fired \intersect tm.callback}
<1>1. /\ open' = open \ fds /\ timer' = timer /\ tm'.owner = tm.owner
      /\ (Heap!Live)' = Heap!Live \ fired
  BY TickTypes
<1>2. /\ \A g \in open : timer[g] \in Heap!Live /\ tm.owner[timer[g]] = g
      /\ \A u \in Heap!Live : tm.owner[u] \in open /\ timer[tm.owner[u]] = u
  BY DEF HeapInv, OwnTimers
<1>3. ASSUME NEW g \in open' PROVE timer'[g] \in (Heap!Live)' /\ tm'.owner[timer'[g]] = g
  <2>1. g \in open /\ g \notin fds /\ timer[g] \in Heap!Live /\ tm.owner[timer[g]] = g
    BY <1>1, <1>2
  <2>2. timer[g] \in tm.callback
    BY <2>1 DEF Heap!Live
  <2>3. timer[g] \notin fired
    BY <2>1, <2>2
  <2> QED
    BY <1>1, <2>1, <2>3
<1>4. ASSUME NEW u \in (Heap!Live)' PROVE tm'.owner[u] \in open' /\ timer'[tm'.owner[u]] = u
  <2>1. u \in Heap!Live /\ u \notin fired /\ tm.owner[u] \in open /\ timer[tm.owner[u]] = u
    BY <1>1, <1>2
  <2>2. ASSUME tm.owner[u] \in fds PROVE FALSE
    <3>1. PICK v \in fired \intersect tm.callback : tm.owner[u] = tm.owner[v]
      BY <2>2
    <3>2. v \in Heap!Live
      BY <3>1 DEF Heap!Live
    <3>3. timer[tm.owner[v]] = v
      BY <1>2, <3>2
    <3> QED
      BY <2>1, <3>1, <3>3
  <2> QED
    BY <1>1, <2>1, <2>2
<1> QED
  BY <1>3, <1>4 DEF OwnTimers

(* What every event of the heap's server has in common. *)
LEMMA EventTypes ==
    ASSUME HeapInv, DelayAssumption, NEW f \in Fds, NEW t \in Timers,
           Heap!Accept(f, t) \/ Heap!ReadData(f, t) \/ Heap!ReadEnd(f, t)
    PROVE  /\ pc = "events" /\ pc' = "events" /\ now' = now /\ start' = start
           /\ t \notin tm.pq /\ tm' \in HTimers
           /\ timeout' = IF timeout # -1 /\ timeout - (now - start) > 0 THEN timeout - (now - start)
                         ELSE IF tm'.pq # {} THEN Heap!TopTime(tm') - now
                         ELSE -1
           /\ timeout' \in Int
<1>1. /\ pc = "events" /\ pc' = "events" /\ now' = now /\ start' = start
  BY DEF Heap!Accept, Heap!NewConnection, Heap!ReadData, Heap!Bytes, Heap!ReadEnd, Heap!EndOfFile,
     Heap!Event, Heap!NextClock
<1>2. t \notin tm.pq /\ tm' \in HTimers
  BY AcceptSets, ReadDataSets, ReadEndDrops DEF TimerSet, TimerDropped
<1>3. timeout' = IF timeout # -1 /\ timeout - (now - start) > 0 THEN timeout - (now - start)
                 ELSE IF tm'.pq # {} THEN Heap!TopTime(tm') - now
                 ELSE -1
  BY DEF Heap!Accept, Heap!ReadData, Heap!ReadEnd, Heap!NextClock
<1>4. timeout' \in Int
  <2>1. now \in Nat /\ start \in Nat /\ timeout \in Int
    BY DEF HeapInv, HeapTypes
  <2>2. tm'.pq # {} => Heap!TopTime(tm') \in Nat
    BY <1>2, TopOfHeap
  <2> QED
    BY <1>3, <2>1, <2>2
<1> QED
  BY <1>1, <1>2, <1>3, <1>4

(* No step of the heap's server breaks its types or who owns which timer. *)
LEMMA HeapStep ==
    ASSUME HeapInv, LoopAssumption, DelayAssumption, Heap!Next
    PROVE  HeapInv'
<1>1. /\ now \in Nat /\ start \in Nat /\ start <= now /\ timeout \in Int
      /\ open \subseteq Fds /\ data \subseteq open /\ fin \subseteq open /\ tm \in HTimers
      /\ timer \in [Fds -> Timers \union {Null}] /\ pc \in {"wait", "events"}
  BY DEF HeapInv, HeapTypes
<1>2. ASSUME UNCHANGED <<open, tm, timer>> PROVE OwnTimers'
  BY <1>2 DEF HeapInv, OwnTimers, Heap!Live
<1>3. CASE Heap!Advance
  <2>1. now' = now + 1 /\ UNCHANGED <<open, data, fin, start, timeout, pc, tm, timer>>
    BY <1>3 DEF Heap!Advance
  <2> QED
    BY <1>1, <1>2, <2>1 DEF HeapInv, HeapTypes
<1>4. CASE Heap!Connect
  <2>1. UNCHANGED <<now, open, data, fin, start, timeout, pc, tm, timer>>
    BY <1>4 DEF Heap!Connect, Heap!Input
  <2> QED
    BY <1>1, <1>2, <2>1 DEF HeapInv, HeapTypes
<1>5. ASSUME NEW f \in Fds, Heap!Send(f) PROVE HeapInv'
  <2>1. /\ UNCHANGED <<now, open, fin, start, timeout, pc, tm, timer>>
        /\ data' \subseteq open
    BY <1>1, <1>5 DEF Heap!Send, Heap!Input
  <2> QED
    BY <1>1, <1>2, <2>1 DEF HeapInv, HeapTypes
<1>6. ASSUME NEW f \in Fds, Heap!HangUp(f) PROVE HeapInv'
  <2>1. /\ UNCHANGED <<now, open, data, start, timeout, pc, tm, timer>>
        /\ fin' \subseteq open
    BY <1>1, <1>6 DEF Heap!HangUp, Heap!Input
  <2> QED
    BY <1>1, <1>2, <2>1 DEF HeapInv, HeapTypes
<1>7. CASE Heap!EpollWait
  <2>1. UNCHANGED <<now, open, data, fin, start, timeout, tm, timer>> /\ pc' = "events"
    BY <1>7 DEF Heap!EpollWait
  <2> QED
    BY <1>1, <1>2, <2>1 DEF HeapInv, HeapTypes
<1>8. CASE Heap!EndOfBatch
  <2>1. UNCHANGED <<now, open, data, fin, timeout, tm, timer>> /\ pc' = "wait" /\ start' = now
    BY <1>8 DEF Heap!EndOfBatch
  <2> QED
    BY <1>1, <1>2, <2>1 DEF HeapInv, HeapTypes
<1>9. CASE Heap!Tick
  <2>1. OwnTimers'
    BY <1>9, TickKeepsOwners
  <2>2. /\ pc' = "wait" /\ start' = now /\ now' = now /\ timer' = timer /\ tm' \in HTimers
        /\ timeout' \in Int
    BY <1>9, TickTypes
  <2>3. open' \subseteq Fds /\ data' \subseteq open' /\ fin' \subseteq open'
    BY <1>1, <1>9, TickTypes
  <2> QED
    BY <1>1, <2>1, <2>2, <2>3 DEF HeapInv, HeapTypes
<1>10. ASSUME NEW f \in Fds, NEW t \in Timers, Heap!Accept(f, t) PROVE HeapInv'
  <2>1. /\ pc' = "events" /\ now' = now /\ start' = start /\ tm' \in HTimers /\ timeout' \in Int
    BY <1>10, EventTypes
  <2>2. t \notin tm.pq /\ TimerSet(f, t) /\ UNCHANGED <<data, fin>>
    BY <1>10, AcceptSets
  <2>3. open' \subseteq Fds /\ data' \subseteq open' /\ fin' \subseteq open'
    BY <1>1, <2>2 DEF TimerSet
  <2>4. OwnTimers' /\ timer' \in [Fds -> Timers \union {Null}]
    BY <2>2, SetKeepsOwners
  <2> QED
    BY <1>1, <2>1, <2>3, <2>4 DEF HeapInv, HeapTypes
<1>11. ASSUME NEW f \in Fds, NEW t \in Timers, Heap!ReadData(f, t) PROVE HeapInv'
  <2>1. /\ pc' = "events" /\ now' = now /\ start' = start /\ tm' \in HTimers /\ timeout' \in Int
    BY <1>11, EventTypes
  <2>2. t \notin tm.pq /\ TimerSet(f, t) /\ UNCHANGED <<open, fin>> /\ data' = data \ {f}
    BY <1>11, ReadDataSets
  <2>3. open' \subseteq Fds /\ data' \subseteq open' /\ fin' \subseteq open'
    BY <1>1, <2>2
  <2>4. OwnTimers' /\ timer' \in [Fds -> Timers \union {Null}]
    BY <2>2, SetKeepsOwners
  <2> QED
    BY <1>1, <2>1, <2>3, <2>4 DEF HeapInv, HeapTypes
<1>12. ASSUME NEW f \in Fds, NEW t \in Timers, Heap!ReadEnd(f, t) PROVE HeapInv'
  <2>1. /\ pc' = "events" /\ now' = now /\ start' = start /\ tm' \in HTimers /\ timeout' \in Int
    BY <1>12, EventTypes
  <2>2. /\ f \in open /\ t \notin tm.pq /\ TimerDropped(f, t)
        /\ data' = data \ {f} /\ fin' = fin \ {f}
    BY <1>12, ReadEndDrops
  <2>3. open' \subseteq Fds /\ data' \subseteq open' /\ fin' \subseteq open'
    BY <1>1, <2>2 DEF TimerDropped
  <2>4. OwnTimers' /\ timer' \in [Fds -> Timers \union {Null}]
    BY <2>2, DropKeepsOwners DEF TimerDropped
  <2> QED
    BY <1>1, <2>1, <2>3, <2>4 DEF HeapInv, HeapTypes
<1> QED
  BY <1>3, <1>4, <1>5, <1>6, <1>7, <1>8, <1>9, <1>10, <1>11, <1>12 DEF Heap!Next, Heap!Outside

(* The server starts with an empty heap. *)
LEMMA HeapInit ==
    ASSUME Heap!Init
    PROVE  HeapInv
<1>1. /\ now = 0 /\ start = 0 /\ timeout = -1 /\ open = {} /\ data = {} /\ fin = {} /\ pc = "wait"
      /\ timer = [f \in Fds |-> Null]
      /\ tm = [pq |-> {}, callback |-> {}, expire |-> [t \in Timers |-> 0], owner |-> [t \in Timers |-> Null]]
  BY DEF Heap!Init, Heap!InitLoop
<1>2. tm \in HTimers
  BY <1>1 DEF HTimers
<1>3. Heap!Live = {}
  BY <1>1 DEF Heap!Live
<1> QED
  BY <1>1, <1>2, <1>3 DEF HeapInv, HeapTypes, OwnTimers

-----------------------------------------------------------------------------
(* A wait as next_clock() leaves it ends before the first timer expires. *)
LEMMA EventWaits ==
    ASSUME HeapInv, Waits, DelayAssumption, NEW f \in Fds, NEW t \in Timers,
           Heap!Accept(f, t) \/ Heap!ReadData(f, t) \/ Heap!ReadEnd(f, t)
    PROVE  Waits'
<1> DEFINE rest == timeout - (now - start)
<1>1. /\ now \in Nat /\ start \in Nat /\ start <= now /\ timeout \in Int
      /\ tm \in HTimers /\ HeapDelay \in Nat
  BY DEF HeapInv, HeapTypes, DelayAssumption
<1>2. /\ pc = "events" /\ pc' = "events" /\ now' = now /\ start' = start
      /\ t \notin tm.pq /\ tm' \in HTimers
      /\ timeout' = IF timeout # -1 /\ rest > 0 THEN rest
                    ELSE IF tm'.pq # {} THEN Heap!TopTime(tm') - now
                    ELSE -1
  BY EventTypes
<1>3. \A u \in tm'.pq : \/ u \in tm.pq /\ tm'.expire[u] = tm.expire[u]
                        \/ tm'.expire[u] = now + HeapDelay
  <2>1. tm.pq \subseteq Timers /\ tm.expire \in [Timers -> Nat]
    BY <1>1 DEF HTimers
  <2>2. TimerSet(f, t) \/ TimerDropped(f, t)
    BY AcceptSets, ReadDataSets, ReadEndDrops
  <2>3. CASE TimerSet(f, t)
    BY <1>2, <2>1, <2>3 DEF TimerSet
  <2>4. CASE TimerDropped(f, t)
    BY <1>2, <2>1, <2>4 DEF TimerDropped
  <2> QED
    BY <2>2, <2>3, <2>4
<1>4. /\ timeout = -1 \/ timeout \in 0 .. HeapDelay
      /\ \A u \in tm.pq : /\ start + timeout <= tm.expire[u] /\ tm.expire[u] <= now + HeapDelay
                          /\ now <= tm.expire[u]
  BY <1>2 DEF Waits
<1>5. tm'.pq \subseteq Timers /\ \A u \in tm'.pq : tm'.expire[u] \in Nat
  BY <1>2 DEF HTimers
<1>6. \A u \in tm'.pq : now <= tm'.expire[u] /\ tm'.expire[u] <= now + HeapDelay
  BY <1>1, <1>3, <1>4, <1>5
<1> SUFFICES /\ timeout' = -1 \/ timeout' \in 0 .. HeapDelay
             /\ tm'.pq # {} => timeout' >= 0
             /\ \A u \in tm'.pq : now + timeout' <= tm'.expire[u] /\ start + timeout' <= tm'.expire[u]
  BY <1>1, <1>2, <1>6 DEF Waits
<1>7. CASE timeout # -1 /\ rest > 0
  <2>1. timeout' = rest /\ timeout \in 0 .. HeapDelay /\ rest \in 0 .. HeapDelay
    BY <1>1, <1>2, <1>4, <1>7
  <2>2. \A u \in tm'.pq : now + rest <= tm'.expire[u]
    BY <1>1, <1>3, <1>4, <1>5, <2>1
  <2>3. start + rest <= now + rest
    BY <1>1
  <2>4. \A u \in tm'.pq : start + rest <= tm'.expire[u]
    BY <1>1, <1>5, <2>1, <2>2, <2>3
  <2>5. timeout' >= 0
    BY <2>1
  <2> HIDE DEF rest
  <2> QED
    BY <2>1, <2>2, <2>4, <2>5
<1>8. CASE ~ (timeout # -1 /\ rest > 0) /\ tm'.pq # {}
  <2>1. timeout' = Heap!TopTime(tm') - now
    BY <1>2, <1>8
  <2>2. PICK u \in tm'.pq : Heap!TopTime(tm') = tm'.expire[u]
    BY <1>2, <1>8, TopOfHeap
  <2>3. Heap!TopTime(tm') \in Nat /\ \A v \in tm'.pq : Heap!TopTime(tm') <= tm'.expire[v]
    BY <1>2, <1>8, TopOfHeap
  <2>4. timeout' \in 0 .. HeapDelay
    BY <1>1, <1>6, <2>1, <2>2, <2>3
  <2>5. now + timeout' = Heap!TopTime(tm') /\ start + timeout' <= Heap!TopTime(tm')
    BY <1>1, <2>1, <2>3
  <2>6. \A v \in tm'.pq : now + timeout' <= tm'.expire[v] /\ start + timeout' <= tm'.expire[v]
    BY <1>1, <1>5, <2>3, <2>4, <2>5
  <2> QED
    BY <2>4, <2>6
<1>9. CASE ~ (timeout # -1 /\ rest > 0) /\ tm'.pq = {}
  BY <1>2, <1>9
<1> QED
  BY <1>7, <1>8, <1>9

(* So does that of a tick, and no step in between makes a timer expire. *)
LEMMA WaitsStep ==
    ASSUME HeapInv, Waits, LoopAssumption, DelayAssumption, ~Slow, Heap!Next
    PROVE  Waits'
<1>1. /\ now \in Nat /\ start \in Nat /\ start <= now /\ timeout \in Int
      /\ tm \in HTimers /\ HeapDelay \in Nat /\ pc \in {"wait", "events"}
  BY DEF HeapInv, HeapTypes, DelayAssumption
<1>2. tm.pq \subseteq Timers /\ \A t \in tm.pq : tm.expire[t] \in Nat
  BY <1>1 DEF HTimers
<1>3. ASSUME UNCHANGED <<now, start, timeout, pc, batch, tm>> PROVE Waits'
  BY <1>3 DEF Waits
<1>4. CASE Heap!Advance
  <2>1. pc = "wait" /\ ~Heap!WaitIsOver
    BY <1>4 DEF Heap!Advance
  <2>2. timeout >= 0 => now < start + timeout
    BY <1>1, <2>1 DEF Heap!WaitIsOver
  <2>3. now' = now + 1 /\ UNCHANGED <<start, timeout, pc, batch, tm>>
    BY <1>4 DEF Heap!Advance
  <2>4. \A t \in tm.pq : tm.expire[t] <= now' + HeapDelay
    BY <1>1, <1>2, <2>3 DEF Waits
  <2>5. timeout >= 0 => now' <= start + timeout
    BY <1>1, <2>2, <2>3
  <2> QED
    BY <2>1, <2>3, <2>4, <2>5 DEF Waits
<1>5. CASE Heap!Connect
  BY <1>3, <1>5 DEF Heap!Connect, Heap!Input
<1>6. ASSUME NEW f \in Fds, Heap!Send(f) \/ Heap!HangUp(f) PROVE Waits'
  BY <1>3, <1>6 DEF Heap!Send, Heap!HangUp, Heap!Input
<1>7. CASE Heap!EpollWait
  <2>1. /\ pc = "wait" /\ pc' = "events" /\ batch' # {} /\ UNCHANGED <<now, start, timeout, tm>>
    BY <1>7 DEF Heap!EpollWait
  <2>2. \A t \in tm.pq : now <= tm.expire[t]
    <3> SUFFICES ASSUME NEW t \in tm.pq PROVE now <= tm.expire[t]
      OBVIOUS
    <3>1. timeout >= 0 /\ now <= start + timeout /\ start + timeout <= tm.expire[t]
      BY <2>1 DEF Waits
    <3> QED
      BY <1>1, <1>2, <3>1
  <2> QED
    BY <2>1, <2>2 DEF Waits
<1>8. CASE Heap!EndOfBatch
  <2>1. /\ pc = "events" /\ batch = {} /\ pc' = "wait" /\ start' = now
        /\ UNCHANGED <<now, timeout, batch, tm>>
    BY <1>8 DEF Heap!EndOfBatch
  <2>2. timeout >= 0 => now <= now + timeout
    BY <1>1
  <2> QED
    BY <2>1, <2>2 DEF Waits
<1>9. CASE Heap!Tick
  <2> DEFINE fired == {t \in tm.pq : tm.expire[t] <= now}
  <2>1. /\ pc' = "wait" /\ start' = now /\ now' = now /\ tm' \in HTimers
        /\ tm'.pq = tm.pq \ fired /\ tm'.expire = tm.expire
        /\ timeout' = IF tm'.pq = {} THEN -1 ELSE Heap!TopTime(tm') - now
    BY <1>9, TickTypes
  <2>2. \A t \in tm'.pq : /\ t \in Timers /\ tm.expire[t] \in Nat
                         /\ now < tm.expire[t] /\ tm.expire[t] <= now + HeapDelay
    BY <1>1, <1>2, <2>1 DEF Waits
  <2> HIDE DEF fired
  <2>3. CASE tm'.pq = {}
    BY <2>1, <2>3 DEF Waits
  <2>4. CASE tm'.pq # {}
    <3>1. PICK u \in tm'.pq : Heap!TopTime(tm') = tm'.expire[u]
      BY <2>1, <2>4, TopOfHeap
    <3>2. Heap!TopTime(tm') \in Nat /\ \A v \in tm'.pq : Heap!TopTime(tm') <= tm'.expire[v]
      BY <2>1, <2>4, TopOfHeap
    <3>3. timeout' = Heap!TopTime(tm') - now /\ timeout' \in 0 .. HeapDelay
      BY <1>1, <2>1, <2>2, <2>4, <3>1, <3>2
    <3>4. start' + timeout' = Heap!TopTime(tm') /\ now' <= start' + timeout'
      BY <1>1, <2>1, <3>2, <3>3
    <3>5. \A v \in tm'.pq : start' + timeout' <= tm'.expire[v] /\ tm'.expire[v] <= now' + HeapDelay
      BY <2>1, <2>2, <3>2, <3>4
    <3>6. timeout' >= 0
      BY <1>1, <3>3
    <3> QED
      BY <2>1, <3>3, <3>4, <3>5, <3>6 DEF Waits
  <2> QED
    BY <2>3, <2>4
<1>10. ASSUME NEW f \in Fds, NEW t \in Timers,
              Heap!Accept(f, t) \/ Heap!ReadData(f, t) \/ Heap!ReadEnd(f, t)
       PROVE  Waits'
  BY <1>10, EventWaits
<1> QED
  BY <1>4, <1>5, <1>6, <1>7, <1>8, <1>9, <1>10 DEF Heap!Next, Heap!Outside

(* Whichever server it is, it stays the same one. *)
LEMMA KindStays ==
    ASSUME [Next]_<<kind, vars>>
    PROVE  kind' = kind /\ (kind = "heap" => Heap!Next \/ UNCHANGED vars)
BY DEF Next

(* A step that changes nothing keeps what holds. *)
LEMMA HeapStutter ==
    ASSUME UNCHANGED vars
    PROVE  (HeapInv => HeapInv') /\ (Waits => Waits')
BY DEF vars, loop, HeapInv, HeapTypes, OwnTimers, Heap!Live, Waits

(* The server with the heap is sound in every reachable state. *)
LEMMA HeapSoundHolds == Spec => [](kind = "heap" => HeapInv)
<1>1. Init => (kind = "heap" => HeapInv)
  BY HeapInit DEF Init
<1>2. (kind = "heap" => HeapInv) /\ [Next]_<<kind, vars>> => (kind = "heap" => HeapInv)'
  BY LoopAssumption, DelayAssumption, KindStays, HeapStep, HeapStutter
<1> QED
  BY <1>1, <1>2, PTL DEF Spec

(* TimerPerConnection for the heap: whatever the order of connections,     *)
(* data, ends and ticks, every open connection has one timer with a        *)
(* callback, its own, there is no other, and no tick calls back a          *)
(* connection that is closed.                                              *)
THEOREM HeapTimerPerConnection == Spec => [](kind = "heap" => pc # "died" /\ Heap!Sound)
<1>1. ASSUME HeapInv, LoopAssumption PROVE pc # "died" /\ Heap!Sound
  <2>1. IsFiniteSet(open)
    BY <1>1, FS_Subset DEF LoopAssumption, HeapInv, HeapTypes
  <2> DEFINE own == [f \in open |-> timer[f]]
  <2>2. own \in Bijection(open, Heap!Live)
    <3>1. \A f \in open : own[f] \in Heap!Live /\ tm.owner[own[f]] = f
      BY <1>1 DEF HeapInv, OwnTimers
    <3>2. \A t \in Heap!Live : tm.owner[t] \in open /\ own[tm.owner[t]] = t
      BY <1>1 DEF HeapInv, OwnTimers
    <3>3. own \in [open -> Heap!Live]
      BY <3>1
    <3> HIDE DEF own
    <3> QED
      BY <3>1, <3>2, <3>3 DEF Bijection, Injection, Surjection, IsInjective
  <2>3. Cardinality(Heap!Live) = Cardinality(open)
    <3> HIDE DEF own
    <3> QED
      BY <2>1, <2>2, FS_Bijection DEF ExistsBijection
  <2> QED
    <3>1. pc # "died"
      BY <1>1 DEF HeapInv, HeapTypes
    <3>2. \A f \in open : timer[f] \in Heap!Live /\ tm.owner[timer[f]] = f
      BY <1>1 DEF HeapInv, OwnTimers
    <3>3. \A S : Heap!Cardinality(S) = Cardinality(S)
      BY Zenon DEF Cardinality, Heap!Cardinality, IsFiniteSet, Heap!IsFiniteSet
    <3> QED
      BY <2>3, <3>1, <3>2, <3>3 DEF Heap!Sound
<1> QED
  BY <1>1, LoopAssumption, HeapSoundHolds, PTL

(* HeapWaitEnds (server.cpp:116-123): if every batch of events is handled  *)
(* within its second, the heap's wait ends, and not after its first timer  *)
(* expires, for any TIMEOUT and any number of connections.                 *)
THEOREM HeapWaitEndsHolds == ASSUME ~Slow PROVE Spec => []HeapWaitEnds
<1>1. Init => (kind = "heap" => HeapInv /\ Waits)
  <2>1. Heap!Init => Waits
    BY DEF Heap!Init, Heap!InitLoop, Waits
  <2> QED
    BY <2>1, HeapInit DEF Init
<1>2. (kind = "heap" => HeapInv /\ Waits) /\ [Next]_<<kind, vars>> => (kind = "heap" => HeapInv /\ Waits)'
  BY LoopAssumption, DelayAssumption, KindStays, HeapStep, WaitsStep, HeapStutter
<1>3. (kind = "heap" => HeapInv /\ Waits) => HeapWaitEnds
  <2> SUFFICES ASSUME HeapInv, Waits, pc = "wait", tm.pq # {}
               PROVE  timeout >= 0 /\ start + timeout <= Heap!TopTime(tm)
    BY DEF HeapWaitEnds
  <2>1. tm \in HTimers
    BY DEF HeapInv, HeapTypes
  <2>2. PICK t \in tm.pq : Heap!TopTime(tm) = tm.expire[t]
    BY <2>1, TopOfHeap
  <2> QED
    BY <2>2 DEF Waits
<1> QED
  BY <1>1, <1>2, <1>3, PTL DEF Spec

-----------------------------------------------------------------------------
(* The refinement: the deadlines of IdleTimers.tla are when the timers of  *)
(* open connections expire.                                                *)
dueNow == Due("heap")

(* The deadlines of the server with the heap, one by one. *)
LEMMA DueValue ==
    ASSUME NEW f \in Fds
    PROVE  /\ DOMAIN dueNow = Fds
           /\ dueNow[f] = IF kind = "heap" /\ f \in open THEN tm.expire[timer[f]] ELSE Null
           /\ DOMAIN dueNow' = Fds
           /\ dueNow'[f] = IF kind' = "heap" /\ f \in open' THEN tm'.expire[timer'[f]] ELSE Null
BY DEF dueNow, Due

(* They are functions on the descriptors. *)
LEMMA DueDomain ==
    /\ dueNow = [f \in Fds |-> dueNow[f]]
    /\ dueNow' = [f \in Fds |-> dueNow'[f]]
BY DEF dueNow, Due

(* In every server time stands still or goes on by a second. *)
LEMMA TimePasses ==
    ASSUME Next
    PROVE  now' = now \/ now' = now + 1
<1>1. CASE List!Next
  BY <1>1 DEF List!Next, List!Outside, List!Advance, List!Connect, List!Send, List!HangUp, List!Input,
     List!EpollWait, List!EndOfBatch, List!Tick, List!TickCloses, List!ReadData, List!Bytes,
     List!ReadEnd, List!EndOfFile, List!Accept, List!NewConnection
<1>2. CASE Heap!Next
  BY <1>2 DEF Heap!Next, Heap!Outside, Heap!Advance, Heap!Connect, Heap!Send, Heap!HangUp, Heap!Input,
     Heap!EpollWait, Heap!EndOfBatch, Heap!Tick, Heap!TickCloses, Heap!ReadData, Heap!Bytes,
     Heap!ReadEnd, Heap!EndOfFile, Heap!Accept, Heap!NewConnection
<1>3. CASE Wheel!Next
  BY <1>3 DEF Wheel!Next, Wheel!Outside, Wheel!Advance, Wheel!Connect, Wheel!Send, Wheel!HangUp, Wheel!Input,
     Wheel!EpollWait, Wheel!EndOfBatch, Wheel!Tick, Wheel!TickCloses, Wheel!ReadData, Wheel!Bytes,
     Wheel!ReadEnd, Wheel!EndOfFile, Wheel!Accept, Wheel!NewConnection
<1> QED
  BY <1>1, <1>2, <1>3 DEF Next

(* A connection that arrives or sends something: its deadline is set. *)
LEMMA SetRefines ==
    ASSUME HeapInv, kind = "heap", kind' = "heap", now' = now, NEW f \in Fds, NEW t \in Timers,
           t \notin tm.pq, TimerSet(f, t)
    PROVE  HeapIT!Set(f)
<1>1. /\ open \subseteq Fds /\ timer \in [Fds -> Timers \union {Null}]
      /\ tm.expire \in [Timers -> Nat] /\ t \notin Heap!Live /\ Heap!Live \subseteq Timers
  BY DEF HeapInv, HeapTypes, HTimers, Heap!Live
<1>2. /\ timer' = [timer EXCEPT ![f] = t] /\ tm'.expire = [tm.expire EXCEPT ![t] = now + HeapDelay]
      /\ open' = open \union {f}
  BY DEF TimerSet
<1>3. \A g \in Fds : dueNow'[g] = IF g = f THEN now + HeapDelay ELSE dueNow[g]
  <2> SUFFICES ASSUME NEW g \in Fds PROVE dueNow'[g] = IF g = f THEN now + HeapDelay ELSE dueNow[g]
    OBVIOUS
  <2>1. /\ dueNow[g] = IF g \in open THEN tm.expire[timer[g]] ELSE Null
        /\ dueNow'[g] = IF g \in open' THEN tm'.expire[timer'[g]] ELSE Null
    BY DueValue
  <2>2. CASE g = f
    BY <1>1, <1>2, <2>1, <2>2
  <2>3. CASE g # f /\ g \in open
    <3>1. timer[g] \in Heap!Live
      BY <2>3 DEF HeapInv, OwnTimers
    <3>2. timer'[g] = timer[g] /\ timer[g] # t /\ timer[g] \in Timers /\ g \in open'
      BY <1>1, <1>2, <2>3, <3>1
    <3> QED
      BY <1>1, <1>2, <2>1, <2>3, <3>2
  <2>4. CASE g # f /\ g \notin open
    BY <1>2, <2>1, <2>4
  <2> QED
    BY <2>2, <2>3, <2>4
<1>4. dueNow' = [dueNow EXCEPT ![f] = now + HeapDelay]
  BY <1>3, DueDomain, DueValue
<1> QED
  BY <1>4 DEF HeapIT!Set, dueNow

(* A connection that its peer closes: its deadline goes. *)
LEMMA DropRefines ==
    ASSUME HeapInv, kind = "heap", kind' = "heap", now' = now, NEW f \in open, NEW t \in Timers,
           t \notin tm.pq, TimerDropped(f, t)
    PROVE  HeapIT!Drop(f)
<1>1. open \subseteq Fds /\ t \notin Heap!Live /\ Heap!Live \subseteq Timers
  BY DEF HeapInv, HeapTypes, HTimers, Heap!Live
<1>2. /\ \A g \in Fds \ {f} : timer'[g] = timer[g]
      /\ \A u \in Timers \ {t} : tm'.expire[u] = tm.expire[u]
      /\ open' = open \ {f}
  BY DEF TimerDropped
<1>3. \A g \in Fds : dueNow'[g] = IF g = f THEN Null ELSE dueNow[g]
  <2> SUFFICES ASSUME NEW g \in Fds PROVE dueNow'[g] = IF g = f THEN Null ELSE dueNow[g]
    OBVIOUS
  <2>1. /\ dueNow[g] = IF g \in open THEN tm.expire[timer[g]] ELSE Null
        /\ dueNow'[g] = IF g \in open' THEN tm'.expire[timer'[g]] ELSE Null
    BY DueValue
  <2>2. CASE g = f
    BY <1>2, <2>1, <2>2
  <2>3. CASE g # f /\ g \in open
    <3>1. timer[g] \in Heap!Live
      BY <2>3 DEF HeapInv, OwnTimers
    <3>2. timer'[g] = timer[g] /\ timer[g] # t /\ timer[g] \in Timers /\ g \in open'
      BY <1>1, <1>2, <2>3, <3>1
    <3> QED
      BY <1>2, <2>1, <2>3, <3>2
  <2>4. CASE g # f /\ g \notin open
    BY <1>2, <2>1, <2>4
  <2> QED
    BY <2>2, <2>3, <2>4
<1>4. dueNow' = [dueNow EXCEPT ![f] = Null]
  BY <1>1, <1>3, DueDomain, DueValue
<1> QED
  BY <1>4 DEF HeapIT!Drop, dueNow

(* A tick closes exactly the connections whose deadline has come. *)
LEMMA TickRefines ==
    ASSUME HeapInv, LoopAssumption, kind = "heap", kind' = "heap", Heap!Tick
    PROVE  HeapIT!Tick
<1> DEFINE fired == {t \in tm.pq : tm.expire[t] <= now}
           fds == {tm.owner[t] : t \in fired \intersect tm.callback}
<1>1. /\ open' = open \ fds /\ timer' = timer /\ tm'.expire = tm.expire /\ now' = now
  BY TickTypes
<1>2. /\ \A g \in open : timer[g] \in Heap!Live /\ tm.owner[timer[g]] = g
      /\ \A u \in Heap!Live : tm.owner[u] \in open /\ timer[tm.owner[u]] = u
  BY DEF HeapInv, OwnTimers
<1>3. tm.expire \in [Timers -> Nat] /\ Heap!Live \subseteq Timers /\ Null \notin Nat
  BY DEF HeapInv, HeapTypes, HTimers, Heap!Live, LoopAssumption
<1>4. \A g \in open : g \in fds <=> tm.expire[timer[g]] <= now
  <2> SUFFICES ASSUME NEW g \in open PROVE g \in fds <=> tm.expire[timer[g]] <= now
    OBVIOUS
  <2>1. timer[g] \in Heap!Live /\ tm.owner[timer[g]] = g /\ timer[g] \in tm.pq /\ timer[g] \in tm.callback
    BY <1>2 DEF Heap!Live
  <2>2. ASSUME tm.expire[timer[g]] <= now PROVE g \in fds
    BY <2>1, <2>2
  <2>3. ASSUME g \in fds PROVE tm.expire[timer[g]] <= now
    <3>1. PICK v \in fired \intersect tm.callback : g = tm.owner[v]
      BY <2>3
    <3>2. v \in Heap!Live
      BY <3>1 DEF Heap!Live
    <3>3. timer[g] = v
      BY <1>2, <3>1, <3>2
    <3> QED
      BY <3>1, <3>3
  <2> QED
    BY <2>2, <2>3
<1>5. \A g \in Fds : /\ dueNow[g] = IF g \in open THEN tm.expire[timer[g]] ELSE Null
                    /\ dueNow'[g] = IF g \in open' THEN tm'.expire[timer'[g]] ELSE Null
  BY DueValue
<1> HIDE DEF fds, fired
<1>6. \A g \in Fds : dueNow'[g] = IF dueNow[g] # Null /\ dueNow[g] <= now THEN Null ELSE dueNow[g]
  <2> SUFFICES ASSUME NEW g \in Fds
               PROVE  dueNow'[g] = IF dueNow[g] # Null /\ dueNow[g] <= now THEN Null ELSE dueNow[g]
    OBVIOUS
  <2>1. CASE g \in open
    <3>1. dueNow[g] = tm.expire[timer[g]] /\ tm.expire[timer[g]] \in Nat
      BY <1>2, <1>3, <1>5, <2>1
    <3>2. dueNow[g] # Null
      BY <1>3, <3>1
    <3>3. CASE dueNow[g] <= now
      <4>1. g \notin open'
        BY <1>1, <1>4, <2>1, <3>1, <3>3
      <4> QED
        BY <1>5, <3>2, <3>3, <4>1
    <3>4. CASE ~ (dueNow[g] <= now)
      <4>1. g \in open'
        BY <1>1, <1>4, <2>1, <3>1, <3>4
      <4> QED
        BY <1>1, <1>5, <3>1, <3>4, <4>1
    <3> QED
      BY <3>3, <3>4
  <2>2. CASE g \notin open
    BY <1>1, <1>5, <2>2
  <2> QED
    BY <2>1, <2>2
<1>7. dueNow' = [g \in Fds |-> IF dueNow[g] # Null /\ dueNow[g] <= now THEN Null ELSE dueNow[g]]
  BY <1>6, DueDomain
<1>8. HeapIT!Expired = {g \in Fds : dueNow[g] # Null /\ dueNow[g] <= now}
  BY DEF HeapIT!Expired, dueNow
<1>9. dueNow' = [g \in Fds |-> IF g \in HeapIT!Expired THEN Null ELSE dueNow[g]]
  BY <1>7, <1>8
<1> QED
  BY <1>1, <1>9 DEF HeapIT!Tick, dueNow

(* Every step is one of IdleTimers.tla or changes neither time nor deadlines. *)
LEMMA RefinedStep ==
    ASSUME now \in Nat, kind = "heap" => HeapInv, LoopAssumption, DelayAssumption, [Next]_<<kind, vars>>
    PROVE  [HeapIT!Next]_(HeapIT!vars)
<1>1. ASSUME now' = now, dueNow' = dueNow PROVE UNCHANGED HeapIT!vars
  BY <1>1 DEF HeapIT!vars, dueNow
<1>2. ASSUME now' = now + 1, dueNow' = dueNow PROVE HeapIT!Pass
  BY <1>2 DEF HeapIT!Pass, dueNow
<1>3. ASSUME UNCHANGED <<open, timer, tm, kind>> PROVE dueNow' = dueNow
  BY <1>3 DEF dueNow, Due
<1>4. CASE UNCHANGED <<kind, vars>>
  BY <1>1, <1>3, <1>4 DEF vars, loop
<1>5. CASE Next /\ kind # "heap"
  <2>1. kind' = kind
    BY <1>5 DEF Next
  <2>2. \A f \in Fds : dueNow'[f] = dueNow[f]
    BY <1>5, <2>1, DueValue
  <2>3. dueNow' = dueNow
    BY <2>2, DueDomain
  <2> QED
    BY <1>1, <1>2, <1>5, <2>3, TimePasses DEF HeapIT!Next
<1>6. CASE Next /\ kind = "heap"
  <2>1. Heap!Next /\ kind' = kind /\ kind' = "heap" /\ HeapInv
    BY <1>6 DEF Next
  <2>2. CASE Heap!Advance
    <3>1. now' = now + 1 /\ dueNow' = dueNow
      BY <1>3, <2>1, <2>2 DEF Heap!Advance
    <3> QED
      BY <1>2, <3>1 DEF HeapIT!Next
  <2>3. CASE Heap!Connect \/ (\E f \in Fds : Heap!Send(f) \/ Heap!HangUp(f)) \/ Heap!EpollWait \/ Heap!EndOfBatch
    <3>1. UNCHANGED <<now, open, timer, tm>>
      BY <2>3 DEF Heap!Connect, Heap!Send, Heap!HangUp, Heap!Input, Heap!EpollWait, Heap!EndOfBatch
    <3> QED
      BY <1>1, <1>3, <2>1, <3>1
  <2>4. CASE Heap!Tick
    BY <1>6, <2>1, <2>4, TickRefines DEF HeapIT!Next
  <2>5. ASSUME NEW f \in Fds, NEW t \in Timers, Heap!Accept(f, t) PROVE HeapIT!Next
    <3>1. now' = now /\ t \notin tm.pq /\ TimerSet(f, t)
      BY <2>1, <2>5, EventTypes, AcceptSets
    <3>2. HeapIT!Set(f)
      BY <1>6, <2>1, <3>1, SetRefines
    <3> QED
      BY <3>2 DEF HeapIT!Next
  <2>6. ASSUME NEW f \in Fds, NEW t \in Timers, Heap!ReadData(f, t) PROVE HeapIT!Next
    <3>1. now' = now /\ t \notin tm.pq /\ TimerSet(f, t)
      BY <2>1, <2>6, EventTypes, ReadDataSets
    <3>2. HeapIT!Set(f)
      BY <1>6, <2>1, <3>1, SetRefines
    <3> QED
      BY <3>2 DEF HeapIT!Next
  <2>7. ASSUME NEW f \in Fds, NEW t \in Timers, Heap!ReadEnd(f, t) PROVE HeapIT!Next
    <3>1. now' = now /\ t \notin tm.pq /\ f \in open /\ TimerDropped(f, t)
      BY <2>1, <2>7, EventTypes, ReadEndDrops
    <3>2. HeapIT!Drop(f)
      BY <1>6, <2>1, <3>1, DropRefines
    <3> QED
      BY <3>2 DEF HeapIT!Next
  <2> QED
    BY <2>1, <2>2, <2>3, <2>4, <2>5, <2>6, <2>7 DEF Heap!Next, Heap!Outside
<1> QED
  BY <1>4, <1>5, <1>6

(* Time is a number of seconds in each of the servers. *)
LEMMA NowIsNat == Spec => [](now \in Nat)
<1>1. Init => now \in Nat
  BY DEF Init, List!Init, List!InitLoop, Heap!Init, Heap!InitLoop, Wheel!Init, Wheel!InitLoop
<1>2. now \in Nat /\ [Next]_<<kind, vars>> => (now \in Nat)'
  BY TimePasses DEF vars, loop
<1> QED
  BY <1>1, <1>2, PTL DEF Spec

(* The server with the heap implements IdleTimers.tla: activity pushes a   *)
(* connection's deadline back, and a tick closes exactly the connections   *)
(* whose deadline has come, however many events, however they interleave   *)
(* with time, and though del_timer() only clears the callback.             *)
THEOREM HeapRefines == Spec => HeapIT!Spec
<1>1. Init => HeapIT!Init
  <2>1. ASSUME Init PROVE dueNow = [f \in Fds |-> Null]
    <3>1. kind = "heap" => open = {}
      BY <2>1 DEF Init, Heap!Init, Heap!InitLoop
    <3>2. \A f \in Fds : dueNow[f] = Null
      BY <3>1, DueValue
    <3> QED
      BY <3>2, DueDomain
  <2> QED
    BY <2>1 DEF HeapIT!Init, dueNow
<1>2. now \in Nat /\ (kind = "heap" => HeapInv) /\ [Next]_<<kind, vars>> => [HeapIT!Next]_(HeapIT!vars)
  BY LoopAssumption, DelayAssumption, RefinedStep
<1> QED
  BY <1>1, <1>2, NowIsNat, HeapSoundHolds, PTL DEF Spec, HeapIT!Spec

-----------------------------------------------------------------------------
(* The server with the list *)

ListP == INSTANCE TimerListProofs

(* What TimerList.tla asks of the memory of its Timer objects. *)
LEMMA Memory ==
    /\ ListP!IsFiniteSet(Timers) /\ Null \notin Timers
    /\ Null \notin Nat /\ Slot \in Nat /\ Slot >= 1
<1>1. IsFiniteSet(Timers) <=> ListP!IsFiniteSet(Timers)
  BY Zenon DEF IsFiniteSet, ListP!IsFiniteSet
<1> QED
  BY <1>1, LoopAssumption, DelayAssumption

LTimers ==
    [lst : ListP!Records, expire : [Timers -> Nat], owner : [Timers -> Fds \union {Null}],
     allocated : SUBSET Timers]

(* The types of what the server with the list keeps.  It never dies.       *)
ListTypes ==
    /\ now \in Nat
    /\ open \subseteq Fds /\ data \subseteq open /\ fin \subseteq open
    /\ tm \in LTimers
    /\ timer \in [Fds -> Timers \union {Null}]
    /\ pc \in {"wait", "events"}

(* An open connection's timer is allocated and its own, and an allocated   *)
(* timer is that of its connection, which is open.                         *)
ListOwners ==
    /\ \A f \in open : timer[f] \in tm.allocated /\ tm.owner[timer[f]] = f
    /\ \A t \in tm.allocated : tm.owner[t] \in open /\ timer[tm.owner[t]] = t

(* No timer expires later than one that is set now would. *)
NoneBeyond == \A t \in tm.allocated : tm.expire[t] <= now + 3 * Slot

ListInv ==
    /\ ListTypes /\ ListOwners /\ NoneBeyond
    /\ ListP!Holds(tm.lst, tm.expire, tm.allocated)

(* The operations of the list, as the server and as the proofs about them  *)
(* name them, are the same.                                                *)
LEMMA SameWalk ==
    ASSUME NEW l, NEW p
    PROVE  List!WalkFrom(l, p) = ListP!WalkFrom(l, p)
<1>1. List!Met(l, p) = ListP!Met(l, p)
  BY Zenon DEF List!Met, ListP!Met, List!Cardinality, ListP!Cardinality
<1> QED
  BY <1>1, Zenon DEF List!WalkFrom, ListP!WalkFrom, List!Cardinality, ListP!Cardinality

(* TimerList.tla means the same in the loop and in the module of its       *)
(* proofs: add_timer() with two arguments, ...                             *)
LEMMA SameAddAfter ==
    ASSUME NEW l, NEW ex, NEW t, NEW p
    PROVE  List!AddAfter(l, ex, t, p) = ListP!AddAfter(l, ex, t, p)
<1>1. List!Before(l, ex, t, p) = ListP!Before(l, ex, t, p)
  BY SameWalk, Zenon DEF List!Before, ListP!Before
<1> QED
  BY <1>1, Zenon DEF List!AddAfter, ListP!AddAfter

(* ... and the rest. *)
LEMMA SameList ==
    ASSUME NEW l, NEW ex, NEW t
    PROVE  /\ List!AddTimer(List!NewTimer(l, t), ex, t) = ListP!AddTimer(ListP!NewTimer(l, t), ex, t)
           /\ List!AdjustTimer(l, ex, t) = ListP!AdjustTimer(l, ex, t)
           /\ List!DelTimer(l, t) = ListP!DelTimer(l, t)
           /\ List!Expired(l, ex, t) = ListP!Expired(l, ex, t)
           /\ List!TickList(l, ex, t) = ListP!TickList(l, ex, t)
           /\ List!ListOf(l, ex, t) = ListP!ListOf(l, ex, t)
           /\ List!Empty = ListP!Empty
<1>1. List!NewTimer(l, t) = ListP!NewTimer(l, t)
  BY Zenon DEF List!NewTimer, ListP!NewTimer
<1>2. ASSUME NEW m PROVE List!AddTimer(m, ex, t) = ListP!AddTimer(m, ex, t)
  BY SameAddAfter, Zenon DEF List!AddTimer, ListP!AddTimer
<1>3. List!AddTimer(List!NewTimer(l, t), ex, t) = ListP!AddTimer(ListP!NewTimer(l, t), ex, t)
  BY <1>1, <1>2, Zenon
<1>4. List!AdjustTimer(l, ex, t) = ListP!AdjustTimer(l, ex, t)
  BY SameAddAfter, Zenon DEF List!AdjustTimer, ListP!AdjustTimer
<1>5. List!DelTimer(l, t) = ListP!DelTimer(l, t)
  BY Zenon DEF List!DelTimer, ListP!DelTimer
<1>6. List!Walk(l) = ListP!Walk(l)
  BY SameWalk, Zenon DEF List!Walk, ListP!Walk
<1>7. List!Expired(l, ex, t) = ListP!Expired(l, ex, t)
  BY <1>6, Zenon DEF List!Expired, ListP!Expired
<1>c. ASSUME NEW S PROVE List!Cardinality(S) = ListP!Cardinality(S)
  BY Zenon DEF List!Cardinality, ListP!Cardinality
<1>8. List!TickList(l, ex, t) = ListP!TickList(l, ex, t)
  BY <1>6, <1>7, <1>c DEF List!TickList, ListP!TickList
<1>9. List!ListOf(l, ex, t) = ListP!ListOf(l, ex, t)
  BY <1>6, <1>c DEF List!ListOf, ListP!ListOf
<1>10. List!Empty = ListP!Empty
  BY Zenon DEF List!Empty, ListP!Empty
<1> QED
  BY <1>3, <1>4, <1>5, <1>7, <1>8, <1>9, <1>10, Zenon

(* The fields of the timers. *)
LEMMA ListFields ==
    ASSUME ListInv
    PROVE  /\ ListP!Holds(tm.lst, tm.expire, tm.allocated)
           /\ tm.lst \in ListP!Records /\ tm.expire \in [Timers -> Nat]
           /\ tm.owner \in [Timers -> Fds \union {Null}] /\ tm.allocated \subseteq Timers
           /\ now \in Nat /\ open \subseteq Fds /\ data \subseteq open /\ fin \subseteq open
           /\ timer \in [Fds -> Timers \union {Null}] /\ now + 3 * Slot \in Nat
BY Memory DEF ListInv, ListTypes, LTimers

(* The server starts with an empty list. *)
LEMMA ListInit == ASSUME List!Init PROVE ListInv
<1>1. /\ tm = [lst |-> List!Empty, expire |-> [t \in Timers |-> 0], owner |-> [t \in Timers |-> Null],
               allocated |-> {}]
      /\ now = 0 /\ open = {} /\ data = {} /\ fin = {} /\ pc = "wait" /\ timer = [f \in Fds |-> Null]
  BY DEF List!Init, List!InitLoop
<1>2. /\ tm.lst = ListP!Empty /\ tm.expire = [t \in Timers |-> 0] /\ tm.allocated = {}
      /\ tm.owner = [t \in Timers |-> Null]
  BY <1>1, SameList
<1>3. ListP!Holds(tm.lst, tm.expire, tm.allocated)
  BY <1>2, Memory, ListP!EmptyHolds
<1>4. tm \in LTimers
  BY <1>1, <1>3, SameList DEF LTimers, ListP!Holds
<1> QED
  BY <1>1, <1>2, <1>3, <1>4 DEF ListInv, ListTypes, ListOwners, NoneBeyond

(* A step that leaves the list, the timers and their connections alone.    *)
LEMMA ListStays ==
    ASSUME ListInv, UNCHANGED <<tm, timer, open>>, now' = now \/ now' = now + 1,
           data' \subseteq open, fin' \subseteq open, pc' \in {"wait", "events"}
    PROVE  ListInv'
<1>1. now \in Nat /\ tm.expire \in [Timers -> Nat] /\ tm.allocated \subseteq Timers
  BY ListFields
<1>2. now' \in Nat /\ now <= now'
  BY <1>1
<1>3. NoneBeyond'
  <2>1. SUFFICES ASSUME NEW t \in tm.allocated PROVE tm.expire[t] <= now' + 3 * Slot
    BY DEF NoneBeyond
  <2>2. tm.expire[t] \in Nat /\ tm.expire[t] <= now + 3 * Slot
    BY <1>1, <2>1 DEF ListInv, NoneBeyond
  <2>3. \A a, b, c, d \in Nat : a <= b + 3 * d /\ b <= c => a <= c + 3 * d
    OBVIOUS
  <2> QED
    BY <1>1, <1>2, <2>2, <2>3, Memory
<1> QED
  BY <1>2, <1>3 DEF ListInv, ListTypes, ListOwners

(* A connection is accepted: its timer is new, and expires last of all.    *)
LEMMA ListAccept ==
    ASSUME ListInv, NEW f \in Fds, NEW t \in Timers, List!Accept(f, t)
    PROVE  /\ ListInv' /\ now' = now /\ f \notin open /\ t \notin tm.allocated
           /\ open' = open \union {f} /\ timer' = [timer EXCEPT ![f] = t]
           /\ tm'.expire = [tm.expire EXCEPT ![t] = now + 3 * Slot]
<1> DEFINE ex == [tm.expire EXCEPT ![t] = now + 3 * Slot]
           l == ListP!AddTimer(ListP!NewTimer(tm.lst, t), ex, t)
<1>t. /\ ListP!Holds(tm.lst, tm.expire, tm.allocated)
      /\ tm.lst \in ListP!Records /\ tm.expire \in [Timers -> Nat]
      /\ tm.owner \in [Timers -> Fds \union {Null}] /\ tm.allocated \subseteq Timers
      /\ now \in Nat /\ open \subseteq Fds /\ data \subseteq open /\ fin \subseteq open
      /\ timer \in [Fds -> Timers \union {Null}] /\ now + 3 * Slot \in Nat
      /\ ListOwners /\ NoneBeyond
  BY ListFields DEF ListInv
<1>1. /\ f \notin open /\ t \notin tm.allocated /\ now' = now /\ pc = "events" /\ pc' = pc
      /\ open' = open \union {f} /\ data' = data /\ fin' = fin
      /\ timer' = [timer EXCEPT ![f] = t]
  BY DEF List!Accept, List!NewConnection, List!Event, List!Rest
<1>2. tm' = [lst |-> l, expire |-> ex, owner |-> [tm.owner EXCEPT ![t] = f],
             allocated |-> tm.allocated \union {t}]
  BY SameList DEF List!Accept
<1> HIDE DEF l
<1>3. /\ ex \in [Timers -> Nat] /\ ex[t] = now + 3 * Slot
      /\ \A u \in tm.allocated : u # t /\ ex[u] = tm.expire[u]
  BY <1>t, <1>1
<1>4. ListP!Holds(l, ex, tm.allocated \union {t})
  <2>1. tm.lst.head # Null => tm.lst.head \in tm.allocated
    BY <1>t, Memory, ListP!HeadOfList
  <2>2. tm.lst.head # Null => ex[tm.lst.head] <= ex[t]
    BY <1>t, <1>3, <2>1 DEF NoneBeyond
  <2> QED
    BY <1>t, <1>1, <1>3, <2>2, Memory, ListP!AddKeepsList DEF l
<1>5. l \in ListP!Records
  BY <1>4 DEF ListP!Holds
<1> HIDE DEF ex
<1>6. /\ tm'.lst = l /\ tm'.expire = ex /\ tm'.owner = [tm.owner EXCEPT ![t] = f]
      /\ tm'.allocated = tm.allocated \union {t}
  BY <1>2
<1>7. tm' \in LTimers
  BY <1>t, <1>1, <1>2, <1>3, <1>5 DEF LTimers
<1>8. ListTypes'
  BY <1>t, <1>1, <1>7 DEF ListTypes
<1>9. ListOwners'
  <2>1. /\ tm'.owner[t] = f /\ \A u \in tm.allocated : u # t /\ tm'.owner[u] = tm.owner[u]
        /\ timer'[f] = t /\ \A g \in open : g # f /\ timer'[g] = timer[g]
    BY <1>t, <1>1, <1>6
  <2> QED
    BY <1>t, <1>1, <1>6, <2>1 DEF ListOwners
<1>10. NoneBeyond'
  <2>1. now + 3 * Slot <= now + 3 * Slot
    BY <1>t
  <2> QED
    BY <1>t, <1>1, <1>3, <1>6, <2>1 DEF NoneBeyond
<1>11. ListP!Holds(tm'.lst, tm'.expire, tm'.allocated)
  BY <1>4, <1>6
<1> QED
  BY <1>1, <1>6, <1>8, <1>9, <1>10, <1>11 DEF ListInv, ex

(* The timers once a connection's bytes are read. *)
LEMMA ListAdjusted ==
    ASSUME ListInv, NEW f \in open
    PROVE  LET new == List!Adjusted(f)
           IN  /\ timer[f] \in tm.allocated
               /\ new \in LTimers /\ new.owner = tm.owner /\ new.allocated = tm.allocated
               /\ new.expire = IF f \in data THEN [tm.expire EXCEPT ![timer[f]] = now + 3 * Slot]
                                ELSE tm.expire
               /\ ListP!Holds(new.lst, new.expire, new.allocated)
               /\ \A u \in new.allocated : new.expire[u] <= now + 3 * Slot
<1> DEFINE ex == [tm.expire EXCEPT ![timer[f]] = now + 3 * Slot]
           l == ListP!AdjustTimer(tm.lst, ex, timer[f])
           new == List!Adjusted(f)
<1>t. /\ ListP!Holds(tm.lst, tm.expire, tm.allocated)
      /\ tm.lst \in ListP!Records /\ tm.expire \in [Timers -> Nat]
      /\ tm.owner \in [Timers -> Fds \union {Null}] /\ tm.allocated \subseteq Timers
      /\ now + 3 * Slot \in Nat /\ tm \in LTimers
      /\ ListOwners /\ NoneBeyond
  BY ListFields DEF ListInv, ListTypes
<1>1. timer[f] \in tm.allocated
  BY <1>t DEF ListOwners
<1>2. CASE f \notin data
  <2>1. new = tm
    BY <1>2 DEF List!Adjusted
  <2> QED
    BY <1>t, <1>1, <1>2, <2>1 DEF NoneBeyond
<1>3. CASE f \in data
  <2>1. new = [tm EXCEPT !.expire = ex, !.lst = l]
    BY <1>3, SameList DEF List!Adjusted
  <2>2. /\ ex \in [Timers -> Nat] /\ ex[timer[f]] = now + 3 * Slot
        /\ \A u \in tm.allocated \ {timer[f]} : ex[u] = tm.expire[u]
    BY <1>t, <1>1
  <2>3. tm.expire[timer[f]] <= ex[timer[f]]
    BY <1>t, <1>1, <2>2 DEF NoneBeyond
  <2>4. ListP!Holds(l, ex, tm.allocated)
    BY <1>t, <1>1, <2>2, <2>3, Memory, ListP!AdjustKeepsList
  <2>5. l \in ListP!Records
    BY <2>4 DEF ListP!Holds
  <2>6. \A u \in tm.allocated : ex[u] <= now + 3 * Slot
    <3>1. now + 3 * Slot <= now + 3 * Slot
      BY <1>t
    <3> QED
      BY <1>t, <2>2, <3>1 DEF NoneBeyond
  <2> HIDE DEF l, new
  <2>7. new.lst = l /\ new.expire = ex /\ new.owner = tm.owner /\ new.allocated = tm.allocated /\ new \in LTimers
    BY <1>t, <2>1, <2>2, <2>5 DEF LTimers
  <2> QED
    BY <1>1, <1>3, <2>4, <2>6, <2>7 DEF new
<1> QED
  BY <1>2, <1>3

(* Bytes are read: the timer of the connection is put off. *)
LEMMA ListReadData ==
    ASSUME ListInv, NEW f \in Fds, List!ReadData(f)
    PROVE  /\ ListInv' /\ f \in open /\ UNCHANGED <<now, open, timer>>
           /\ tm'.expire = [tm.expire EXCEPT ![timer[f]] = now + 3 * Slot]
<1>t. ListTypes /\ ListOwners
  BY DEF ListInv
<1>1. /\ f \in data /\ pc' = pc /\ data' = data \ {f}
      /\ UNCHANGED <<now, open, fin, timer>>
      /\ tm' = List!Adjusted(f)
  BY DEF List!ReadData, List!Bytes, List!Event, List!Rest
<1>2. f \in open
  BY <1>t, <1>1 DEF ListTypes
<1>3. /\ tm' \in LTimers /\ tm'.owner = tm.owner /\ tm'.allocated = tm.allocated
      /\ tm'.expire = [tm.expire EXCEPT ![timer[f]] = now + 3 * Slot]
      /\ ListP!Holds(tm'.lst, tm'.expire, tm'.allocated)
      /\ \A u \in tm'.allocated : tm'.expire[u] <= now + 3 * Slot
  BY <1>1, <1>2, ListAdjusted
<1>4. ListTypes' /\ ListOwners' /\ NoneBeyond'
  BY <1>t, <1>1, <1>3 DEF ListTypes, ListOwners, NoneBeyond
<1> QED
  BY <1>1, <1>2, <1>3, <1>4 DEF ListInv

(* The end is read: the connection is closed and its timer deleted. *)
LEMMA ListReadEnd ==
    ASSUME ListInv, NEW f \in Fds, List!ReadEnd(f)
    PROVE  /\ ListInv' /\ f \in open /\ UNCHANGED <<now, timer>> /\ open' = open \ {f}
           /\ tm'.expire = IF f \in data THEN [tm.expire EXCEPT ![timer[f]] = now + 3 * Slot] ELSE tm.expire
<1> DEFINE new == List!Adjusted(f)
           l == ListP!DelTimer(new.lst, timer[f])
<1>t. ListTypes /\ ListOwners
  BY DEF ListInv
<1>1. /\ f \in fin /\ pc' = pc /\ data' = data \ {f} /\ open' = open \ {f} /\ fin' = fin \ {f}
      /\ UNCHANGED <<now, timer>>
      /\ tm' = [new EXCEPT !.lst = List!DelTimer(@, timer[f]), !.allocated = @ \ {timer[f]}]
  BY DEF List!ReadEnd, List!EndOfFile, List!Event, List!Rest, List!Close
<1>2. f \in open
  BY <1>t, <1>1 DEF ListTypes
<1>3. /\ timer[f] \in tm.allocated
      /\ new \in LTimers /\ new.owner = tm.owner /\ new.allocated = tm.allocated
      /\ new.expire = IF f \in data THEN [tm.expire EXCEPT ![timer[f]] = now + 3 * Slot] ELSE tm.expire
      /\ ListP!Holds(new.lst, new.expire, new.allocated)
      /\ \A u \in new.allocated : new.expire[u] <= now + 3 * Slot
  BY <1>2, ListAdjusted
<1>4. new.expire \in [Timers -> Nat]
  BY <1>3 DEF LTimers
<1> HIDE DEF new
<1>5. ListP!Holds(l, new.expire, new.allocated \ {timer[f]})
  BY <1>3, <1>4, Memory, ListP!DelKeepsList
<1>6. l \in ListP!Records /\ List!DelTimer(new.lst, timer[f]) = l
  BY <1>5, SameList DEF ListP!Holds
<1> HIDE DEF l
<1>7. /\ tm' \in LTimers /\ tm'.lst = l /\ tm'.expire = new.expire /\ tm'.owner = tm.owner
      /\ tm'.allocated = tm.allocated \ {timer[f]}
  BY <1>1, <1>3, <1>6 DEF LTimers
<1>8. ListTypes' /\ ListOwners'
  BY <1>t, <1>1, <1>2, <1>7 DEF ListTypes, ListOwners
<1>9. NoneBeyond'
  BY <1>1, <1>3, <1>7 DEF NoneBeyond
<1>10. ListP!Holds(tm'.lst, tm'.expire, tm'.allocated)
  BY <1>3, <1>5, <1>7
<1> QED
  BY <1>1, <1>2, <1>3, <1>7, <1>8, <1>9, <1>10 DEF ListInv

(* A tick: the timers that have expired go, with the connections that are  *)
(* theirs; these are open.                                                 *)
LEMMA ListTick ==
    ASSUME ListInv, List!Tick
    PROVE  LET fired == {t \in tm.allocated : tm.expire[t] <= now}
               fds == {tm.owner[t] : t \in fired}
           IN  ListInv' /\ open' = open \ fds /\ UNCHANGED <<now, timer>> /\ tm'.expire = tm.expire
<1> DEFINE fired == {t \in tm.allocated : tm.expire[t] <= now}
           fds == {tm.owner[t] : t \in fired}
           l == ListP!TickList(tm.lst, tm.expire, now)
<1>t. /\ ListP!Holds(tm.lst, tm.expire, tm.allocated)
      /\ tm.expire \in [Timers -> Nat] /\ now \in Nat /\ tm \in LTimers
      /\ ListOwners /\ NoneBeyond /\ ListTypes
  BY ListFields DEF ListInv, ListTypes
<1>1. List!Expired(tm.lst, tm.expire, now) = fired
  BY <1>t, SameList, Memory, ListP!TickFindsAll
<1>2. ListP!Holds(l, tm.expire, tm.allocated \ fired)
  BY <1>t, <1>1, SameList, Memory, ListP!TickKeepsList
<1>3. fds \subseteq open
  BY <1>t DEF ListOwners
<1>4. \A u \in tm.allocated : tm.owner[u] \in fds => u \in fired
  BY <1>t DEF ListOwners
<1> HIDE DEF fired, l
<1>5. /\ pc = "wait" /\ pc' = (IF fds \subseteq open THEN "wait" ELSE "died")
      /\ open' = open \ fds /\ data' = data \ fds /\ fin' = fin \ fds
      /\ UNCHANGED <<now, timer>>
      /\ tm' = [tm EXCEPT !.lst = l, !.allocated = @ \ fired]
  <2>1. List!TickList(tm.lst, tm.expire, now) = l
    BY SameList DEF l
  <2> QED
    BY <1>1, <2>1 DEF List!Tick, List!TickCloses, List!TimedOut, List!Close
<1>6. l \in ListP!Records
  BY <1>2 DEF ListP!Holds
<1>7. /\ tm' \in LTimers /\ tm'.lst = l /\ tm'.expire = tm.expire /\ tm'.owner = tm.owner
      /\ tm'.allocated = tm.allocated \ fired
  BY <1>t, <1>5, <1>6 DEF LTimers
<1>8. ListTypes' /\ NoneBeyond'
  BY <1>t, <1>3, <1>5, <1>7 DEF ListTypes, NoneBeyond
<1>9. ListOwners'
  <2>1. ASSUME NEW f \in open' PROVE timer[f] \in tm'.allocated /\ tm'.owner[timer[f]] = f
    <3>1. f \in open /\ f \notin fds /\ timer[f] \in tm.allocated /\ tm.owner[timer[f]] = f
      BY <1>t, <1>5, <2>1 DEF ListOwners
    <3>2. timer[f] \notin fired
      BY <3>1
    <3> QED
      BY <1>7, <3>1, <3>2
  <2>2. ASSUME NEW t \in tm'.allocated PROVE tm'.owner[t] \in open' /\ timer[tm'.owner[t]] = t
    <3>1. t \in tm.allocated /\ t \notin fired /\ tm.owner[t] \in open /\ timer[tm.owner[t]] = t
      BY <1>t, <1>7, <2>2 DEF ListOwners
    <3> QED
      BY <1>4, <1>5, <1>7, <3>1
  <2> QED
    BY <1>5, <2>1, <2>2 DEF ListOwners
<1>10. ListP!Holds(tm'.lst, tm'.expire, tm'.allocated)
  BY <1>2, <1>7
<1> QED
  BY <1>5, <1>7, <1>8, <1>9, <1>10 DEF ListInv, fired

(* Every step of the server with the list. *)
LEMMA ListStep ==
    ASSUME ListInv, List!Next \/ UNCHANGED vars
    PROVE  ListInv'
<1>1. ASSUME List!Outside \/ List!EpollWait \/ List!EndOfBatch \/ UNCHANGED vars PROVE ListInv'
  <2>1. /\ UNCHANGED <<tm, timer, open>> /\ (now' = now \/ now' = now + 1)
        /\ data' \subseteq open /\ fin' \subseteq open /\ pc' \in {"wait", "events"}
    BY <1>1 DEF List!Outside, List!Advance, List!Connect, List!Send, List!HangUp, List!Input,
       List!EpollWait, List!EndOfBatch, vars, loop, ListInv, ListTypes
  <2> QED
    BY <2>1, ListStays
<1>2. CASE List!Tick
  BY <1>2, ListTick
<1>3. ASSUME NEW f \in Fds, List!ReadData(f) \/ List!ReadEnd(f) PROVE ListInv'
  BY <1>3, ListReadData, ListReadEnd
<1>4. ASSUME NEW f \in Fds, NEW t \in Timers, List!Accept(f, t) PROVE ListInv'
  BY <1>4, ListAccept
<1> QED
  BY <1>1, <1>2, <1>3, <1>4 DEF List!Next

(* What the invariant is for. *)
LEMMA ListInvSound == ListInv => pc # "died" /\ List!Sound
<1> SUFFICES ASSUME ListInv PROVE pc # "died" /\ List!Sound
  OBVIOUS
<1> DEFINE own == [f \in open |-> timer[f]]
<1>1. ListP!ListOf(tm.lst, tm.expire, tm.allocated)
  BY ListFields, Memory, ListP!HoldsIsListOf
<1>2. List!ListOf(tm.lst, tm.expire, tm.allocated)
  BY <1>1, SameList
<1>3. own \in Bijection(open, tm.allocated)
  BY DEF ListInv, ListOwners, Bijection, Injection, Surjection, IsInjective
<1>4. IsFiniteSet(open) /\ ExistsBijection(open, tm.allocated)
  BY <1>3, LoopAssumption, FS_Subset DEF ListInv, ListTypes, ExistsBijection
<1>5. Cardinality(tm.allocated) = Cardinality(open)
  BY <1>4, FS_Bijection
<1>6. List!Cardinality(tm.allocated) = List!Cardinality(open)
  BY <1>5, Zenon DEF Cardinality, List!Cardinality
<1> QED
  BY <1>2, <1>6 DEF ListInv, ListTypes, ListOwners, List!Sound

(* Every behaviour of the server with the list, in the composition. *)
LEMMA ListSoundHolds == Spec => [](kind = "list" => ListInv)
<1>1. Init => (kind = "list" => ListInv)
  BY ListInit DEF Init
<1>2. (kind = "list" => ListInv) /\ [Next]_<<kind, vars>> => (kind = "list" => ListInv)'
  <2> SUFFICES ASSUME kind = "list" => ListInv, [Next]_<<kind, vars>>, kind' = "list" PROVE ListInv'
    OBVIOUS
  <2>1. kind = "list" /\ (List!Next \/ UNCHANGED vars)
    BY DEF Next
  <2> QED
    BY <2>1, ListStep
<1> QED
  BY <1>1, <1>2, PTL DEF Spec

(* The list of timerlist_epoll, in every reachable state: sorted, linked   *)
(* both ways, with one timer for each open connection, its own, and        *)
(* nothing else; so callback_func never meets a connection that is closed. *)
THEOREM ListTimerPerConnection == Spec => [](kind = "list" => pc # "died" /\ List!Sound)
<1>1. (kind = "list" => ListInv) => (kind = "list" => pc # "died" /\ List!Sound)
  BY ListInvSound
<1> QED
  BY <1>1, ListSoundHolds, PTL

(* The deadlines of the server with the list. *)
listDue == Due("list")

(* The deadlines, one by one. *)
LEMMA ListDueValue ==
    /\ DOMAIN listDue = Fds
    /\ \A f \in Fds : /\ listDue[f] = IF kind = "list" /\ f \in open THEN tm.expire[timer[f]] ELSE Null
                      /\ listDue'[f] = IF kind' = "list" /\ f \in open' THEN tm'.expire[timer'[f]] ELSE Null
    /\ listDue = [f \in Fds |-> listDue[f]] /\ listDue' = [f \in Fds |-> listDue'[f]]
BY DEF listDue, Due

(* If one of them changes, they are the old ones but for that one. *)
LEMMA ListDueSet ==
    ASSUME NEW f \in Fds, NEW d, \A g \in Fds : listDue'[g] = IF g = f THEN d ELSE listDue[g]
    PROVE  listDue' = [listDue EXCEPT ![f] = d]
<1> DEFINE new == [listDue EXCEPT ![f] = d]
<1>1. DOMAIN new = Fds /\ \A g \in Fds : new[g] = IF g = f THEN d ELSE listDue[g]
  BY ListDueValue
<1>2. new = [g \in Fds |-> new[g]]
  BY ListDueValue
<1> HIDE DEF new
<1>3. listDue' = [g \in Fds |-> listDue'[g]]
  BY ListDueValue
<1>4. [g \in Fds |-> listDue'[g]] = [g \in Fds |-> new[g]]
  BY <1>1
<1> QED
  BY <1>2, <1>3, <1>4 DEF new

(* To accept a connection sets its deadline. *)
LEMMA ListAcceptRefines ==
    ASSUME ListInv, kind = "list", kind' = "list", NEW f \in Fds, NEW t \in Timers, List!Accept(f, t)
    PROVE  ListIT!Set(f)
<1>1. /\ tm.expire \in [Timers -> Nat] /\ tm.allocated \subseteq Timers
      /\ timer \in [Fds -> Timers \union {Null}] /\ open \subseteq Fds /\ ListOwners
  BY ListFields DEF ListInv
<1>2. /\ f \notin open /\ t \notin tm.allocated /\ now' = now
      /\ open' = open \union {f} /\ timer' = [timer EXCEPT ![f] = t]
      /\ tm'.expire = [tm.expire EXCEPT ![t] = now + 3 * Slot]
  BY ListAccept
<1>3. /\ timer'[f] = t /\ tm'.expire[t] = now + 3 * Slot
      /\ \A g \in open : g # f /\ timer'[g] = timer[g] /\ timer[g] # t /\ timer[g] \in Timers
  BY <1>1, <1>2 DEF ListOwners
<1>4. \A g \in open : tm'.expire[timer'[g]] = tm.expire[timer[g]]
  BY <1>1, <1>2, <1>3
<1>5. \A g \in Fds : listDue'[g] = IF g = f THEN now + 3 * Slot ELSE listDue[g]
  BY <1>2, <1>3, <1>4, ListDueValue
<1>6. listDue' = [listDue EXCEPT ![f] = now + 3 * Slot]
  BY <1>5, ListDueSet
<1> QED
  BY <1>2, <1>6 DEF ListIT!Set, listDue

(* To read bytes sets it again. *)
LEMMA ListDataRefines ==
    ASSUME ListInv, kind = "list", kind' = "list", NEW f \in Fds, List!ReadData(f)
    PROVE  ListIT!Set(f)
<1>1. /\ tm.expire \in [Timers -> Nat] /\ tm.allocated \subseteq Timers /\ ListOwners
  BY ListFields DEF ListInv
<1>2. /\ f \in open /\ UNCHANGED <<now, open, timer>>
      /\ tm'.expire = [tm.expire EXCEPT ![timer[f]] = now + 3 * Slot]
  BY ListReadData
<1>3. /\ tm'.expire[timer[f]] = now + 3 * Slot
      /\ \A g \in open : g # f => timer[g] # timer[f] /\ timer[g] \in Timers
  BY <1>1, <1>2 DEF ListOwners
<1>4. \A g \in open : g # f => tm'.expire[timer'[g]] = tm.expire[timer[g]]
  BY <1>1, <1>2, <1>3
<1>5. \A g \in Fds : listDue'[g] = IF g = f THEN now + 3 * Slot ELSE listDue[g]
  BY <1>2, <1>3, <1>4, ListDueValue
<1>6. listDue' = [listDue EXCEPT ![f] = now + 3 * Slot]
  BY <1>5, ListDueSet
<1> QED
  BY <1>2, <1>6 DEF ListIT!Set, listDue

(* To read the end drops it. *)
LEMMA ListEndRefines ==
    ASSUME ListInv, kind = "list", kind' = "list", NEW f \in Fds, List!ReadEnd(f)
    PROVE  ListIT!Drop(f)
<1>1. /\ tm.expire \in [Timers -> Nat] /\ tm.allocated \subseteq Timers /\ ListOwners
  BY ListFields DEF ListInv
<1>2. /\ f \in open /\ open' = open \ {f} /\ UNCHANGED <<now, timer>>
      /\ tm'.expire = IF f \in data THEN [tm.expire EXCEPT ![timer[f]] = now + 3 * Slot] ELSE tm.expire
  BY ListReadEnd
<1>3. \A g \in open : g # f => timer[g] # timer[f] /\ timer[g] \in Timers
  BY <1>1, <1>2 DEF ListOwners
<1>4. \A g \in open : g # f => tm'.expire[timer'[g]] = tm.expire[timer[g]]
  BY <1>1, <1>2, <1>3
<1>5. \A g \in Fds : listDue'[g] = IF g = f THEN Null ELSE listDue[g]
  BY <1>2, <1>4, ListDueValue
<1>6. listDue' = [listDue EXCEPT ![f] = Null]
  BY <1>5, ListDueSet
<1> QED
  BY <1>2, <1>6 DEF ListIT!Drop, listDue

(* A tick closes the connections whose deadline has come. *)
LEMMA ListTickRefines ==
    ASSUME ListInv, kind = "list", kind' = "list", List!Tick
    PROVE  ListIT!Tick
<1> DEFINE fired == {t \in tm.allocated : tm.expire[t] <= now}
           fds == {tm.owner[t] : t \in fired}
<1>1. tm.expire \in [Timers -> Nat] /\ tm.allocated \subseteq Timers /\ open \subseteq Fds /\ ListOwners
  BY ListFields DEF ListInv
<1>2. open' = open \ fds /\ UNCHANGED <<now, timer>> /\ tm'.expire = tm.expire
  BY ListTick
<1>3. \A g \in open : g \in fds <=> tm.expire[timer[g]] <= now
  <2> SUFFICES ASSUME NEW g \in open PROVE g \in fds <=> tm.expire[timer[g]] <= now
    OBVIOUS
  <2>1. timer[g] \in tm.allocated /\ tm.owner[timer[g]] = g /\ \A u \in tm.allocated : timer[tm.owner[u]] = u
    BY <1>1 DEF ListOwners
  <2>2. ASSUME tm.expire[timer[g]] <= now PROVE g \in fds
    BY <2>1, <2>2
  <2>3. ASSUME g \in fds PROVE tm.expire[timer[g]] <= now
    <3>1. PICK v \in fired : g = tm.owner[v]
      BY <2>3
    <3>2. timer[g] = v
      BY <2>1, <3>1
    <3> QED
      BY <3>1, <3>2
  <2> QED
    BY <2>2, <2>3
<1> HIDE DEF fds, fired
<1>4. \A g \in Fds : listDue'[g] = IF listDue[g] # Null /\ listDue[g] <= now THEN Null ELSE listDue[g]
  <2> SUFFICES ASSUME NEW g \in Fds
               PROVE  listDue'[g] = IF listDue[g] # Null /\ listDue[g] <= now THEN Null ELSE listDue[g]
    OBVIOUS
  <2>1. CASE g \in open
    <3>1. listDue[g] = tm.expire[timer[g]] /\ tm.expire[timer[g]] \in Nat
      BY <1>1, <2>1, ListDueValue DEF ListOwners
    <3>2. listDue[g] # Null
      BY <3>1, Memory
    <3>3. CASE listDue[g] <= now
      <4>1. g \notin open'
        BY <1>2, <1>3, <2>1, <3>1, <3>3
      <4> QED
        BY <3>2, <3>3, <4>1, ListDueValue
    <3>4. CASE ~ (listDue[g] <= now)
      <4>1. g \in open'
        BY <1>2, <1>3, <2>1, <3>1, <3>4
      <4> QED
        BY <1>2, <3>1, <3>4, <4>1, ListDueValue
    <3> QED
      BY <3>3, <3>4
  <2>2. CASE g \notin open
    BY <1>2, <2>2, ListDueValue
  <2> QED
    BY <2>1, <2>2
<1>5. listDue' = [g \in Fds |-> IF listDue[g] # Null /\ listDue[g] <= now THEN Null ELSE listDue[g]]
  BY <1>4, ListDueValue
<1>6. ListIT!Expired = {g \in Fds : listDue[g] # Null /\ listDue[g] <= now}
  BY DEF ListIT!Expired, listDue
<1>7. listDue' = [g \in Fds |-> IF g \in ListIT!Expired THEN Null ELSE listDue[g]]
  BY <1>5, <1>6
<1> QED
  BY <1>2, <1>7 DEF ListIT!Tick, listDue

(* Every step is one of IdleTimers.tla, or changes neither the time nor a  *)
(* deadline of the server with the list.                                   *)
LEMMA ListRefinedStep ==
    ASSUME now \in Nat, kind = "list" => ListInv, [Next]_<<kind, vars>>
    PROVE  [ListIT!Next]_(ListIT!vars)
<1>1. ASSUME now' = now, listDue' = listDue PROVE UNCHANGED ListIT!vars
  BY <1>1 DEF ListIT!vars, listDue
<1>2. ASSUME now' = now + 1, listDue' = listDue PROVE ListIT!Next
  <2>1. now' > now
    BY <1>2
  <2> QED
    BY <1>2, <2>1 DEF ListIT!Next, ListIT!Pass, listDue
<1>3. ASSUME UNCHANGED <<open, timer, tm, kind>> PROVE listDue' = listDue
  BY <1>3 DEF listDue, Due
<1>4. CASE UNCHANGED <<kind, vars>>
  BY <1>1, <1>3, <1>4 DEF vars, loop
<1>5. CASE Next /\ kind # "list"
  <2>1. kind' = kind
    BY <1>5 DEF Next
  <2>2. \A f \in Fds : listDue'[f] = listDue[f]
    BY <1>5, <2>1, ListDueValue
  <2>3. listDue' = listDue
    BY <2>2, ListDueValue
  <2> QED
    BY <1>1, <1>2, <1>5, <2>3, TimePasses
<1>6. CASE Next /\ kind = "list"
  <2>1. List!Next /\ kind' = kind /\ kind' = "list" /\ ListInv
    BY <1>6 DEF Next
  <2>2. CASE List!Outside \/ List!EpollWait \/ List!EndOfBatch
    <3>1. UNCHANGED <<open, timer, tm>> /\ (now' = now \/ now' = now + 1)
      BY <2>2 DEF List!Outside, List!Advance, List!Connect, List!Send, List!HangUp, List!Input,
         List!EpollWait, List!EndOfBatch
    <3> QED
      BY <1>1, <1>2, <1>3, <2>1, <3>1
  <2>3. CASE List!Tick
    BY <1>6, <2>1, <2>3, ListTickRefines DEF ListIT!Next
  <2>4. ASSUME NEW f \in Fds, List!ReadData(f) \/ List!ReadEnd(f) PROVE ListIT!Next
    BY <1>6, <2>1, <2>4, ListDataRefines, ListEndRefines DEF ListIT!Next
  <2>5. ASSUME NEW f \in Fds, NEW t \in Timers, List!Accept(f, t) PROVE ListIT!Next
    BY <1>6, <2>1, <2>5, ListAcceptRefines DEF ListIT!Next
  <2> QED
    BY <2>1, <2>2, <2>3, <2>4, <2>5 DEF List!Next
<1> QED
  BY <1>4, <1>5, <1>6

(* The server with the list implements IdleTimers.tla: activity pushes a   *)
(* connection's deadline back, and a tick closes exactly the connections   *)
(* whose deadline has come.                                                *)
LEMMA ListRefines == Spec => ListIT!Spec
<1>1. Init => ListIT!Init
  <2>1. ASSUME Init PROVE listDue = [f \in Fds |-> Null]
    <3>1. kind = "list" => open = {}
      BY <2>1 DEF Init, List!Init, List!InitLoop
    <3>2. \A f \in Fds : listDue[f] = Null
      BY <3>1, ListDueValue
    <3> QED
      BY <3>2, ListDueValue
  <2> QED
    BY <2>1 DEF ListIT!Init, listDue
<1>2. now \in Nat /\ (kind = "list" => ListInv) /\ [Next]_<<kind, vars>> => [ListIT!Next]_(ListIT!vars)
  BY ListRefinedStep
<1> QED
  BY <1>1, <1>2, NowIsNat, ListSoundHolds, PTL DEF Spec, ListIT!Spec

(* Both implement it. *)
THEOREM ImplementsHolds == Spec => ImplementsIdleTimers
BY ListRefines, HeapRefines DEF ImplementsIdleTimers

-----------------------------------------------------------------------------
(* The server with the wheel *)

SlotNumbers == 0 .. Slots - 1

WTimers ==
    [slots : [SlotNumbers -> Timers \union {Null}], curr : SlotNumbers,
     next : [Timers -> Timers \union {Null}], prev : [Timers -> Timers \union {Null}],
     slot : [Timers -> SlotNumbers], rot : [Timers -> Nat], owner : [Timers -> Fds \union {Null}],
     allocated : SUBSET Timers, bad : BOOLEAN, stray : BOOLEAN]

(* The lists of the timers S at the slots: heads and links agree, and      *)
(* ranks ascend along next, so that no list is a ring.  The prev of a head *)
(* may be anything: nothing reads it.                                      *)
Ranked(w, S, r) ==
    /\ \A s \in SlotNumbers : w.slots[s] # Null => w.slots[s] \in S /\ w.slot[w.slots[s]] = s
    /\ \A t \in S : w.next[t] # Null =>
          /\ w.next[t] \in S /\ w.slot[w.next[t]] = w.slot[t] /\ w.slots[w.slot[t]] # w.next[t]
          /\ w.prev[w.next[t]] = t /\ r[t] < r[w.next[t]]
    /\ \A t \in S : w.slots[w.slot[t]] # t =>
          w.prev[t] \in S /\ w.slot[w.prev[t]] = w.slot[t] /\ w.next[w.prev[t]] = t

Chained(w, S) == \E r \in [Timers -> Nat] : Ranked(w, S, r)

(* What linking and unlinking leave alone. *)
SameTimers(u, w) ==
    /\ u.curr = w.curr /\ u.rot = w.rot /\ u.owner = w.owner
    /\ u.slot = w.slot /\ u.allocated = w.allocated

(* The fields of a wheel, one by one. *)
LEMMA WheelFields ==
    ASSUME NEW w \in WTimers
    PROVE  /\ w.slots \in [SlotNumbers -> Timers \union {Null}] /\ w.curr \in SlotNumbers
           /\ w.next \in [Timers -> Timers \union {Null}] /\ w.prev \in [Timers -> Timers \union {Null}]
           /\ w.slot \in [Timers -> SlotNumbers] /\ w.rot \in [Timers -> Nat]
           /\ w.owner \in [Timers -> Fds \union {Null}] /\ w.allocated \subseteq Timers
BY DEF WTimers

(* p->next = x changes that link, if p is allocated, and nothing else. *)
LEMMA SetNextIs ==
    ASSUME NEW w \in WTimers, NEW p \in Timers \union {Null}, NEW x \in Timers \union {Null}
    PROVE  LET u == Wheel!SetNext(w, p, x)
           IN  /\ u \in WTimers /\ SameTimers(u, w) /\ u.stray = w.stray
               /\ u.slots = w.slots /\ u.prev = w.prev
               /\ p \in w.allocated => u.next = [w.next EXCEPT ![p] = x] /\ u.bad = w.bad
<1> DEFINE u == Wheel!SetNext(w, p, x)
<1>1. CASE p \in w.allocated
  <2>1. u = [w EXCEPT !.next = [w.next EXCEPT ![p] = x]]
    BY <1>1 DEF Wheel!SetNext
  <2> HIDE DEF u
  <2> QED
    BY <1>1, <2>1 DEF WTimers, SameTimers, u
<1>2. CASE p \notin w.allocated
  <2>1. u = [w EXCEPT !.bad = TRUE]
    BY <1>2 DEF Wheel!SetNext
  <2> HIDE DEF u
  <2> QED
    BY <1>2, <2>1 DEF WTimers, SameTimers, u
<1> QED
  BY <1>1, <1>2

(* n->prev = x changes that link, if n is allocated, and nothing else. *)
LEMMA SetPrevIs ==
    ASSUME NEW w \in WTimers, NEW n \in Timers \union {Null}, NEW x \in Timers \union {Null}
    PROVE  LET u == Wheel!SetPrev(w, n, x)
           IN  /\ u \in WTimers /\ SameTimers(u, w) /\ u.stray = w.stray
               /\ u.slots = w.slots /\ u.next = w.next
               /\ n = Null => u.prev = w.prev /\ u.bad = w.bad
               /\ n \in w.allocated => u.prev = [w.prev EXCEPT ![n] = x] /\ u.bad = w.bad
<1> DEFINE u == Wheel!SetPrev(w, n, x)
<1>0. Null \notin w.allocated
  BY LoopAssumption DEF WTimers
<1>1. CASE n \in w.allocated
  <2>1. u = [w EXCEPT !.prev = [w.prev EXCEPT ![n] = x]]
    BY <1>0, <1>1 DEF Wheel!SetPrev
  <2> HIDE DEF u
  <2> QED
    BY <1>0, <1>1, <2>1 DEF WTimers, SameTimers, u
<1>2. CASE n = Null
  <2>1. u = w
    BY <1>0, <1>2 DEF Wheel!SetPrev
  <2> QED
    BY <1>0, <1>2, <2>1 DEF SameTimers
<1>3. CASE n \notin w.allocated /\ n # Null
  <2>1. u = [w EXCEPT !.bad = TRUE]
    BY <1>3 DEF Wheel!SetPrev
  <2> HIDE DEF u
  <2> QED
    BY <1>3, <2>1 DEF WTimers, SameTimers, u
<1> QED
  BY <1>1, <1>2, <1>3

(* Out of its list: what changes, whatever the links.                      *)
LEMMA UnlinkTypes ==
    ASSUME NEW w \in WTimers, NEW t \in Timers, NEW s \in SlotNumbers
    PROVE  LET u == Wheel!Unlink(w, t, s)
           IN  u \in WTimers /\ SameTimers(u, w) /\ u.stray = w.stray
<1> DEFINE n == w.next[t]
           p == w.prev[t]
           v == [w EXCEPT !.slots = [w.slots EXCEPT ![s] = n]]
           m == Wheel!SetNext(w, p, n)
<1>1. n \in Timers \union {Null} /\ p \in Timers \union {Null}
  BY WheelFields
<1>2. v \in WTimers /\ SameTimers(v, w) /\ v.stray = w.stray
  BY <1>1 DEF WTimers, SameTimers
<1>3. m \in WTimers /\ SameTimers(m, w) /\ m.stray = w.stray
  BY <1>1, SetNextIs
<1>4. Wheel!Unlink(w, t, s) = IF t = w.slots[s] THEN Wheel!SetPrev(v, n, Null) ELSE Wheel!SetPrev(m, n, p)
  BY DEF Wheel!Unlink
<1> HIDE DEF v, m
<1>5. \A x \in Timers \union {Null} : LET u == Wheel!SetPrev(v, n, x)
         IN  u \in WTimers /\ SameTimers(u, v) /\ u.stray = v.stray
  BY <1>1, <1>2, SetPrevIs
<1>6. \A x \in Timers \union {Null} : LET u == Wheel!SetPrev(m, n, x)
         IN  u \in WTimers /\ SameTimers(u, m) /\ u.stray = m.stray
  BY <1>1, <1>3, SetPrevIs
<1> QED
  BY <1>1, <1>2, <1>3, <1>4, <1>5, <1>6 DEF SameTimers

(* From lists without a stray link: it is out, and the others are linked.  *)
LEMMA UnlinkIs ==
    ASSUME NEW w \in WTimers, ~w.bad, NEW r \in [Timers -> Nat], Ranked(w, w.allocated, r),
           NEW t \in w.allocated
    PROVE  LET u == Wheel!Unlink(w, t, w.slot[t])
           IN  /\ ~u.bad /\ Ranked(u, w.allocated \ {t}, r)
               /\ u.next[t] = w.next[t] /\ u.slots[w.slot[t]] # t
<1> DEFINE s == w.slot[t]
           n == w.next[t]
           p == w.prev[t]
           S == w.allocated
           u == Wheel!Unlink(w, t, s)
<1>0. /\ w.slots \in [SlotNumbers -> Timers \union {Null}]
      /\ w.next \in [Timers -> Timers \union {Null}] /\ w.prev \in [Timers -> Timers \union {Null}]
      /\ w.slot \in [Timers -> SlotNumbers] /\ S \subseteq Timers
      /\ t \in Timers /\ s \in SlotNumbers /\ Null \notin Timers
      /\ n \in Timers \union {Null} /\ p \in Timers \union {Null}
  BY WheelFields, LoopAssumption
<1>1. n # Null => /\ n \in S /\ w.slot[n] = s /\ w.slots[s] # n /\ w.prev[n] = t /\ r[t] < r[n] /\ n # t
  BY <1>0 DEF Ranked
<1>2. CASE t = w.slots[s]
  <2> DEFINE v == [w EXCEPT !.slots = [w.slots EXCEPT ![s] = n]]
  <2>1. /\ v \in WTimers /\ v.slots = [w.slots EXCEPT ![s] = n] /\ ~v.bad
        /\ v.next = w.next /\ v.prev = w.prev /\ v.allocated = S /\ v.slot = w.slot
    BY <1>0 DEF WTimers
  <2>2. u = Wheel!SetPrev(v, n, Null)
    BY <1>2 DEF Wheel!Unlink
  <2> HIDE DEF v, u
  <2>3. /\ u.slots = [w.slots EXCEPT ![s] = n] /\ u.next = w.next /\ u.slot = w.slot
        /\ u.prev = (IF n = Null THEN w.prev ELSE [w.prev EXCEPT ![n] = Null]) /\ u.bad = v.bad
    <3>1. n \in v.allocated \/ n = Null
      BY <1>0, <1>1, <2>1
    <3>2. LET x == Wheel!SetPrev(v, n, Null)
          IN  /\ x \in WTimers /\ SameTimers(x, v) /\ x.stray = v.stray
              /\ x.slots = v.slots /\ x.next = v.next
              /\ n = Null => x.prev = v.prev /\ x.bad = v.bad
              /\ n \in v.allocated => x.prev = [v.prev EXCEPT ![n] = Null] /\ x.bad = v.bad
      BY <1>0, <2>1, SetPrevIs
    <3> QED
      BY <1>0, <1>1, <2>1, <2>2, <3>1, <3>2 DEF SameTimers
  <2>4. ~u.bad
    BY <2>1, <2>3
  <2>5. ASSUME NEW c \in SlotNumbers, u.slots[c] # Null
        PROVE  u.slots[c] \in S \ {t} /\ u.slot[u.slots[c]] = c
    BY <1>0, <1>1, <1>2, <2>3, <2>5 DEF Ranked
  <2>6. ASSUME NEW x \in S \ {t}, u.next[x] # Null
        PROVE  /\ u.next[x] \in S \ {t} /\ u.slot[u.next[x]] = u.slot[x]
               /\ u.slots[u.slot[x]] # u.next[x]
               /\ u.prev[u.next[x]] = x /\ r[x] < r[u.next[x]]
    <3>1. /\ w.next[x] \in S /\ w.slot[w.next[x]] = w.slot[x] /\ w.slots[w.slot[x]] # w.next[x]
          /\ w.prev[w.next[x]] = x /\ r[x] < r[w.next[x]]
      BY <2>3, <2>6 DEF Ranked
    <3>2. w.next[x] # t /\ w.next[x] # n
      BY <1>1, <1>2, <2>3, <2>6, <3>1
    <3> QED
      BY <1>0, <2>3, <3>1, <3>2
  <2>7. ASSUME NEW x \in S \ {t}, u.slots[u.slot[x]] # x
        PROVE  u.prev[x] \in S \ {t} /\ u.slot[u.prev[x]] = u.slot[x] /\ u.next[u.prev[x]] = x
    <3>1. x # n
      BY <1>0, <1>1, <2>3, <2>7
    <3>2. w.slots[w.slot[x]] # x
      BY <1>0, <1>2, <2>3, <2>7
    <3>3. w.prev[x] \in S /\ w.slot[w.prev[x]] = w.slot[x] /\ w.next[w.prev[x]] = x
      BY <3>2 DEF Ranked
    <3> QED
      BY <1>0, <2>3, <3>1, <3>3
  <2>8. u.slots[s] # t
    BY <1>0, <1>1, <2>3
  <2> QED
    BY <2>3, <2>4, <2>5, <2>6, <2>7, <2>8 DEF Ranked, u
<1>3. CASE t # w.slots[s]
  <2> DEFINE m == Wheel!SetNext(w, p, n)
  <2>1. p \in S /\ w.slot[p] = s /\ w.next[p] = t /\ p # t /\ r[p] < r[t]
    <3>1. p \in S /\ w.slot[p] = s /\ w.next[p] = t
      BY <1>3 DEF Ranked
    <3>2. r[p] < r[t] /\ r[p] \in Nat
      BY <1>0, <3>1 DEF Ranked
    <3> QED
      BY <3>1, <3>2
  <2>2. /\ m \in WTimers /\ m.slots = w.slots /\ m.bad = w.bad /\ m.slot = w.slot
        /\ m.next = [w.next EXCEPT ![p] = n] /\ m.prev = w.prev /\ m.allocated = S
    BY <1>0, <2>1, SetNextIs DEF SameTimers
  <2>3. u = Wheel!SetPrev(m, n, p)
    BY <1>3 DEF Wheel!Unlink
  <2> HIDE DEF m, u
  <2>4. /\ u.slots = w.slots /\ u.next = [w.next EXCEPT ![p] = n] /\ u.slot = w.slot
        /\ u.prev = (IF n = Null THEN w.prev ELSE [w.prev EXCEPT ![n] = p]) /\ u.bad = w.bad
    <3>1. n \in m.allocated \/ n = Null
      BY <1>0, <1>1, <2>2
    <3>2. LET x == Wheel!SetPrev(m, n, p)
          IN  /\ x \in WTimers /\ SameTimers(x, m) /\ x.stray = m.stray
              /\ x.slots = m.slots /\ x.next = m.next
              /\ n = Null => x.prev = m.prev /\ x.bad = m.bad
              /\ n \in m.allocated => x.prev = [m.prev EXCEPT ![n] = p] /\ x.bad = m.bad
      BY <1>0, <2>2, SetPrevIs
    <3> QED
      BY <1>0, <1>1, <2>2, <2>3, <3>1, <3>2 DEF SameTimers
  <2>5. ~u.bad
    BY <2>4
  <2>6. ASSUME NEW c \in SlotNumbers, u.slots[c] # Null
        PROVE  u.slots[c] \in S \ {t} /\ u.slot[u.slots[c]] = c
    BY <1>0, <1>3, <2>4, <2>6 DEF Ranked
  <2>7. ASSUME NEW x \in S \ {t}, u.next[x] # Null
        PROVE  /\ u.next[x] \in S \ {t} /\ u.slot[u.next[x]] = u.slot[x]
               /\ u.slots[u.slot[x]] # u.next[x]
               /\ u.prev[u.next[x]] = x /\ r[x] < r[u.next[x]]
    <3>1. CASE x = p
      <4>1. u.next[x] = n /\ n # Null
        BY <1>0, <2>1, <2>4, <2>7, <3>1
      <4>2. r[p] < r[n]
        <5>1. r[p] \in Nat /\ r[t] \in Nat /\ r[n] \in Nat
          BY <1>0, <1>1, <2>1, <4>1
        <5> QED
          BY <1>1, <2>1, <4>1, <5>1
      <4> QED
        BY <1>0, <1>1, <2>1, <2>4, <3>1, <4>1, <4>2
    <3>2. CASE x # p
      <4>1. u.next[x] = w.next[x]
        BY <1>0, <2>4, <3>2
      <4>2. /\ w.next[x] \in S /\ w.slot[w.next[x]] = w.slot[x] /\ w.slots[w.slot[x]] # w.next[x]
            /\ w.prev[w.next[x]] = x /\ r[x] < r[w.next[x]]
        BY <2>7, <4>1 DEF Ranked
      <4>3. w.next[x] # t /\ w.next[x] # n
        BY <1>1, <2>7, <3>2, <4>1, <4>2
      <4> QED
        BY <1>0, <2>4, <4>1, <4>2, <4>3
    <3> QED
      BY <3>1, <3>2
  <2>8. ASSUME NEW x \in S \ {t}, u.slots[u.slot[x]] # x
        PROVE  u.prev[x] \in S \ {t} /\ u.slot[u.prev[x]] = u.slot[x] /\ u.next[u.prev[x]] = x
    <3>1. w.prev[x] \in S /\ w.slot[w.prev[x]] = w.slot[x] /\ w.next[w.prev[x]] = x
      BY <2>4, <2>8 DEF Ranked
    <3>2. CASE x = n
      <4>1. u.prev[x] = p /\ u.next[p] = n
        BY <1>0, <1>1, <2>1, <2>4, <3>2
      <4> QED
        BY <1>0, <1>1, <2>1, <2>4, <2>8, <3>2, <4>1
    <3>3. CASE x # n
      <4>1. u.prev[x] = w.prev[x] /\ w.prev[x] # t /\ w.prev[x] # p
        BY <1>0, <2>1, <2>4, <3>1, <3>3
      <4> QED
        BY <1>0, <2>4, <3>1, <4>1
    <3> QED
      BY <3>2, <3>3
  <2>9. u.next[t] = n /\ u.slots[s] # t
    BY <1>0, <1>3, <2>1, <2>4
  <2> QED
    BY <2>5, <2>6, <2>7, <2>8, <2>9 DEF Ranked, u
<1> QED
  BY <1>2, <1>3

(* The slot that a timer is put into. *)
DueSlot(w) == (w.curr + WheelDelay) % Slots

(* It is a slot, and so is the next one to tick. *)
LEMMA DueSlotIs ==
    ASSUME NEW w \in WTimers
    PROVE  DueSlot(w) \in SlotNumbers /\ WheelDelay \div Slots \in Nat /\ (w.curr + 1) % Slots \in SlotNumbers
<1>1. Slots \in Nat /\ Slots > 0 /\ WheelDelay \in Nat /\ w.curr \in Nat
  BY WheelFields, DelayAssumption DEF SlotNumbers
<1> QED
  BY <1>1 DEF DueSlot, SlotNumbers

(* Into the head of it: what changes, whatever the links. *)
LEMMA PlaceTypes ==
    ASSUME NEW w \in WTimers, NEW t \in Timers
    PROVE  LET u == Wheel!Place(w, t)
               h == w.slots[DueSlot(w)]
           IN  /\ u \in WTimers /\ u.curr = w.curr /\ u.owner = w.owner /\ u.allocated = w.allocated
               /\ u.slot = [w.slot EXCEPT ![t] = DueSlot(w)]
               /\ u.slots = [w.slots EXCEPT ![DueSlot(w)] = t]
               /\ u.stray = (w.stray \/ (h = Null /\ w.next[t] # Null))
               /\ h = Null => u.next = w.next /\ u.prev = w.prev /\ u.bad = w.bad
               /\ h \in w.allocated => /\ u.next = [w.next EXCEPT ![t] = h]
                                       /\ u.prev = [w.prev EXCEPT ![h] = t] /\ u.bad = w.bad
<1> DEFINE ts == DueSlot(w)
           h == w.slots[ts]
           rots == [w.rot EXCEPT ![t] = WheelDelay \div Slots]
           v == [w EXCEPT !.slot = [w.slot EXCEPT ![t] = ts], !.rot = rots,
                          !.slots = [w.slots EXCEPT ![ts] = t],
                          !.stray = w.stray \/ (h = Null /\ w.next[t] # Null)]
           m == [v EXCEPT !.next = [w.next EXCEPT ![t] = h]]
           u == Wheel!Place(w, t)
<1>1. ts \in SlotNumbers /\ WheelDelay \div Slots \in Nat
  BY DueSlotIs
<1>2. h \in Timers \union {Null} /\ rots \in [Timers -> Nat] /\ Null \notin w.allocated
  BY <1>1, WheelFields, LoopAssumption
<1>3. u = IF h = Null THEN v ELSE Wheel!SetPrev(m, h, t)
  BY DEF Wheel!Place, DueSlot, WTimers
<1> HIDE DEF u, rots, ts
<1>4. /\ v \in WTimers /\ v.curr = w.curr /\ v.owner = w.owner /\ v.allocated = w.allocated
      /\ v.slot = [w.slot EXCEPT ![t] = ts] /\ v.slots = [w.slots EXCEPT ![ts] = t]
      /\ v.stray = (w.stray \/ (h = Null /\ w.next[t] # Null))
      /\ v.next = w.next /\ v.prev = w.prev /\ v.bad = w.bad
  BY <1>1, <1>2 DEF WTimers
<1>5. /\ m \in WTimers /\ m.curr = w.curr /\ m.owner = w.owner /\ m.allocated = w.allocated
      /\ m.slot = [w.slot EXCEPT ![t] = ts] /\ m.slots = [w.slots EXCEPT ![ts] = t]
      /\ m.stray = (w.stray \/ (h = Null /\ w.next[t] # Null))
      /\ m.next = [w.next EXCEPT ![t] = h] /\ m.prev = w.prev /\ m.bad = w.bad
  BY <1>1, <1>2 DEF WTimers
<1> HIDE DEF v, m
<1>6. CASE h = Null
  BY <1>2, <1>3, <1>4, <1>6 DEF ts, u
<1>7. CASE h # Null
  <2>1. LET x == Wheel!SetPrev(m, h, t)
        IN  /\ x \in WTimers /\ SameTimers(x, m) /\ x.stray = m.stray
            /\ x.slots = m.slots /\ x.next = m.next
            /\ h = Null => x.prev = m.prev /\ x.bad = m.bad
            /\ h \in m.allocated => x.prev = [m.prev EXCEPT ![h] = t] /\ x.bad = m.bad
    BY <1>2, <1>5, SetPrevIs
  <2> QED
    BY <1>2, <1>3, <1>5, <1>7, <2>1 DEF ts, u, SameTimers
<1> QED
  BY <1>6, <1>7

(* From lists without a stray link, unless it leaves one: the timer heads  *)
(* its slot.                                                               *)
LEMMA PlaceIs ==
    ASSUME NEW w \in WTimers, ~w.bad, NEW t \in w.allocated, NEW r \in [Timers -> Nat],
           Ranked(w, w.allocated \ {t}, r), ~Wheel!Place(w, t).stray
    PROVE  ~Wheel!Place(w, t).bad /\ Chained(Wheel!Place(w, t), w.allocated)
<1> DEFINE ts == DueSlot(w)
           h == w.slots[ts]
           u == Wheel!Place(w, t)
           S == w.allocated \ {t}
           q == [x \in Timers |-> IF x = t THEN 0 ELSE r[x] + 1]
<1>0. /\ w.slots \in [SlotNumbers -> Timers \union {Null}]
      /\ w.next \in [Timers -> Timers \union {Null}] /\ w.prev \in [Timers -> Timers \union {Null}]
      /\ w.slot \in [Timers -> SlotNumbers] /\ S \subseteq Timers
      /\ t \in Timers /\ ts \in SlotNumbers /\ Null \notin Timers /\ h \in Timers \union {Null}
  BY WheelFields, LoopAssumption, DueSlotIs
<1>1. h # Null => h \in S /\ w.slot[h] = ts
  BY <1>0 DEF Ranked
<1>2. /\ u.slot = [w.slot EXCEPT ![t] = ts] /\ u.slots = [w.slots EXCEPT ![ts] = t]
      /\ u.stray = (w.stray \/ (h = Null /\ w.next[t] # Null))
      /\ h = Null => u.next = w.next /\ u.prev = w.prev /\ u.bad = w.bad
      /\ h \in w.allocated => /\ u.next = [w.next EXCEPT ![t] = h]
                              /\ u.prev = [w.prev EXCEPT ![h] = t] /\ u.bad = w.bad
  BY <1>0, PlaceTypes
<1> HIDE DEF u, ts
<1>3. ~u.bad
  BY <1>1, <1>2
<1>4. h = Null => w.next[t] = Null
  BY <1>2 DEF u
<1>5. /\ u.next = IF h = Null THEN w.next ELSE [w.next EXCEPT ![t] = h]
      /\ u.prev = IF h = Null THEN w.prev ELSE [w.prev EXCEPT ![h] = t]
  BY <1>1, <1>2
<1>6. q \in [Timers -> Nat] /\ q[t] = 0 /\ \A x \in S : q[x] = r[x] + 1 /\ r[x] \in Nat
  BY <1>0
<1> HIDE DEF q
<1>7. ASSUME NEW c \in SlotNumbers, u.slots[c] # Null
      PROVE  u.slots[c] \in w.allocated /\ u.slot[u.slots[c]] = c
  <2>1. CASE c = ts
    BY <1>0, <1>2, <2>1
  <2>2. CASE c # ts
    <3>1. u.slots[c] = w.slots[c] /\ w.slots[c] \in S /\ w.slot[w.slots[c]] = c
      BY <1>0, <1>2, <1>7, <2>2 DEF Ranked
    <3> QED
      BY <1>0, <1>2, <3>1
  <2> QED
    BY <2>1, <2>2
<1>8. ASSUME NEW x \in w.allocated, u.next[x] # Null
      PROVE  /\ u.next[x] \in w.allocated /\ u.slot[u.next[x]] = u.slot[x]
             /\ u.slots[u.slot[x]] # u.next[x]
             /\ u.prev[u.next[x]] = x /\ q[x] < q[u.next[x]]
  <2>1. CASE x = t
    <3>1. h # Null /\ u.next[x] = h
      BY <1>0, <1>4, <1>5, <1>8, <2>1
    <3>2. u.slot[h] = ts /\ u.slot[t] = ts /\ u.slots[ts] = t /\ h # t /\ u.prev[h] = t
      BY <1>0, <1>1, <1>2, <1>5, <3>1
    <3>3. q[t] < q[h]
      BY <1>1, <1>6, <3>1
    <3> QED
      BY <1>1, <2>1, <3>1, <3>2, <3>3
  <2>2. CASE x # t
    <3>1. x \in S /\ u.next[x] = w.next[x]
      BY <1>0, <1>5, <2>2
    <3>2. /\ w.next[x] \in S /\ w.slot[w.next[x]] = w.slot[x] /\ w.slots[w.slot[x]] # w.next[x]
          /\ w.prev[w.next[x]] = x /\ r[x] < r[w.next[x]]
      BY <1>8, <3>1 DEF Ranked
    <3>3. w.next[x] # h
      BY <1>1, <1>8, <3>1, <3>2
    <3>4. u.slot[w.next[x]] = w.slot[x] /\ u.slot[x] = w.slot[x] /\ u.prev[w.next[x]] = x
      BY <1>0, <1>2, <1>5, <2>2, <3>2, <3>3
    <3>5. u.slots[w.slot[x]] # w.next[x]
      BY <1>0, <1>2, <3>2
    <3>6. q[x] < q[w.next[x]]
      BY <1>6, <3>1, <3>2
    <3> QED
      BY <3>1, <3>2, <3>4, <3>5, <3>6
  <2> QED
    BY <2>1, <2>2
<1>9. ASSUME NEW x \in w.allocated, u.slots[u.slot[x]] # x
      PROVE  u.prev[x] \in w.allocated /\ u.slot[u.prev[x]] = u.slot[x] /\ u.next[u.prev[x]] = x
  <2>1. x # t /\ x \in S /\ u.slot[x] = w.slot[x]
    BY <1>0, <1>2, <1>9
  <2>2. CASE x = h
    BY <1>0, <1>1, <1>2, <1>5, <2>1, <2>2
  <2>3. CASE x # h
    <3>1. w.slots[w.slot[x]] # x
      BY <1>0, <1>2, <1>9, <2>1, <2>3
    <3>2. w.prev[x] \in S /\ w.slot[w.prev[x]] = w.slot[x] /\ w.next[w.prev[x]] = x
      BY <2>1, <3>1 DEF Ranked
    <3>3. u.prev[x] = w.prev[x]
      BY <1>0, <1>5, <2>1, <2>3
    <3> QED
      BY <1>0, <1>2, <1>5, <2>1, <3>2, <3>3
  <2> QED
    BY <2>2, <2>3
<1>10. Ranked(u, w.allocated, q)
  BY <1>7, <1>8, <1>9 DEF Ranked
<1> QED
  BY <1>3, <1>6, <1>10 DEF Chained, u

(* The wheel as long as no link is astray.                                 *)
Clean(w) == ~w.stray => ~w.bad /\ Chained(w, w.allocated)

(* add_timer() and the assignments to the new object *)
LEMMA AddTWIs ==
    ASSUME NEW w \in WTimers, Clean(w), NEW t \in Timers, t \notin w.allocated, NEW f \in Fds
    PROVE  LET u == Wheel!AddTW(w, t, f)
           IN  /\ u \in WTimers /\ Clean(u) /\ u.allocated = w.allocated \union {t}
               /\ u.owner = [w.owner EXCEPT ![t] = f]
<1> DEFINE v == [w EXCEPT !.next = [w.next EXCEPT ![t] = Null], !.prev = [w.prev EXCEPT ![t] = Null],
                          !.owner = [w.owner EXCEPT ![t] = f], !.allocated = w.allocated \union {t}]
           u == Wheel!AddTW(w, t, f)
<1>0. /\ w.slots \in [SlotNumbers -> Timers \union {Null}]
      /\ w.next \in [Timers -> Timers \union {Null}] /\ w.prev \in [Timers -> Timers \union {Null}]
      /\ w.slot \in [Timers -> SlotNumbers] /\ w.allocated \subseteq Timers
      /\ w.owner \in [Timers -> Fds \union {Null}]
  BY WheelFields
<1>1. u = Wheel!Place(v, t)
  BY DEF Wheel!AddTW
<1>2. /\ v \in WTimers /\ v.bad = w.bad /\ v.stray = w.stray /\ v.slots = w.slots /\ v.slot = w.slot
      /\ v.owner = [w.owner EXCEPT ![t] = f] /\ v.allocated = w.allocated \union {t}
      /\ v.next = [w.next EXCEPT ![t] = Null] /\ v.prev = [w.prev EXCEPT ![t] = Null]
  BY <1>0 DEF WTimers
<1> HIDE DEF v, u
<1>3. /\ u \in WTimers /\ u.owner = v.owner /\ u.allocated = v.allocated
      /\ u.stray = (v.stray \/ (v.slots[DueSlot(v)] = Null /\ v.next[t] # Null))
  BY <1>1, <1>2, PlaceTypes
<1>4. Clean(u)
  <2>1. SUFFICES ASSUME ~u.stray PROVE ~u.bad /\ Chained(u, u.allocated)
    BY DEF Clean
  <2>2. ~w.stray /\ ~v.bad
    BY <1>2, <1>3, <2>1 DEF Clean
  <2>3. PICK r \in [Timers -> Nat] : Ranked(w, w.allocated, r)
    BY <2>2 DEF Clean, Chained
  <2>4. Ranked(v, w.allocated, r)
    BY <1>0, <1>2, <2>3 DEF Ranked
  <2>5. t \in v.allocated /\ v.allocated \ {t} = w.allocated
    BY <1>2
  <2> QED
    BY <1>1, <1>2, <1>3, <2>1, <2>2, <2>4, <2>5, PlaceIs
<1> QED
  BY <1>2, <1>3, <1>4 DEF u

(* adjust_timer() *)
LEMMA AdjustTWIs ==
    ASSUME NEW w \in WTimers, Clean(w), NEW t \in w.allocated
    PROVE  LET u == Wheel!AdjustTW(w, t)
           IN  u \in WTimers /\ Clean(u) /\ u.allocated = w.allocated /\ u.owner = w.owner
<1> DEFINE v == Wheel!Unlink(w, t, w.slot[t])
           u == Wheel!AdjustTW(w, t)
<1>0. t \in Timers /\ w.slot[t] \in SlotNumbers
  BY WheelFields
<1>1. u = Wheel!Place(v, t)
  BY DEF Wheel!AdjustTW
<1>2. v \in WTimers /\ v.stray = w.stray /\ v.owner = w.owner /\ v.allocated = w.allocated
  BY <1>0, UnlinkTypes DEF SameTimers
<1>3. ~w.bad => \A r \in [Timers -> Nat] :
        Ranked(w, w.allocated, r) => ~v.bad /\ Ranked(v, w.allocated \ {t}, r)
  BY UnlinkIs
<1> HIDE DEF v, u
<1>4. /\ u \in WTimers /\ u.owner = v.owner /\ u.allocated = v.allocated
      /\ u.stray = (v.stray \/ (v.slots[DueSlot(v)] = Null /\ v.next[t] # Null))
  BY <1>0, <1>1, <1>2, PlaceTypes
<1>5. Clean(u)
  <2>1. SUFFICES ASSUME ~u.stray PROVE ~u.bad /\ Chained(u, u.allocated)
    BY DEF Clean
  <2>2. ~w.stray /\ ~w.bad
    BY <1>2, <1>4, <2>1 DEF Clean
  <2>3. PICK r \in [Timers -> Nat] : Ranked(w, w.allocated, r)
    BY <2>2 DEF Clean, Chained
  <2>4. ~v.bad /\ Ranked(v, v.allocated \ {t}, r)
    BY <1>2, <1>3, <2>2, <2>3
  <2> QED
    BY <1>1, <1>2, <1>4, <2>1, <2>4, PlaceIs
<1> QED
  BY <1>2, <1>4, <1>5 DEF u

(* Out of its list and freed; a timer's own next is as it was. *)
LEMMA RemoveTWIs ==
    ASSUME NEW w \in WTimers, Clean(w), NEW t \in w.allocated, NEW s \in SlotNumbers,
           ~w.stray => s = w.slot[t]
    PROVE  LET u == Wheel!Free(Wheel!Unlink(w, t, s), t)
           IN  /\ u \in WTimers /\ Clean(u) /\ u.allocated = w.allocated \ {t}
               /\ u.curr = w.curr /\ u.owner = w.owner /\ u.slot = w.slot /\ u.stray = w.stray
<1> DEFINE v == Wheel!Unlink(w, t, s)
           u == Wheel!Free(v, t)
<1>0. t \in Timers
  BY WheelFields
<1>1. u = [v EXCEPT !.allocated = v.allocated \ {t}]
  BY DEF Wheel!Free
<1>2. v \in WTimers /\ v.stray = w.stray /\ v.owner = w.owner /\ v.allocated = w.allocated
      /\ v.curr = w.curr /\ v.slot = w.slot
  BY <1>0, UnlinkTypes DEF SameTimers
<1>3. ~w.bad /\ ~w.stray => \A r \in [Timers -> Nat] :
        Ranked(w, w.allocated, r) => ~v.bad /\ Ranked(v, w.allocated \ {t}, r)
  BY UnlinkIs
<1> HIDE DEF v, u
<1>4. /\ u \in WTimers /\ u.stray = v.stray /\ u.owner = v.owner /\ u.allocated = w.allocated \ {t}
      /\ u.curr = v.curr /\ u.slot = v.slot /\ u.slots = v.slots /\ u.next = v.next /\ u.prev = v.prev
      /\ u.bad = v.bad
  BY <1>1, <1>2 DEF WTimers
<1>5. Clean(u)
  <2>1. SUFFICES ASSUME ~u.stray PROVE ~u.bad /\ Chained(u, u.allocated)
    BY DEF Clean
  <2>2. ~w.stray /\ ~w.bad
    BY <1>2, <1>4, <2>1 DEF Clean
  <2>3. PICK r \in [Timers -> Nat] : Ranked(w, w.allocated, r)
    BY <2>2 DEF Clean, Chained
  <2>4. ~v.bad /\ Ranked(v, w.allocated \ {t}, r)
    BY <1>3, <2>2, <2>3
  <2>5. Ranked(u, u.allocated, r)
    BY <1>4, <2>4 DEF Ranked
  <2> QED
    BY <1>4, <2>4, <2>5 DEF Chained
<1>6. u.stray = w.stray
  BY <1>2, <1>4
<1>7. u.curr = w.curr /\ u.owner = w.owner /\ u.slot = w.slot
  BY <1>2, <1>4
<1> QED
  BY <1>4, <1>5, <1>6, <1>7 DEF u, v

(* del_timer() *)
LEMMA DelTWIs ==
    ASSUME NEW w \in WTimers, Clean(w), NEW t \in w.allocated
    PROVE  LET u == Wheel!DelTW(w, t)
           IN  u \in WTimers /\ Clean(u) /\ u.allocated = w.allocated \ {t} /\ u.owner = w.owner
<1>1. t \in Timers /\ w.slot[t] \in SlotNumbers
  BY WheelFields
<1> QED
  BY <1>1, RemoveTWIs DEF Wheel!DelTW

-----------------------------------------------------------------------------
(* There is a function that starts with a and goes on with F. *)
Iterable(V, F, a, N) ==
    \E g \in [0 .. N -> V] : g[0] = a /\ \A i \in 1 .. N : g[i] = F[g[i - 1]]

(* Such a function there is, for every length. *)
LEMMA Iterates ==
    ASSUME NEW V, NEW F \in [V -> V], NEW a \in V, NEW N \in Nat
    PROVE  Iterable(V, F, a, N)
<1> DEFINE Goes(g, n) == g[0] = a /\ \A i \in 1 .. n : g[i] = F[g[i - 1]]
           Bad == {n \in 0 .. N : ~ \E g \in [0 .. n -> V] : Goes(g, n)}
<1>1. SUFFICES ASSUME Bad # {} PROVE FALSE
  <2>1. N \in 0 .. N
    OBVIOUS
  <2> QED
    BY <1>1, <2>1 DEF Iterable
<1>2. Bad \in SUBSET Nat
  OBVIOUS
<1> HIDE DEF Bad
<1>3. PICK n \in Bad : \A m \in Bad : n <= m
  BY <1>1, <1>2, LeastElement
<1> USE DEF Bad
<1>4. n # 0
  <2>1. SUFFICES ASSUME n = 0 PROVE FALSE
    OBVIOUS
  <2> DEFINE g == [i \in 0 .. 0 |-> a]
  <2>2. g \in [0 .. n -> V] /\ Goes(g, n)
    BY <2>1
  <2> QED
    BY <1>3, <2>2
<1>5. n \in Nat /\ n - 1 \in 0 .. N /\ n - 1 \notin Bad
  <2>1. n \in 0 .. N
    BY <1>3
  <2> HIDE DEF Bad
  <2> QED
    BY <1>3, <1>4, <2>1
<1>6. PICK g \in [0 .. n - 1 -> V] : Goes(g, n - 1)
  BY <1>5
<1> DEFINE h == [i \in 0 .. n |-> IF i = n THEN F[g[n - 1]] ELSE g[i]]
<1>7. n - 1 \in 0 .. n - 1 /\ \A i \in 0 .. n : i # n => i \in 0 .. n - 1
  BY <1>4, <1>5
<1>8. h \in [0 .. n -> V]
  BY <1>6, <1>7
<1>9. h[0] = a
  BY <1>4, <1>5, <1>6
<1>10. ASSUME NEW i \in 1 .. n PROVE h[i] = F[h[i - 1]]
  <2>1. i - 1 \in 0 .. n - 1 /\ i - 1 # n /\ i - 1 \in 0 .. n /\ i \in 0 .. n
    BY <1>5
  <2>2. h[i - 1] = g[i - 1]
    BY <2>1
  <2>3. CASE i = n
    BY <2>1, <2>2, <2>3
  <2>4. CASE i # n
    BY <1>6, <2>1, <2>2, <2>4
  <2> QED
    BY <2>3, <2>4
<1> HIDE DEF h
<1> QED
  BY <1>3, <1>8, <1>9, <1>10

-----------------------------------------------------------------------------
(* tick(): what its loop has after some rounds, from the wheel w0.         *)
Visits == [w : WTimers, tmp : Timers \union {Null}, fired : SUBSET (Fds \union {Null})]

Ticking(v, w0) ==
    /\ v.w.curr = w0.curr /\ v.w.owner = w0.owner /\ v.w.allocated \subseteq w0.allocated
    /\ v.fired = {w0.owner[t] : t \in w0.allocated \ v.w.allocated}
    /\ Clean(v.w)
    /\ ~v.w.stray /\ v.tmp # Null => v.tmp \in v.w.allocated /\ v.w.slot[v.tmp] = v.w.curr

(* One round keeps it. *)
LEMMA VisitIs ==
    ASSUME NEW v \in Visits, NEW w0 \in WTimers, Ticking(v, w0)
    PROVE  Wheel!Visit(v) \in Visits /\ Ticking(Wheel!Visit(v), w0)
<1> DEFINE w == v.w
           t == v.tmp
           u == Wheel!Visit(v)
<1>0. /\ w \in WTimers /\ t \in Timers \union {Null} /\ v.fired \subseteq Fds \union {Null}
      /\ v = [w |-> w, tmp |-> t, fired |-> v.fired]
      /\ w.allocated \subseteq Timers /\ Null \notin Timers
  BY WheelFields, LoopAssumption DEF Visits
<1>1. CASE t = Null \/ w.bad
  <2>1. u = v
    BY <1>0, <1>1 DEF Wheel!Visit
  <2> QED
    BY <2>1
<1>2. CASE t # Null /\ ~w.bad /\ t \notin w.allocated
  <2> DEFINE x == [w EXCEPT !.bad = TRUE]
  <2>1. u = [w |-> x, tmp |-> t, fired |-> v.fired]
    BY <1>0, <1>2 DEF Wheel!Visit, Visits
  <2>2. /\ x \in WTimers /\ x.curr = w.curr /\ x.owner = w.owner /\ x.allocated = w.allocated
        /\ x.stray = w.stray
    BY <1>0 DEF WTimers
  <2>3. w.stray
    BY <1>2 DEF Ticking
  <2> HIDE DEF x, u
  <2>4. u \in Visits /\ u.w = x /\ u.tmp = t /\ u.fired = v.fired
    BY <1>0, <2>1, <2>2 DEF Visits
  <2>5. Clean(x) /\ x.stray
    BY <2>2, <2>3 DEF Clean
  <2> QED
    BY <2>2, <2>4, <2>5 DEF Ticking, u
<1>3. CASE ~w.bad /\ t \in w.allocated /\ w.rot[t] > 0
  <2> DEFINE x == [w EXCEPT !.rot = [w.rot EXCEPT ![t] = w.rot[t] - 1]]
             n == w.next[t]
  <2>1. u = [w |-> x, tmp |-> n, fired |-> v.fired]
    BY <1>0, <1>3 DEF Wheel!Visit, Visits, WTimers
  <2>2. w.rot \in [Timers -> Nat] /\ w.rot[t] - 1 \in Nat /\ n \in Timers \union {Null}
    BY <1>0, <1>3, WheelFields
  <2>3. /\ x \in WTimers /\ x.curr = w.curr /\ x.owner = w.owner /\ x.allocated = w.allocated
        /\ x.slot = w.slot /\ x.slots = w.slots /\ x.next = w.next /\ x.prev = w.prev
        /\ x.bad = w.bad /\ x.stray = w.stray
    BY <1>0, <2>2 DEF WTimers
  <2>4. ~w.stray /\ n # Null => n \in w.allocated /\ w.slot[n] = w.curr
    <3>1. SUFFICES ASSUME ~w.stray, n # Null PROVE n \in w.allocated /\ w.slot[n] = w.curr
      OBVIOUS
    <3>2. PICK r \in [Timers -> Nat] : Ranked(w, w.allocated, r)
      BY <3>1 DEF Ticking, Clean, Chained
    <3>3. w.slot[t] = w.curr
      BY <1>3, <1>0, <3>1 DEF Ticking
    <3> QED
      BY <1>3, <3>1, <3>2, <3>3 DEF Ranked
  <2> HIDE DEF x, u, n
  <2>5. u \in Visits /\ u.w = x /\ u.tmp = n /\ u.fired = v.fired
    BY <1>0, <2>1, <2>2, <2>3 DEF Visits
  <2>6. Clean(x)
    <3>1. SUFFICES ASSUME ~x.stray PROVE ~x.bad /\ Chained(x, x.allocated)
      BY DEF Clean
    <3>2. PICK r \in [Timers -> Nat] : Ranked(w, w.allocated, r)
      BY <2>3, <3>1 DEF Ticking, Clean, Chained
    <3>3. Ranked(x, x.allocated, r)
      BY <2>3, <3>2 DEF Ranked
    <3> QED
      BY <1>3, <2>3, <3>3 DEF Chained
  <2>7. ~x.stray => ~w.stray
    BY <2>3
  <2> QED
    BY <2>3, <2>4, <2>5, <2>6, <2>7 DEF Ticking, u
<1>4. CASE ~w.bad /\ t \in w.allocated /\ ~(w.rot[t] > 0)
  <2> DEFINE x == Wheel!Free(Wheel!Unlink(w, t, w.curr), t)
             n == w.next[t]
             f == w.owner[t]
  <2>1. u = [w |-> x, tmp |-> n, fired |-> v.fired \union {f}]
    BY <1>0, <1>4 DEF Wheel!Visit
  <2>2. w.curr \in SlotNumbers /\ n \in Timers \union {Null} /\ f \in Fds \union {Null}
    BY <1>0, <1>4, WheelFields
  <2>3. ~w.stray => w.curr = w.slot[t]
    BY <1>0, <1>4 DEF Ticking
  <2>4. Clean(w)
    BY DEF Ticking
  <2>5. /\ x \in WTimers /\ Clean(x) /\ x.allocated = w.allocated \ {t}
        /\ x.curr = w.curr /\ x.owner = w.owner /\ x.slot = w.slot /\ x.stray = w.stray
    BY <1>0, <1>4, <2>2, <2>3, <2>4, RemoveTWIs
  <2>6. ~w.stray /\ n # Null => n \in w.allocated \ {t} /\ w.slot[n] = w.curr
    <3>1. SUFFICES ASSUME ~w.stray, n # Null PROVE n \in w.allocated \ {t} /\ w.slot[n] = w.curr
      OBVIOUS
    <3>2. PICK r \in [Timers -> Nat] : Ranked(w, w.allocated, r)
      BY <2>4, <3>1 DEF Clean, Chained
    <3>3. n \in w.allocated /\ w.slot[n] = w.slot[t] /\ r[t] < r[n]
      BY <1>4, <3>1, <3>2 DEF Ranked
    <3>4. r[t] \in Nat /\ ~(r[t] < r[t])
      BY <1>0, <1>4, <3>2
    <3> QED
      BY <2>3, <3>1, <3>3, <3>4
  <2> HIDE DEF x, u, n, f
  <2>7. u \in Visits /\ u.w = x /\ u.tmp = n /\ u.fired = v.fired \union {f}
    BY <1>0, <2>1, <2>2, <2>5 DEF Visits
  <2>8. u.fired = {w0.owner[y] : y \in w0.allocated \ x.allocated}
    <3>1. w0.allocated \ x.allocated = (w0.allocated \ w.allocated) \union {t} /\ f = w0.owner[t]
      BY <1>4, <2>5 DEF Ticking, f
    <3>2. v.fired = {w0.owner[y] : y \in w0.allocated \ w.allocated}
      BY DEF Ticking
    <3> QED
      BY <2>7, <3>1, <3>2
  <2>9. ~x.stray => ~w.stray
    BY <2>5
  <2>10. x.curr = w0.curr /\ x.owner = w0.owner /\ x.allocated \subseteq w0.allocated
    BY <2>5 DEF Ticking
  <2> QED
    BY <2>5, <2>6, <2>7, <2>8, <2>9, <2>10 DEF Ticking, u
<1> QED
  BY <1>0, <1>1, <1>2, <1>3, <1>4

(* Cardinality is the same in the instance of the wheel. *)
LEMMA SameCardinality == ASSUME NEW S PROVE Wheel!Cardinality(S) = Cardinality(S)
BY Zenon DEF Wheel!Cardinality, Cardinality

(* There is a number of timers. *)
LEMMA TimerCount == Cardinality(Timers) \in Nat
BY LoopAssumption, FS_CardinalityType

(* Every round of tick() leaves what the next one starts from. *)
LEMMA RoundsAre ==
    ASSUME NEW w \in WTimers, Clean(w)
    PROVE  LET end == Wheel!Rounds(w)[Wheel!Cardinality(Timers) + 1]
           IN  end \in Visits /\ Ticking(end, w)
<1> DEFINE N == Wheel!Cardinality(Timers) + 1
           V == {v \in Visits : Ticking(v, w)}
           a == [w |-> w, tmp |-> w.slots[w.curr], fired |-> {}]
           F == [v \in V |-> Wheel!Visit(v)]
           Fits(g) == g = [i \in 0 .. N |-> IF i = 0 THEN a ELSE Wheel!Visit(g[i - 1])]
<1>1. N \in Nat
  BY TimerCount, SameCardinality
<1>2. Wheel!Rounds(w) = CHOOSE g : Fits(g)
  BY DEF Wheel!Rounds
<1> HIDE DEF N
<1>3. a \in V
  <2>1. /\ w.slots \in [SlotNumbers -> Timers \union {Null}] /\ w.curr \in SlotNumbers
        /\ w.allocated \subseteq Timers
    BY WheelFields
  <2>2. a \in Visits /\ a.w = w /\ a.tmp = w.slots[w.curr] /\ a.fired = {}
    BY <2>1 DEF Visits
  <2> HIDE DEF a
  <2>3. ~w.stray /\ a.tmp # Null => a.tmp \in w.allocated /\ w.slot[a.tmp] = w.curr
    <3>1. SUFFICES ASSUME ~w.stray, a.tmp # Null PROVE a.tmp \in w.allocated /\ w.slot[a.tmp] = w.curr
      OBVIOUS
    <3>2. PICK r \in [Timers -> Nat] : Ranked(w, w.allocated, r)
      BY <3>1 DEF Clean, Chained
    <3> QED
      BY <2>1, <2>2, <3>1, <3>2 DEF Ranked
  <2> QED
    BY <2>2, <2>3 DEF Ticking
<1>4. F \in [V -> V] /\ \A v \in V : Wheel!Visit(v) \in V /\ F[v] = Wheel!Visit(v)
  BY VisitIs
<1> HIDE DEF V, a, F
<1>5. PICK g \in [0 .. N -> V] : g[0] = a /\ \A i \in 1 .. N : g[i] = F[g[i - 1]]
  <2>1. F \in [V -> V]
    BY <1>4
  <2>2. Iterable(V, F, a, N)
    BY <1>1, <1>3, <2>1, Iterates
  <2> QED
    BY <2>2 DEF Iterable
<1>6. Fits(g)
  <2>1. ASSUME NEW i \in 0 .. N PROVE g[i] = IF i = 0 THEN a ELSE Wheel!Visit(g[i - 1])
    <3>1. i # 0 => i \in 1 .. N /\ i - 1 \in 0 .. N
      BY <1>1
    <3> QED
      BY <1>4, <1>5, <3>1
  <2>2. g = [i \in 0 .. N |-> g[i]]
    BY <1>5
  <2> QED
    BY <2>1, <2>2
<1> HIDE DEF Fits
<1>7. Fits(Wheel!Rounds(w))
  BY <1>2, <1>6, Zenon
<1> USE DEF Fits
<1> DEFINE R == Wheel!Rounds(w)
<1>8. R[0] = a /\ \A i \in 1 .. N : R[i] = Wheel!Visit(R[i - 1])
  <2>1. \A i \in 0 .. N : R[i] = IF i = 0 THEN a ELSE Wheel!Visit(R[i - 1])
    BY <1>7
  <2> HIDE DEF R
  <2> QED
    BY <1>1, <2>1
<1> HIDE DEF R, Fits
<1>9. \A i \in 0 .. N : R[i] \in V
  <2> DEFINE Bad == {i \in 0 .. N : R[i] \notin V}
  <2>1. SUFFICES ASSUME Bad # {} PROVE FALSE
    OBVIOUS
  <2>2. Bad \in SUBSET Nat
    BY <1>1
  <2> HIDE DEF Bad
  <2>3. PICK i \in Bad : \A j \in Bad : i <= j
    BY <2>1, <2>2, LeastElement
  <2>4. i \in 0 .. N /\ R[i] \notin V
    BY <2>3 DEF Bad
  <2>5. i # 0
    BY <1>3, <1>8, <2>4
  <2>6. i \in 1 .. N /\ i - 1 \in 0 .. N /\ i - 1 \notin Bad
    BY <1>1, <2>3, <2>4, <2>5
  <2>7. R[i - 1] \in V
    BY <2>6 DEF Bad
  <2> QED
    BY <1>4, <1>8, <2>4, <2>6, <2>7
<1>10. R[N] \in V
  BY <1>1, <1>9
<1> QED
  BY <1>10 DEF V, N, R

(* tick(): some timers go, and their connections are called back. *)
LEMMA TickTWIs ==
    ASSUME NEW w \in WTimers, Clean(w)
    PROVE  LET done == Wheel!TickTW(w)
           IN  /\ done.w \in WTimers /\ Clean(done.w) /\ done.w.owner = w.owner
               /\ done.w.allocated \subseteq w.allocated
               /\ done.fired = {w.owner[t] : t \in w.allocated \ done.w.allocated}
<1> DEFINE end == Wheel!Rounds(w)[Wheel!Cardinality(Timers) + 1]
           x == [end.w EXCEPT !.curr = (end.w.curr + 1) % Slots]
           done == Wheel!TickTW(w)
<1>1. end \in Visits /\ Ticking(end, w)
  BY RoundsAre
<1>2. done = [w |-> x, fired |-> end.fired]
  BY DEF Wheel!TickTW
<1> HIDE DEF end, done
<1>3. end.w \in WTimers /\ (end.w.curr + 1) % Slots \in SlotNumbers
  BY <1>1, DueSlotIs DEF Visits
<1>4. /\ x \in WTimers /\ x.owner = end.w.owner /\ x.allocated = end.w.allocated
      /\ x.slot = end.w.slot /\ x.slots = end.w.slots /\ x.next = end.w.next /\ x.prev = end.w.prev
      /\ x.bad = end.w.bad /\ x.stray = end.w.stray
  BY <1>3 DEF WTimers
<1> HIDE DEF x
<1>5. Clean(x)
  <2>1. SUFFICES ASSUME ~x.stray PROVE ~x.bad /\ Chained(x, x.allocated)
    BY DEF Clean
  <2>2. ~end.w.bad /\ Chained(end.w, end.w.allocated)
    BY <1>1, <1>4, <2>1 DEF Ticking, Clean
  <2>3. PICK r \in [Timers -> Nat] : Ranked(end.w, end.w.allocated, r)
    BY <2>2 DEF Chained
  <2>4. Ranked(x, x.allocated, r)
    BY <1>4, <2>3 DEF Ranked
  <2> QED
    BY <1>4, <2>2, <2>4 DEF Chained
<1>6. done.w = x /\ done.fired = end.fired
  BY <1>2
<1> QED
  BY <1>1, <1>4, <1>5, <1>6 DEF Ticking, done

(* No timer's list is without it: going back from a timer ends at the head *)
(* of its slot, and going on from there takes no more steps than there are *)
(* timers.                                                                 *)
LEMMA ChainIs ==
    ASSUME NEW w \in WTimers, Chained(w, w.allocated), NEW t \in w.allocated
    PROVE  t \in Wheel!Chain(w, w.slot[t])
<1> DEFINE C == Wheel!Cardinality(Timers)
           s == w.slot[t]
           P == Timers \union {Null}
           F == [p \in P |-> IF p = Null THEN Null ELSE w.next[p]]
           Fits(g) == g = [i \in 0 .. C |-> IF i = 0 THEN w.slots[s]
                                             ELSE IF g[i - 1] = Null THEN Null ELSE w.next[g[i - 1]]]
           at == Wheel!From(w, s)
<1>0. /\ w.slots \in [SlotNumbers -> Timers \union {Null}]
      /\ w.next \in [Timers -> Timers \union {Null}] /\ w.prev \in [Timers -> Timers \union {Null}]
      /\ w.slot \in [Timers -> SlotNumbers] /\ w.allocated \subseteq Timers /\ t \in Timers
      /\ s \in SlotNumbers /\ Null \notin Timers /\ w.slots[s] \in P
  BY WheelFields, LoopAssumption
<1>1. C \in Nat /\ C = Cardinality(Timers)
  BY TimerCount, SameCardinality
<1>2. at = CHOOSE g : Fits(g)
  BY DEF Wheel!From
<1> HIDE DEF C
<1>3. F \in [P -> P]
  BY <1>0
<1> HIDE DEF F
<1>4. PICK g \in [0 .. C -> P] : g[0] = w.slots[s] /\ \A i \in 1 .. C : g[i] = F[g[i - 1]]
  <2> DEFINE a == w.slots[s]
  <2>1. a \in P /\ C \in Nat
    BY <1>0, <1>1
  <2> HIDE DEF a, P
  <2>2. Iterable(P, F, a, C)
    BY <1>3, <2>1, Iterates
  <2> QED
    BY <2>2 DEF a, Iterable
<1>5. Fits(g)
  <2>1. ASSUME NEW i \in 0 .. C
        PROVE  g[i] = IF i = 0 THEN w.slots[s] ELSE IF g[i - 1] = Null THEN Null ELSE w.next[g[i - 1]]
    <3>1. i # 0 => i \in 1 .. C /\ i - 1 \in 0 .. C
      BY <1>1
    <3> QED
      BY <1>4, <3>1 DEF F
  <2>2. g = [i \in 0 .. C |-> g[i]]
    BY <1>4
  <2> QED
    BY <2>1, <2>2
<1> HIDE DEF Fits
<1>6. Fits(at)
  BY <1>2, <1>5, Zenon
<1> HIDE DEF at
<1> USE DEF Fits
<1>7. /\ at[0] = w.slots[s] /\ DOMAIN at = 0 .. C
      /\ \A i \in 1 .. C : at[i] = IF at[i - 1] = Null THEN Null ELSE w.next[at[i - 1]]
  <2>1. DOMAIN at = 0 .. C /\ \A i \in 0 .. C :
            at[i] = IF i = 0 THEN w.slots[s] ELSE IF at[i - 1] = Null THEN Null ELSE w.next[at[i - 1]]
    BY <1>6
  <2> HIDE DEF Fits
  <2> QED
    BY <1>1, <2>1
<1> HIDE DEF Fits
<1>8. PICK r \in [Timers -> Nat] : Ranked(w, w.allocated, r)
  BY DEF Chained
<1> DEFINE Met == {at[i] : i \in 0 .. C} \ {Null}
<1>9. Wheel!Chain(w, s) = Met
  BY <1>7 DEF Wheel!Chain, at
(* What is met on the way is in the slot, and of ascending rank.           *)
<1> DEFINE Bad == {i \in 0 .. C : ~ (at[i] # Null => at[i] \in w.allocated /\ w.slot[at[i]] = s)}
<1>10. Bad = {}
  <2>1. SUFFICES ASSUME Bad # {} PROVE FALSE
    OBVIOUS
  <2>2. Bad \in SUBSET Nat
    BY <1>1
  <2> HIDE DEF Bad
  <2>3. PICK i \in Bad : \A j \in Bad : i <= j
    BY <2>1, <2>2, LeastElement
  <2>4. i \in 0 .. C /\ at[i] # Null /\ ~ (at[i] \in w.allocated /\ w.slot[at[i]] = s)
    BY <2>3 DEF Bad
  <2>5. i # 0
    BY <1>0, <1>7, <1>8, <2>4 DEF Ranked
  <2>6. i \in 1 .. C /\ i - 1 \in 0 .. C /\ i - 1 \notin Bad
    BY <1>1, <2>3, <2>4, <2>5
  <2>7. at[i - 1] # Null /\ at[i] = w.next[at[i - 1]]
    BY <1>7, <2>4, <2>6
  <2>8. at[i - 1] \in w.allocated /\ w.slot[at[i - 1]] = s
    BY <2>6, <2>7 DEF Bad
  <2> QED
    BY <1>8, <2>4, <2>7, <2>8 DEF Ranked
<1>11. \A i \in 0 .. C : at[i] # Null => at[i] \in w.allocated /\ w.slot[at[i]] = s
  BY <1>10
<1> HIDE DEF Bad
<1>12. ASSUME NEW k \in 0 .. C, at[k] # Null
       PROVE  \A j \in 0 .. k : at[j] # Null
  <2> DEFINE Gone == {j \in 0 .. k : at[k - j] = Null}
  <2>1. SUFFICES ASSUME Gone # {} PROVE FALSE
    <3>1. ASSUME NEW j \in 0 .. k, at[j] = Null PROVE Gone # {}
      <4>1. k - j \in 0 .. k /\ k - (k - j) = j
        OBVIOUS
      <4> QED
        BY <3>1, <4>1
    <3> QED
      BY <2>1, <3>1
  <2>2. Gone \in SUBSET Nat
    OBVIOUS
  <2> HIDE DEF Gone
  <2>3. PICK j \in Gone : \A i \in Gone : j <= i
    BY <2>1, <2>2, LeastElement
  <2>4. j \in 0 .. k /\ at[k - j] = Null
    BY <2>3 DEF Gone
  <2>5. j # 0
    BY <1>12, <2>4
  <2>6. j - 1 \in 0 .. k /\ j - 1 \notin Gone /\ k - (j - 1) \in 1 .. C /\ (k - (j - 1)) - 1 = k - j
    BY <1>1, <2>3, <2>4, <2>5
  <2>7. at[k - (j - 1)] # Null
    BY <2>6 DEF Gone
  <2> QED
    BY <1>7, <2>4, <2>6, <2>7
<1>13. ASSUME NEW k \in 0 .. C, at[k] # Null, NEW i \in 0 .. k
       PROVE  \A j \in 0 .. k : i < j => r[at[i]] < r[at[j]]
  <2> DEFINE Low == {j \in 0 .. k : i < j /\ ~ (r[at[i]] < r[at[j]])}
  <2>1. SUFFICES ASSUME Low # {} PROVE FALSE
    OBVIOUS
  <2>2. Low \in SUBSET Nat
    OBVIOUS
  <2> HIDE DEF Low
  <2>3. PICK j \in Low : \A h \in Low : j <= h
    BY <2>1, <2>2, LeastElement
  <2>4. j \in 0 .. k /\ i < j /\ ~ (r[at[i]] < r[at[j]])
    BY <2>3 DEF Low
  <2>5. j - 1 \in 0 .. k /\ j - 1 \notin Low /\ j \in 1 .. C /\ j - 1 \in 0 .. C /\ j \in 0 .. C /\ i \in 0 .. C
    BY <1>1, <2>3, <2>4
  <2>6. at[i] # Null /\ at[j] # Null /\ at[j - 1] # Null
    BY <1>12, <1>13, <2>4, <2>5
  <2>7. r[at[j - 1]] < r[at[j]]
    <3>1. at[j] = w.next[at[j - 1]] /\ at[j - 1] \in w.allocated
      BY <1>7, <1>11, <2>5, <2>6
    <3> QED
      BY <1>8, <2>6, <3>1 DEF Ranked
  <2>8. r[at[i]] \in Nat /\ r[at[j]] \in Nat /\ r[at[j - 1]] \in Nat
    <3>1. at[i] \in Timers /\ at[j] \in Timers /\ at[j - 1] \in Timers
      BY <1>0, <1>11, <2>5, <2>6
    <3> QED
      BY <3>1
  <2>9. i = j - 1 \/ (i < j - 1 /\ r[at[i]] < r[at[j - 1]])
    BY <2>4, <2>5 DEF Low
  <2> QED
    BY <2>4, <2>7, <2>8, <2>9
<1>14. at[C] = Null
  <2> SUFFICES ASSUME at[C] # Null PROVE FALSE
    OBVIOUS
  <2> DEFINE f == [i \in 1 .. C + 1 |-> at[i - 1]]
  <2>1. C \in 0 .. C
    BY <1>1
  <2>2. \A i \in 0 .. C : at[i] \in Timers
    BY <1>0, <1>11, <1>12, <2>1
  <2>3. \A i, j \in 0 .. C : i < j => at[i] # at[j]
    <3>1. ASSUME NEW i \in 0 .. C, NEW j \in 0 .. C, i < j PROVE at[i] # at[j]
      <4>1. r[at[i]] < r[at[j]] /\ r[at[i]] \in Nat
        BY <1>13, <2>1, <2>2, <3>1
      <4> QED
        BY <4>1
    <3> QED
      BY <3>1
  <2>4. \A i \in 1 .. C + 1 : i - 1 \in 0 .. C
    BY <1>1
  <2>5. f \in Injection(1 .. C + 1, Timers)
    <3>1. f \in [1 .. C + 1 -> Timers]
      BY <2>2, <2>4
    <3>2. ASSUME NEW i \in 1 .. C + 1, NEW j \in 1 .. C + 1, f[i] = f[j] PROVE i = j
      <4>1. i - 1 \in 0 .. C /\ j - 1 \in 0 .. C /\ at[i - 1] = at[j - 1]
        BY <2>4, <3>2
      <4>2. ~ (i - 1 < j - 1) /\ ~ (j - 1 < i - 1)
        BY <2>3, <4>1
      <4> QED
        BY <1>1, <4>2
    <3> QED
      BY <3>1, <3>2 DEF Injection, IsInjective
  <2>6. Cardinality(1 .. C + 1) <= Cardinality(Timers)
    BY <2>5, LoopAssumption, FS_Injection
  <2>7. Cardinality(1 .. C + 1) = C + 1
    BY <1>1, FS_Interval
  <2> QED
    BY <1>1, <2>6, <2>7
(* Of the timers of the slot that are not met, none has the least rank.    *)
<1> DEFINE Lost == {x \in w.allocated : w.slot[x] = s /\ x \notin Met}
           Ranks == {r[x] : x \in Lost}
<1>15. Lost = {}
  <2>1. SUFFICES ASSUME Lost # {} PROVE FALSE
    OBVIOUS
  <2>2. Ranks \in SUBSET Nat /\ Ranks # {}
    BY <1>0, <2>1
  <2> HIDE DEF Ranks
  <2>3. PICK k \in Ranks : \A m \in Ranks : k <= m
    BY <2>2, LeastElement
  <2>4. PICK x \in Lost : \A y \in Lost : r[x] <= r[y]
    BY <2>3 DEF Ranks
  <2>5. x \in Timers /\ x \in w.allocated /\ w.slot[x] = s /\ x \notin Met
    BY <1>0, <2>4
  <2>6. w.slots[s] # x
    <3>1. 0 \in 0 .. C
      BY <1>1
    <3> QED
      BY <1>0, <1>7, <2>5, <3>1
  <2> DEFINE y == w.prev[x]
  <2>7. y \in w.allocated /\ w.slot[y] = s /\ w.next[y] = x
    BY <1>8, <2>5, <2>6 DEF Ranked
  <2>8. r[y] < r[x] /\ r[y] \in Nat /\ r[x] \in Nat
    BY <1>0, <1>8, <2>5, <2>7 DEF Ranked
  <2>9. y \in Met
    BY <2>4, <2>7, <2>8
  <2> HIDE DEF y
  <2>10. PICK i \in 0 .. C : at[i] = y
    BY <2>9
  <2>11. y # Null /\ i # C
    BY <1>0, <1>14, <2>7, <2>10
  <2>12. i + 1 \in 1 .. C /\ i + 1 \in 0 .. C /\ (i + 1) - 1 = i
    BY <1>1, <2>10, <2>11
  <2>13. at[i + 1] = x
    BY <1>7, <2>7, <2>10, <2>11, <2>12
  <2>14. x \in Met
    BY <1>0, <2>5, <2>12, <2>13
  <2> QED
    BY <2>5, <2>14
<1> QED
  BY <1>0, <1>9, <1>15

-----------------------------------------------------------------------------
(* The types of what the server with the wheel keeps, up to undefined      *)
(* behaviour, which takes a link astray.                                   *)
WheelTypes ==
    /\ open \subseteq Fds /\ data \subseteq open /\ fin \subseteq open
    /\ tm \in WTimers
    /\ timer \in [Fds -> Timers \union {Null}]
    /\ pc \in {"wait", "events", "undefined"}
    /\ pc = "undefined" => tm.stray

(* An open connection's timer is allocated and its own, and an allocated   *)
(* timer is that of its connection, which is open.                         *)
WheelOwners ==
    /\ \A f \in open : timer[f] \in tm.allocated /\ tm.owner[timer[f]] = f
    /\ \A t \in tm.allocated : tm.owner[t] \in open /\ timer[tm.owner[t]] = t

WheelInv == WheelTypes /\ WheelOwners /\ Clean(tm)

(* The server starts with an empty wheel. *)
LEMMA WheelInit == ASSUME Wheel!Init PROVE WheelInv
<1>1. /\ tm = [slots |-> [s \in SlotNumbers |-> Null], curr |-> 0,
               next |-> [t \in Timers |-> Null], prev |-> [t \in Timers |-> Null],
               slot |-> [t \in Timers |-> 0], rot |-> [t \in Timers |-> 0],
               owner |-> [t \in Timers |-> Null], allocated |-> {}, bad |-> FALSE, stray |-> FALSE]
      /\ open = {} /\ data = {} /\ fin = {} /\ pc = "wait" /\ timer = [f \in Fds |-> Null]
  BY DEF Wheel!Init, Wheel!InitLoop, Wheel!EmptyWheel, SlotNumbers
<1>2. 0 \in SlotNumbers
  BY DelayAssumption DEF SlotNumbers
<1>3. tm \in WTimers
  BY <1>1, <1>2 DEF WTimers
<1>4. /\ tm.slots = [s \in SlotNumbers |-> Null] /\ tm.allocated = {} /\ ~tm.bad
  BY <1>1
<1>5. Chained(tm, tm.allocated)
  <2> DEFINE r == [t \in Timers |-> 0]
  <2>1. r \in [Timers -> Nat] /\ Ranked(tm, tm.allocated, r)
    BY <1>4 DEF Ranked
  <2> QED
    BY <2>1 DEF Chained
<1> QED
  BY <1>1, <1>3, <1>4, <1>5 DEF WheelInv, WheelTypes, WheelOwners, Clean

(* A step that leaves the wheel, the timers and their connections alone.   *)
LEMMA WheelStays ==
    ASSUME WheelInv, UNCHANGED <<tm, timer, open>>, data' \subseteq open, fin' \subseteq open,
           pc' \in {"wait", "events"} \/ pc' = pc
    PROVE  WheelInv'
BY DEF WheelInv, WheelTypes, WheelOwners

(* Undefined behaviour takes a link astray. *)
LEMMA DefinedIs ==
    ASSUME Clean(tm'), tm' \in WTimers, Wheel!Defined
    PROVE  pc' \in {"events", "undefined"} /\ (pc' = "undefined" => tm'.stray)
BY DEF Clean, Wheel!Defined, WTimers

(* A connection is accepted: its timer is new. *)
LEMMA WheelAccept ==
    ASSUME WheelInv, NEW f \in Fds, NEW t \in Timers, Wheel!Accept(f, t)
    PROVE  WheelInv'
<1>t. WheelTypes /\ WheelOwners /\ Clean(tm) /\ tm \in WTimers /\ tm.allocated \subseteq Timers
      /\ tm.owner \in [Timers -> Fds \union {Null}] /\ timer \in [Fds -> Timers \union {Null}]
  BY WheelFields DEF WheelInv, WheelTypes
<1>1. /\ f \notin open /\ t \notin tm.allocated
      /\ open' = open \union {f} /\ data' = data /\ fin' = fin
      /\ timer' = [timer EXCEPT ![f] = t] /\ tm' = Wheel!AddTW(tm, t, f) /\ Wheel!Defined
  BY DEF Wheel!Accept, Wheel!NewConnection, Wheel!Event
<1>2. /\ tm' \in WTimers /\ Clean(tm') /\ tm'.allocated = tm.allocated \union {t}
      /\ tm'.owner = [tm.owner EXCEPT ![t] = f]
  BY <1>t, <1>1, AddTWIs
<1>3. WheelTypes'
  BY <1>t, <1>1, <1>2, DefinedIs DEF WheelTypes
<1>4. WheelOwners'
  <2>1. /\ tm'.owner[t] = f /\ \A u \in tm.allocated : u # t /\ tm'.owner[u] = tm.owner[u]
        /\ timer'[f] = t /\ \A g \in open : g # f /\ timer'[g] = timer[g]
    BY <1>t, <1>1, <1>2 DEF WheelTypes
  <2> QED
    BY <1>t, <1>1, <1>2, <2>1 DEF WheelOwners
<1> QED
  BY <1>2, <1>3, <1>4 DEF WheelInv, Clean, Chained, Ranked

(* The wheel once a connection's bytes are read. *)
LEMMA WheelAdjusted ==
    ASSUME WheelInv, NEW f \in open
    PROVE  LET new == Wheel!Adjusted(f)
           IN  /\ timer[f] \in tm.allocated
               /\ new \in WTimers /\ Clean(new) /\ new.owner = tm.owner /\ new.allocated = tm.allocated
<1>1. tm \in WTimers /\ Clean(tm) /\ timer[f] \in tm.allocated
  BY DEF WheelInv, WheelTypes, WheelOwners
<1> QED
  BY <1>1, AdjustTWIs DEF Wheel!Adjusted

(* Bytes are read: the timer of the connection is put off. *)
LEMMA WheelReadData ==
    ASSUME WheelInv, NEW f \in Fds, Wheel!ReadData(f)
    PROVE  WheelInv'
<1>t. WheelTypes /\ WheelOwners
  BY DEF WheelInv
<1>1. /\ f \in data /\ data' = data \ {f} /\ UNCHANGED <<open, fin, timer>>
      /\ tm' = Wheel!Adjusted(f) /\ Wheel!Defined
  BY DEF Wheel!ReadData, Wheel!Bytes, Wheel!Event
<1>2. f \in open
  BY <1>t, <1>1 DEF WheelTypes
<1>3. tm' \in WTimers /\ Clean(tm') /\ tm'.owner = tm.owner /\ tm'.allocated = tm.allocated
  BY <1>1, <1>2, WheelAdjusted
<1>4. WheelTypes' /\ WheelOwners'
  BY <1>t, <1>1, <1>3, DefinedIs DEF WheelTypes, WheelOwners
<1> QED
  BY <1>3, <1>4 DEF WheelInv, Clean, Chained, Ranked

(* The end is read: the connection is closed and its timer deleted. *)
LEMMA WheelReadEnd ==
    ASSUME WheelInv, NEW f \in Fds, Wheel!ReadEnd(f)
    PROVE  WheelInv'
<1>t. WheelTypes /\ WheelOwners
  BY DEF WheelInv
<1>1. /\ f \in fin /\ data' = data \ {f} /\ open' = open \ {f} /\ fin' = fin \ {f} /\ timer' = timer
      /\ tm' = Wheel!DelTW(Wheel!Adjusted(f), timer[f]) /\ Wheel!Defined
  BY DEF Wheel!ReadEnd, Wheel!EndOfFile, Wheel!Event, Wheel!Close
<1>2. f \in open
  BY <1>t, <1>1 DEF WheelTypes
<1>3. LET new == Wheel!Adjusted(f)
      IN  /\ timer[f] \in tm.allocated
          /\ new \in WTimers /\ Clean(new) /\ new.owner = tm.owner /\ new.allocated = tm.allocated
  BY <1>2, WheelAdjusted
<1>4. /\ tm' \in WTimers /\ Clean(tm') /\ tm'.owner = tm.owner
      /\ tm'.allocated = tm.allocated \ {timer[f]}
  BY <1>1, <1>3, DelTWIs
<1>5. WheelTypes' /\ WheelOwners'
  BY <1>t, <1>1, <1>2, <1>4, DefinedIs DEF WheelTypes, WheelOwners
<1> QED
  BY <1>4, <1>5 DEF WheelInv, Clean, Chained, Ranked

(* A tick: the connections called back are open, and were those of the     *)
(* timers that went.                                                       *)
LEMMA WheelTick ==
    ASSUME WheelInv, Wheel!Tick
    PROVE  WheelInv'
<1> DEFINE done == Wheel!TickTW(tm)
<1>t. WheelTypes /\ WheelOwners /\ Clean(tm) /\ tm \in WTimers
  BY DEF WheelInv, WheelTypes
<1>1. /\ done.w \in WTimers /\ Clean(done.w) /\ done.w.owner = tm.owner
      /\ done.w.allocated \subseteq tm.allocated
      /\ done.fired = {tm.owner[t] : t \in tm.allocated \ done.w.allocated}
  BY <1>t, TickTWIs
<1> HIDE DEF done
<1>2. /\ open' = open \ done.fired /\ data' = data \ done.fired /\ fin' = fin \ done.fired
      /\ timer' = timer /\ tm' = done.w
      /\ pc' = CASE done.w.bad -> "undefined"
                 [] ~done.w.bad /\ ~(done.fired \subseteq open) -> "died"
                 [] OTHER -> "wait"
  BY DEF Wheel!Tick, Wheel!TickCloses, Wheel!Close, done
<1>3. done.fired \subseteq open
  BY <1>t, <1>1 DEF WheelOwners
<1>4. pc' \in {"wait", "undefined"} /\ (pc' = "undefined" => done.w.stray)
  BY <1>1, <1>2, <1>3 DEF Clean
<1>5. WheelTypes'
  BY <1>t, <1>1, <1>2, <1>4 DEF WheelTypes
<1>6. WheelOwners'
  <2>1. ASSUME NEW f \in open' PROVE timer[f] \in tm'.allocated /\ tm'.owner[timer[f]] = f
    <3>1. f \in open /\ f \notin done.fired /\ timer[f] \in tm.allocated /\ tm.owner[timer[f]] = f
      BY <1>t, <1>2, <2>1 DEF WheelOwners
    <3> QED
      BY <1>1, <1>2, <3>1
  <2>2. ASSUME NEW t \in tm'.allocated PROVE tm'.owner[t] \in open' /\ timer[tm'.owner[t]] = t
    <3>1. t \in tm.allocated /\ tm.owner[t] \in open /\ timer[tm.owner[t]] = t
      BY <1>t, <1>1, <1>2, <2>2 DEF WheelOwners
    <3>2. tm.owner[t] \notin done.fired
      <4>1. SUFFICES ASSUME NEW u \in tm.allocated \ done.w.allocated, tm.owner[u] = tm.owner[t] PROVE FALSE
        BY <1>1
      <4>2. timer[tm.owner[u]] = u
        BY <1>t DEF WheelOwners
      <4> QED
        BY <1>2, <2>2, <3>1, <4>1, <4>2
    <3> QED
      BY <1>1, <1>2, <3>1, <3>2
  <2> QED
    BY <1>2, <2>1, <2>2 DEF WheelOwners
<1> QED
  BY <1>1, <1>2, <1>5, <1>6 DEF WheelInv, Clean, Chained, Ranked

(* Every step of the server with the wheel. *)
LEMMA WheelStep ==
    ASSUME WheelInv, Wheel!Next \/ UNCHANGED vars
    PROVE  WheelInv'
<1>1. ASSUME Wheel!Outside \/ Wheel!EpollWait \/ Wheel!EndOfBatch \/ UNCHANGED vars PROVE WheelInv'
  <2>1. /\ UNCHANGED <<tm, timer, open>> /\ data' \subseteq open /\ fin' \subseteq open
        /\ pc' \in {"wait", "events"} \/ pc' = pc
    BY <1>1 DEF Wheel!Outside, Wheel!Advance, Wheel!Connect, Wheel!Send, Wheel!HangUp, Wheel!Input,
       Wheel!EpollWait, Wheel!EndOfBatch, vars, loop, WheelInv, WheelTypes
  <2> QED
    BY <2>1, WheelStays
<1>2. CASE Wheel!Tick
  BY <1>2, WheelTick
<1>3. ASSUME NEW f \in Fds, Wheel!ReadData(f) \/ Wheel!ReadEnd(f) PROVE WheelInv'
  BY <1>3, WheelReadData, WheelReadEnd
<1>4. ASSUME NEW f \in Fds, NEW t \in Timers, Wheel!Accept(f, t) PROVE WheelInv'
  BY <1>4, WheelAccept
<1> QED
  BY <1>1, <1>2, <1>3, <1>4 DEF Wheel!Next

(* What the invariant is for. *)
LEMMA WheelInvSound == WheelInv => pc # "died" /\ (~tm.stray => pc # "undefined") /\ Wheel!Sound
<1> SUFFICES ASSUME WheelInv PROVE pc # "died" /\ (~tm.stray => pc # "undefined") /\ Wheel!Sound
  OBVIOUS
<1> DEFINE own == [f \in open |-> timer[f]]
<1>1. own \in Bijection(open, tm.allocated)
  BY DEF WheelInv, WheelOwners, Bijection, Injection, Surjection, IsInjective
<1>2. IsFiniteSet(open) /\ ExistsBijection(open, tm.allocated)
  BY <1>1, LoopAssumption, FS_Subset DEF WheelInv, WheelTypes, ExistsBijection
<1>3. Cardinality(tm.allocated) = Cardinality(open)
  BY <1>2, FS_Bijection
<1>4. Wheel!Cardinality(tm.allocated) = Wheel!Cardinality(open)
  BY <1>3, SameCardinality
<1>5. ASSUME ~tm.stray, NEW f \in open PROVE timer[f] \in Wheel!Chain(tm, tm.slot[timer[f]])
  BY <1>5, ChainIs DEF WheelInv, WheelTypes, WheelOwners, Clean
<1> QED
  BY <1>4, <1>5 DEF WheelInv, WheelTypes, WheelOwners, Wheel!Sound

(* Every behaviour of the server with the wheel, in the composition. *)
LEMMA WheelSoundHolds == Spec => [](kind = "wheel" => WheelInv)
<1>1. Init => (kind = "wheel" => WheelInv)
  BY WheelInit DEF Init
<1>2. (kind = "wheel" => WheelInv) /\ [Next]_<<kind, vars>> => (kind = "wheel" => WheelInv)'
  <2> SUFFICES ASSUME kind = "wheel" => WheelInv, [Next]_<<kind, vars>>, kind' = "wheel" PROVE WheelInv'
    OBVIOUS
  <2>1. kind = "wheel" /\ (Wheel!Next \/ UNCHANGED vars)
    BY DEF Next
  <2> QED
    BY <2>1, WheelStep
<1> QED
  BY <1>1, <1>2, PTL DEF Spec

-----------------------------------------------------------------------------
(* Each behaviour is of one of the three servers. *)
LEMMA KindIs == Spec => [](kind \in {"list", "heap", "wheel"})
<1>1. Init => kind \in {"list", "heap", "wheel"}
  BY DEF Init
<1>2. kind \in {"list", "heap", "wheel"} /\ [Next]_<<kind, vars>> => (kind \in {"list", "heap", "wheel"})'
  BY DEF Next
<1> QED
  BY <1>1, <1>2, PTL DEF Spec

(* TimerPerConnection for all three servers, whatever the number of their  *)
(* clients, timers and slots: every open connection has one live timer,    *)
(* its own, where the container's tick will find it, there is no other,    *)
(* and no tick calls back a connection that is closed.  The wheel uses no  *)
(* freed memory, and loses no timer from its slot, before adjust_timer()   *)
(* has left a link astray.                                                 *)
THEOREM TimerPerConnectionHolds == Spec => []TimerPerConnection
<1>1. /\ kind \in {"list", "heap", "wheel"}
      /\ kind = "list" => pc # "died" /\ List!Sound
      /\ kind = "heap" => pc # "died" /\ Heap!Sound
      /\ kind = "wheel" => WheelInv
      => TimerPerConnection
  BY WheelInvSound DEF TimerPerConnection
<1> QED
  BY <1>1, KindIs, ListTimerPerConnection, HeapTimerPerConnection, WheelSoundHolds, PTL

=============================================================================
