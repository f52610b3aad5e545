----------------------------- MODULE TimerList -----------------------------
(***************************************************************************)
(* The doubly linked list of timers in ascending order of expiry:          *)
(* TimerList.cpp, as operators that take the list before a call and give   *)
(* the list after it.  A list is the record of head, tail and the links of *)
(* every Timer object; ex is the field expire of each.                     *)
(***************************************************************************)
EXTENDS Naturals, Sequences, FiniteSets

CONSTANTS
    Timers,     \* the memory that `new Timer' takes objects from
    Null        \* nullptr

ASSUME TimersAssumption == IsFiniteSet(Timers) /\ Null \notin Timers

Empty == [head |-> Null, tail |-> Null,
          next |-> [t \in Timers |-> Null], prev |-> [t \in Timers |-> Null]]

(* The constructor of Timer *)
NewTimer(l, t) == [l EXCEPT !.next[t] = Null, !.prev[t] = Null]

(* The timers met from p on, as far as there can be any *)
Met(l, p) ==
    LET at[i \in 1 .. Cardinality(Timers) + 1] ==
          IF i = 1 THEN p ELSE IF at[i - 1] = Null THEN Null ELSE l.next[at[i - 1]]
    IN  at

WalkFrom(l, p) ==
    [i \in 1 .. Cardinality({j \in DOMAIN Met(l, p) : Met(l, p)[j] # Null}) |-> Met(l, p)[i]]

Walk(l) == WalkFrom(l, l.head)

(* The last timer, from the timer `from' on, that t goes behind *)
Before(l, ex, t, from) ==
    LET w == WalkFrom(l, from)
    IN  w[CHOOSE i \in DOMAIN w :
            /\ i = Len(w) \/ ex[t] < ex[w[i + 1]]
            /\ \A j \in 1 .. i - 1 : ex[w[j + 1]] <= ex[t]]

(* add_timer(timer, lst_head) *)
AddAfter(l, ex, t, from) ==
    LET p == Before(l, ex, t, from)
        n == l.next[p]
    IN  IF n = Null
          THEN [l EXCEPT !.next = [@ EXCEPT ![p] = t, ![t] = Null], !.prev[t] = p, !.tail = t]
          ELSE [l EXCEPT !.next = [@ EXCEPT ![p] = t, ![t] = n],
                         !.prev = [@ EXCEPT ![n] = t, ![t] = p]]

(* add_timer(timer); a timer put before head does not become head->prev *)
AddTimer(l, ex, t) ==
    CASE l.head = Null -> [l EXCEPT !.head = t, !.tail = t]
      [] l.head # Null /\ ex[t] < ex[l.head] -> [l EXCEPT !.next[t] = l.head, !.head = t]
      [] OTHER -> AddAfter(l, ex, t, l.head)

(* del_timer() *)
DelTimer(l, t) ==
    LET n == l.next[t]
        p == l.prev[t]
    IN  CASE t = l.head /\ t = l.tail -> [l EXCEPT !.head = Null, !.tail = Null]
          [] t = l.head /\ t # l.tail -> [l EXCEPT !.head = n, !.prev[n] = Null]
          [] t # l.head /\ t = l.tail -> [l EXCEPT !.tail = p, !.next[p] = Null]
          [] OTHER -> [l EXCEPT !.next[p] = n, !.prev[n] = p]

(* Slip: the timer left where it was *)
AdjustNothing(l, ex, t) == l

(* Slip: timer->next->prev not set *)
AdjustOneWay(l, ex, t) ==
    LET n == l.next[t]
    IN  CASE n = Null \/ ex[t] < ex[n] -> l
          [] t = l.head -> AddAfter([l EXCEPT !.head = n, !.prev[n] = Null, !.next[t] = Null], ex, t, n)
          [] OTHER -> AddAfter([l EXCEPT !.next[l.prev[t]] = n], ex, t, n)

(* adjust_timer(), for a timer whose expiry was put off *)
AdjustTimer(l, ex, t) ==
    LET n == l.next[t]
        p == l.prev[t]
    IN  CASE n = Null \/ ex[t] < ex[n] -> l
          [] n # Null /\ ex[t] >= ex[n] /\ t = l.head ->
               AddAfter([l EXCEPT !.head = n, !.prev[n] = Null, !.next[t] = Null], ex, t, n)
          [] OTHER -> AddAfter([l EXCEPT !.prev[n] = p, !.next[p] = n], ex, t, n)

(* Slip: > for >= *)
ExpiredLater(l, ex, cur) ==
    LET w == Walk(l)
    IN  {w[i] : i \in {j \in DOMAIN w : \A k \in 1 .. j : ex[w[k]] < cur}}

(* The timers a tick at time cur calls back: it stops at the first that    *)
(* has not expired                                                         *)
Expired(l, ex, cur) ==
    LET w == Walk(l)
    IN  {w[i] : i \in {j \in DOMAIN w : \A k \in 1 .. j : ex[w[k]] <= cur}}

(* tick() takes them off; tail is not looked at *)
TickList(l, ex, cur) ==
    LET w == Walk(l)
        k == Cardinality(Expired(l, ex, cur))
        h == IF k < Len(w) THEN w[k + 1] ELSE Null
    IN  IF k = 0 THEN l
        ELSE IF h = Null THEN [l EXCEPT !.head = Null]
        ELSE [l EXCEPT !.head = h, !.prev[h] = Null]

-----------------------------------------------------------------------------
(* A list of the objects S: the links agree in both directions, tail is    *)
(* the last one, no object is met twice, and expiries ascend.              *)
ListOf(l, ex, S) ==
    LET w == Walk(l)
    IN  /\ Len(w) = Cardinality(S)
        /\ {w[i] : i \in DOMAIN w} = S
        /\ \A i \in DOMAIN w :
              /\ l.prev[w[i]] = IF i = 1 THEN Null ELSE w[i - 1]
              /\ i > 1 => ex[w[i - 1]] <= ex[w[i]]
        /\ w # <<>> => l.tail = w[Len(w)]
=============================================================================
