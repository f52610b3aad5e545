----------------------------- MODULE TimerWheel -----------------------------
(***************************************************************************)
(* The timing wheel (TimerWheel.cpp), as operators from the wheel before a *)
(* call to the wheel after it.  A wheel is a record: slots and curr as in  *)
(* class TimerWheel; next, prev, slot (time_slot), rot (rotation) and      *)
(* owner (user_data) of every TWTimer object; the objects allocated; bad,  *)
(* whether the code has accessed an object that is not (what happens then  *)
(* is undefined, and nothing is said about it); and stray, history:        *)
(* whether a timer was moved to an empty slot with the next of its old one.*)
(***************************************************************************)
EXTENDS Integers, FiniteSets

CONSTANTS
    Timers,     \* the memory that `new TWTimer' takes objects from
    Null,       \* nullptr
    Slots,      \* N
    Delay       \* the only timeout the server asks for, in slots

EmptyWheel ==
    [slots |-> [s \in 0 .. Slots - 1 |-> Null], curr |-> 0,
     next |-> [t \in Timers |-> Null], prev |-> [t \in Timers |-> Null],
     slot |-> [t \in Timers |-> 0], rot |-> [t \in Timers |-> 0],
     owner |-> [t \in Timers |-> Null], allocated |-> {}, bad |-> FALSE, stray |-> FALSE]

(* p->next = x and n->prev = x, where the code tests or omits to test the  *)
(* pointer first: null or dangling, it must not be followed                *)
SetNext(w, p, x) ==
    IF p \in w.allocated THEN [w EXCEPT !.next[p] = x] ELSE [w EXCEPT !.bad = TRUE]

SetPrev(w, n, x) ==
    CASE n = Null -> w
      [] n \in w.allocated -> [w EXCEPT !.prev[n] = x]
      [] OTHER -> [w EXCEPT !.bad = TRUE]

(* Slip: time_slot is not set *)
PlaceNoSlot(w, t) ==
    LET ts == (w.curr + Delay) % Slots
        h == w.slots[ts]
        v == [w EXCEPT !.rot[t] = Delay \div Slots, !.slots[ts] = t,
                       !.stray = @ \/ (h = Null /\ w.next[t] # Null)]
    IN  IF h = Null THEN v ELSE SetPrev([v EXCEPT !.next[t] = h], h, t)

(* To the head of the slot where t will expire.  If the slot was empty,    *)
(* the links of t stay what they were.                                     *)
Place(w, t) ==
    LET ts == (w.curr + Delay) % Slots
        h == w.slots[ts]
        v == [w EXCEPT !.slot[t] = ts, !.rot[t] = Delay \div Slots, !.slots[ts] = t,
                       !.stray = @ \/ (h = Null /\ w.next[t] # Null)]
    IN  IF h = Null THEN v ELSE SetPrev([v EXCEPT !.next[t] = h], h, t)

(* Out of the list at slot s *)
Unlink(w, t, s) ==
    LET n == w.next[t]
        p == w.prev[t]
    IN  IF t = w.slots[s] THEN SetPrev([w EXCEPT !.slots[s] = n], n, Null)
        ELSE SetPrev(SetNext(w, p, n), n, p)

Free(w, t) == [w EXCEPT !.allocated = @ \ {t}]

(* add_timer(), then the caller's assignments to the new object *)
AddTW(w, t, f) ==
    Place([w EXCEPT !.next[t] = Null, !.prev[t] = Null, !.owner[t] = f,
                    !.allocated = @ \union {t}], t)

AdjustTW(w, t) == Place(Unlink(w, t, w.slot[t]), t)

DelTW(w, t) == Free(Unlink(w, t, w.slot[t]), t)

(* One round of tick()'s loop: v.tmp is the timer it is at *)
Visit(v) ==
    LET w == v.w
        t == v.tmp
    IN  CASE t = Null \/ w.bad -> v
          [] t # Null /\ ~w.bad /\ t \notin w.allocated -> [v EXCEPT !.w.bad = TRUE]
          [] ~w.bad /\ t \in w.allocated /\ w.rot[t] > 0 ->
               [v EXCEPT !.w.rot[t] = @ - 1, !.tmp = w.next[t]]
          [] OTHER -> [w |-> Free(Unlink(w, t, w.curr), t), tmp |-> w.next[t],
                       fired |-> v.fired \union {w.owner[t]}]

Rounds(w) ==
    LET round[i \in 0 .. Cardinality(Timers) + 1] ==
          IF i = 0 THEN [w |-> w, tmp |-> w.slots[w.curr], fired |-> {}] ELSE Visit(round[i - 1])
    IN  round

(* tick(): the wheel after it, and the connections it called back *)
TickTW(w) ==
    LET end == Rounds(w)[Cardinality(Timers) + 1]
    IN  [w |-> [end.w EXCEPT !.curr = (@ + 1) % Slots], fired |-> end.fired]

(* The objects met from the head of slot s on *)
From(w, s) ==
    LET at[i \in 0 .. Cardinality(Timers)] ==
          IF i = 0 THEN w.slots[s] ELSE IF at[i - 1] = Null THEN Null ELSE w.next[at[i - 1]]
    IN  at

Chain(w, s) == {From(w, s)[i] : i \in DOMAIN From(w, s)} \ {Null}
=============================================================================
