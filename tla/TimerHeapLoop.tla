--------------------------- MODULE TimerHeapLoop ---------------------------
(***************************************************************************)
(* The server with a heap of timers, whose epoll_wait returns when the     *)
(* first of them expires (timerheap/server.cpp, TimerHeap.cpp).  del_timer *)
(* only clears the callback; the timer stays in the heap until it is on    *)
(* top.  tm holds the timers in the heap, those with a callback, and the   *)
(* fields of every HTimer object.  A timer that tick() pops is not         *)
(* deleted, but nothing refers to it any more: it counts as free.          *)
(***************************************************************************)
EXTENDS EpollLoop

CONSTANT Delay      \* TIMEOUT

Live == tm.pq \intersect tm.callback

(* new HTimer{callback_func, &users[f], TIMEOUT + time(NULL)}; add_timer() *)
Add(h, f, t) ==
    [pq |-> h.pq \union {t}, callback |-> h.callback \union {t},
     expire |-> [h.expire EXCEPT ![t] = now + Delay], owner |-> [h.owner EXCEPT ![t] = f]]

(* Slip: the callback stays *)
DelNothing(h, t) == h

Del(h, t) == [h EXCEPT !.callback = @ \ {t}]

(* When the top of the heap expires *)
TopTime(h) == CHOOSE e \in {h.expire[t] : t \in h.pq} : \A t \in h.pq : e <= h.expire[t]

(* Timers without a callback are popped while they are on top, that is,    *)
(* unless one with a callback expires before them                          *)
Pruned(h) ==
    [h EXCEPT !.pq = {t \in @ : t \in h.callback
                                \/ \E u \in @ \intersect h.callback : h.expire[u] < h.expire[t]}]

(* Slip: a timeout that is used up is kept *)
NextClockKeeps(h) ==
    /\ tm' = Pruned(h)
    /\ timeout' = IF tm'.pq = {} THEN -1
                  ELSE IF timeout = -1 THEN TopTime(tm') - now
                  ELSE timeout - (now - start)
    /\ UNCHANGED pc

(* next_clock(): the rest of the last timeout, or the time to the top.     *)
(* That is negative, for ever, if the top expired during the batch.        *)
NextClock(h) ==
    LET rest == timeout - (now - start)
    IN  /\ tm' = Pruned(h)
        /\ timeout' = IF timeout # -1 /\ rest > 0 THEN rest
                      ELSE IF tm'.pq # {} THEN TopTime(tm') - now
                      ELSE -1
        /\ UNCHANGED pc

Accept(f, t) ==
    /\ NewConnection(f)
    /\ t \in Timers \ tm.pq
    /\ timer' = [timer EXCEPT ![f] = t]
    /\ NextClock(Add(tm, f, t))

(* The timer of a connection that sent something is replaced by t *)
ReadData(f, t) ==
    /\ Bytes(f)
    /\ t \in Timers \ tm.pq
    /\ timer' = [timer EXCEPT ![f] = t]
    /\ NextClock(Add(Del(tm, timer[f]), f, t))

ReadEnd(f, t) ==
    /\ EndOfFile(f)
    /\ t \in Timers \ tm.pq
    /\ IF f \in data
         THEN /\ timer' = [timer EXCEPT ![f] = t]
              /\ NextClock(Del(Add(Del(tm, timer[f]), f, t), t))
         ELSE /\ UNCHANGED timer
              /\ NextClock(Del(tm, timer[f]))

(* tick() pops what has expired and calls back what has a callback *)
Tick ==
    LET fired == {t \in tm.pq : tm.expire[t] <= now}
        fds == {tm.owner[t] : t \in fired \intersect tm.callback}
    IN  /\ TickCloses(fds)
        /\ tm' = [tm EXCEPT !.pq = @ \ fired]
        /\ timeout' = IF tm'.pq = {} THEN -1 ELSE TopTime(tm') - now
        /\ pc' = IF fds \subseteq open THEN "wait" ELSE "died"
        /\ UNCHANGED timer

Init ==
    /\ InitLoop
    /\ timeout = -1
    /\ tm = [pq |-> {}, callback |-> {}, expire |-> [t \in Timers |-> 0],
             owner |-> [t \in Timers |-> Null]]

Next ==
    \/ Outside \/ EpollWait \/ EndOfBatch \/ Tick
    \/ \E f \in Fds, t \in Timers : Accept(f, t) \/ ReadData(f, t) \/ ReadEnd(f, t)

(* One timer with a callback per open connection, its own, and no other.   *)
Sound ==
    /\ \A f \in open : timer[f] \in Live /\ tm.owner[timer[f]] = f
    /\ Cardinality(Live) = Cardinality(open)
=============================================================================
