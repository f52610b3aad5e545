--------------------------- MODULE TimerListLoop ---------------------------
(***************************************************************************)
(* The server with a sorted list of timers that has epoll_wait return      *)
(* every TIMESLOT seconds (timerlist_epoll/main.cpp).  tm holds the list   *)
(* and the fields of its Timer objects.                                    *)
(***************************************************************************)
EXTENDS EpollLoop, Sequences

CONSTANT Slot       \* TIMESLOT

INSTANCE TimerList

(* `timeout -= ...' once per event.  The test that follows compares the    *)
(* library function time with 0: timeout is never reset here.              *)
Rest == timeout' = timeout - (now - start) /\ UNCHANGED pc

Accept(f, t) ==
    /\ NewConnection(f)
    /\ t \in Timers \ tm.allocated
    /\ LET ex == [tm.expire EXCEPT ![t] = now + 3 * Slot]
       IN  tm' = [lst |-> AddTimer(NewTimer(tm.lst, t), ex, t), expire |-> ex,
                  owner |-> [tm.owner EXCEPT ![t] = f], allocated |-> tm.allocated \union {t}]
    /\ timer' = [timer EXCEPT ![f] = t]
    /\ Rest

(* The timer of a connection is put off, if it sent something *)
Adjusted(f) ==
    LET ex == [tm.expire EXCEPT ![timer[f]] = now + 3 * Slot]
    IN  IF f \in data THEN [tm EXCEPT !.expire = ex, !.lst = AdjustTimer(@, ex, timer[f])] ELSE tm

ReadData(f) ==
    /\ Bytes(f)
    /\ tm' = Adjusted(f)
    /\ Rest /\ UNCHANGED timer

ReadEnd(f) ==
    /\ EndOfFile(f)
    /\ tm' = [Adjusted(f) EXCEPT !.lst = DelTimer(@, timer[f]), !.allocated = @ \ {timer[f]}]
    /\ Rest /\ UNCHANGED timer

(* epoll_wait returned 0 *)
Tick ==
    LET fired == Expired(tm.lst, tm.expire, now)
        fds == {tm.owner[t] : t \in fired}
    IN  /\ TickCloses(fds)
        /\ tm' = [tm EXCEPT !.lst = TickList(@, tm.expire, now), !.allocated = @ \ fired]
        /\ timeout' = Slot
        /\ pc' = IF fds \subseteq open THEN "wait" ELSE "died"
        /\ UNCHANGED timer

Init ==
    /\ InitLoop
    /\ timeout = Slot
    /\ tm = [lst |-> Empty, expire |-> [t \in Timers |-> 0], owner |-> [t \in Timers |-> Null],
             allocated |-> {}]

Next ==
    \/ Outside \/ EpollWait \/ EndOfBatch \/ Tick
    \/ \E f \in Fds : ReadData(f) \/ ReadEnd(f) \/ \E t \in Timers : Accept(f, t)

(* The list is linked both ways, ascends, and has one timer per open       *)
(* connection and nothing else.                                            *)
Sound ==
    /\ ListOf(tm.lst, tm.expire, tm.allocated)
    /\ \A f \in open : timer[f] \in tm.allocated /\ tm.owner[timer[f]] = f
    /\ Cardinality(tm.allocated) = Cardinality(open)
=============================================================================
