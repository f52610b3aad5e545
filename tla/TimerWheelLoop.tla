-------------------------- MODULE TimerWheelLoop --------------------------
(***************************************************************************)
(* The server with a timing wheel, whose epoll_wait is to return every SI  *)
(* seconds (timerwheel/main.cpp).  tm is the wheel.  A second is SI.       *)
(***************************************************************************)
EXTENDS EpollLoop

CONSTANTS Slots, Delay      \* N; TIMEOUT

INSTANCE TimerWheel

(* Accessing freed memory ends what can be said *)
Defined == pc' = IF tm'.bad THEN "undefined" ELSE "events"

(* The test of the function time with 0 never resets timeout *)
Rest == timeout' = timeout - (now - start)

Accept(f, t) ==
    /\ NewConnection(f)
    /\ t \in Timers \ tm.allocated
    /\ tm' = AddTW(tm, t, f)
    /\ timer' = [timer EXCEPT ![f] = t]
    /\ Rest /\ Defined

(* The timer of a connection is put off, if it sent something *)
Adjusted(f) == IF f \in data THEN AdjustTW(tm, timer[f]) ELSE tm

ReadData(f) ==
    /\ Bytes(f)
    /\ tm' = Adjusted(f)
    /\ Rest /\ Defined /\ UNCHANGED timer

ReadEnd(f) ==
    /\ EndOfFile(f)
    /\ tm' = DelTW(Adjusted(f), timer[f])
    /\ Rest /\ Defined /\ UNCHANGED timer

(* epoll_wait returned 0 *)
Tick ==
    LET done == TickTW(tm)
    IN  /\ TickCloses(done.fired)
        /\ tm' = done.w
        /\ timeout' = 1
        /\ pc' = CASE done.w.bad -> "undefined"
                   [] ~done.w.bad /\ ~(done.fired \subseteq open) -> "died"
                   [] OTHER -> "wait"
        /\ UNCHANGED timer

Init == InitLoop /\ timeout = 1 /\ tm = EmptyWheel

Next ==
    \/ Outside \/ EpollWait \/ EndOfBatch \/ Tick
    \/ \E f \in Fds : ReadData(f) \/ ReadEnd(f) \/ \E t \in Timers : Accept(f, t)

(* Each open connection has a timer of its own, and there is no other; as  *)
(* long as no link is astray, the tick of the timer's slot will find it.   *)
Sound ==
    /\ \A f \in open : timer[f] \in tm.allocated /\ tm.owner[timer[f]] = f
    /\ Cardinality(tm.allocated) = Cardinality(open)
    /\ ~tm.stray => \A f \in open : timer[f] \in Chain(tm, tm.slot[timer[f]])

(* With a link astray, TLC refutes this: a timer is met in another slot    *)
(* than its own, too early or too late.                                    *)
InItsSlot == \A f \in open : timer[f] \in Chain(tm, tm.slot[timer[f]])
=============================================================================
