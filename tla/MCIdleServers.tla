--------------------------- MODULE MCIdleServers ---------------------------
(* The three servers with epoll timeouts, one of them per behaviour.       *)
EXTENDS EpollLoop, TLC

CONSTANTS Slot, Slots, WheelDelay, HeapDelay

ASSUME DelayAssumption == {Slot, Slots, WheelDelay, HeapDelay} \subseteq Nat \ {0}

VARIABLE kind

List == INSTANCE TimerListLoop
Heap == INSTANCE TimerHeapLoop WITH Delay <- HeapDelay
Wheel == INSTANCE TimerWheelLoop WITH Delay <- WheelDelay

Init ==
    \/ kind = "list" /\ List!Init
    \/ kind = "heap" /\ Heap!Init
    \/ kind = "wheel" /\ Wheel!Init

Next ==
    /\ \/ kind = "list" /\ List!Next
       \/ kind = "heap" /\ Heap!Next
       \/ kind = "wheel" /\ Wheel!Next
    /\ UNCHANGED kind

Spec == Init /\ [][Next]_<<kind, vars>>

Symmetry == Permutations(Fds) \union Permutations(Timers)

-----------------------------------------------------------------------------
(* Whatever the order of connections, data, ends and ticks, every open     *)
(* connection has one live timer, its own, where the container's tick will *)
(* find it, and there is no other; so no tick calls back a connection that *)
(* is closed.  The wheel may meet timers in other slots than theirs, and   *)
(* freed memory, but not before adjust_timer() has left a link astray      *)
(* (TimerWheel.cpp:60-66).                                                 *)
TimerPerConnection ==
    /\ pc # "died"
    /\ kind = "wheel" /\ ~tm.stray => pc # "undefined"
    /\ Alive => CASE kind = "list" -> List!Sound
                  [] kind = "heap" -> Heap!Sound
                  [] kind = "wheel" -> Wheel!Sound

(* server.cpp:116-123: each event handled within its second, the heap's    *)
(* wait ends, and not after its first timer expires, though the rest of    *)
(* the last timeout is reduced once for each event of a batch.             *)
HeapWaitEnds ==
    kind = "heap" /\ pc = "wait" /\ tm.pq # {} =>
        timeout >= 0 /\ start + timeout <= Heap!TopTime(tm)

(* timerlist_epoll/main.cpp:7: epoll_wait is forced to return every        *)
(* TIMESLOT seconds; so its timeout is never negative, which is for ever.  *)
ForcedToReturn == kind = "list" /\ pc = "wait" => timeout >= 0

(* The list and the heap do what IdleTimers.tla says: a tick closes those  *)
(* connections whose time has come, and no others.                         *)
Due(k) == [f \in Fds |-> IF kind = k /\ f \in open THEN tm.expire[timer[f]] ELSE Null]

ListIT == INSTANCE IdleTimers WITH Delay <- 3 * Slot, None <- Null, due <- Due("list")
HeapIT == INSTANCE IdleTimers WITH Delay <- HeapDelay, None <- Null, due <- Due("heap")

ImplementsIdleTimers == ListIT!Spec /\ HeapIT!Spec
=============================================================================
