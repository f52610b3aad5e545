---------------------------- MODULE IdleTimers ----------------------------
(***************************************************************************)
(* What the timer containers are for: every connection has a deadline that *)
(* its activity pushes back, and a tick closes exactly the connections     *)
(* whose deadline has come (TimerList.cpp, the comment of lines 74-77).    *)
(***************************************************************************)
EXTENDS Naturals

CONSTANTS
    Fds,        \* descriptors of connections
    Delay,      \* from activity to deadline
    None

VARIABLES
    now,        \* the time
    due         \* the deadline of each connection, None if there is none

vars == <<now, due>>

Init == due = [f \in Fds |-> None]

Pass == now' > now /\ UNCHANGED due

(* A connection arrives, or is active *)
Set(f) == due' = [due EXCEPT ![f] = now + Delay] /\ UNCHANGED now

(* Its peer closes it *)
Drop(f) == due' = [due EXCEPT ![f] = None] /\ UNCHANGED now

Expired == {f \in Fds : due[f] # None /\ due[f] <= now}

Tick ==
    /\ due' = [f \in Fds |-> IF f \in Expired THEN None ELSE due[f]]
    /\ UNCHANGED now

Next == Pass \/ Tick \/ \E f \in Fds : Set(f) \/ Drop(f)

Spec == Init /\ [][Next]_vars
=============================================================================
