----------------------------- MODULE EpollLoop -----------------------------
(***************************************************************************)
(* What the three servers that close idle connections on the timeout of    *)
(* epoll_wait have in common: clients, the edge-triggered descriptors, and *)
(* main()'s loop up to the timers it keeps (timerlist_epoll/main.cpp,      *)
(* timerheap/server.cpp, timerwheel/main.cpp).                             *)
(*                                                                         *)
(* Time and timeouts are counted in seconds: time() returns seconds and    *)
(* every timeout is a multiple of 1000 ms.  epoll_wait returns as soon as  *)
(* it has a reason to.                                                     *)
(***************************************************************************)
EXTENDS Integers, FiniteSets

CONSTANTS
    Fds,        \* descriptors of connections
    Timers,     \* the memory that `new' takes timers from
    Null,       \* nullptr
    Slow,       \* may time go on while a batch of events is handled?
    MaxNow,     \* bound: the end of time
    MaxInputs   \* bound: how often clients connect, send and hang up

ASSUME LoopAssumption ==
    /\ IsFiniteSet(Fds) /\ IsFiniteSet(Timers)
    /\ Null \notin Fds \union Timers \union Nat /\ "listen" \notin Fds
    /\ Slow \in BOOLEAN

VARIABLES
    now, inputs,    \* time; history: the number of inputs
    backlog,        \* clients that wait for accept()
    open,           \* descriptors of accepted connections
    data, fin,      \* those with unread bytes; those closed by the peer
    ready,          \* epoll's ready list
    batch,          \* events not handled yet
    start,          \* when epoll_wait was called
    timeout,        \* its argument: for ever, if negative
    pc,
    tm,             \* the timers
    timer           \* users[fd].timer

clients == <<now, inputs, backlog>>
loop == <<now, inputs, backlog, open, data, fin, ready, batch, start, timeout, pc>>
vars == <<loop, tm, timer>>

Alive == pc \in {"wait", "events"}

Reported == {x \in ready : IF x = "listen" THEN backlog > 0 ELSE x \in data \union fin}

WaitIsOver == Reported # {} \/ (timeout >= 0 /\ now >= start + timeout)

Advance ==
    /\ now < MaxNow
    /\ \/ pc = "wait" /\ ~WaitIsOver
       \/ pc = "events" /\ Slow
    /\ now' = now + 1
    /\ UNCHANGED <<inputs, backlog, open, data, fin, ready, batch, start, timeout, pc, tm, timer>>

(* The clients *)
Input(x) ==
    /\ Alive /\ inputs < MaxInputs
    /\ inputs' = inputs + 1
    /\ ready' = ready \union {x}
    /\ UNCHANGED <<now, open, batch, start, timeout, pc, tm, timer>>

Connect ==
    /\ Cardinality(open) + backlog < Cardinality(Fds)
    /\ backlog' = backlog + 1
    /\ Input("listen")
    /\ UNCHANGED <<data, fin>>

Send(f) ==
    /\ f \in open \ (data \union fin)
    /\ data' = data \union {f}
    /\ Input(f)
    /\ UNCHANGED <<backlog, fin>>

HangUp(f) ==
    /\ f \in open \ fin
    /\ fin' = fin \union {f}
    /\ Input(f)
    /\ UNCHANGED <<backlog, data>>

(* epoll_wait returns events *)
EpollWait ==
    /\ pc = "wait" /\ Reported # {}
    /\ batch' = Reported
    /\ ready' = {}
    /\ pc' = "events"
    /\ UNCHANGED <<now, inputs, backlog, open, data, fin, start, timeout, tm, timer>>

(* It returns 0 *)
TimedOut == pc = "wait" /\ Reported = {} /\ WaitIsOver

(* The events of a batch, in whatever order epoll has them; back at the    *)
(* top of the loop, start is taken again                                   *)
Event(x) == pc = "events" /\ x \in batch /\ batch' = batch \ {x}

EndOfBatch ==
    /\ pc = "events" /\ batch = {}
    /\ pc' = "wait" /\ start' = now
    /\ UNCHANGED <<now, inputs, backlog, open, data, fin, ready, batch, timeout, tm, timer>>

(* accept() and add2epoll() *)
NewConnection(f) ==
    /\ Event("listen") /\ backlog > 0 /\ f \in Fds \ open
    /\ backlog' = backlog - 1
    /\ open' = open \union {f}
    /\ UNCHANGED <<now, inputs, data, fin, ready, start>>

(* read() until it would block; or until it finds the end, and             *)
(* callback_func() closes the connection                                   *)
Bytes(f) ==
    /\ Event(f) /\ f \in data \ fin
    /\ data' = data \ {f}
    /\ UNCHANGED <<now, inputs, backlog, open, fin, ready, start>>

Close(S) ==
    /\ open' = open \ S /\ data' = data \ S /\ fin' = fin \ S /\ ready' = ready \ S

EndOfFile(f) ==
    /\ Event(f) /\ f \in fin
    /\ Close({f})
    /\ UNCHANGED <<now, inputs, backlog, start>>

(* A tick closes the connections S; to close one that is not open is fatal *)
TickCloses(S) ==
    /\ TimedOut
    /\ Close(S)
    /\ start' = now
    /\ UNCHANGED <<now, inputs, backlog, batch>>

InitLoop ==
    /\ now = 0 /\ inputs = 0 /\ backlog = 0
    /\ open = {} /\ data = {} /\ fin = {} /\ ready = {} /\ batch = {}
    /\ start = 0 /\ pc = "wait"
    /\ timer = [f \in Fds |-> Null]

Outside == Advance \/ Connect \/ \E f \in Fds : Send(f) \/ HangUp(f)
=============================================================================
