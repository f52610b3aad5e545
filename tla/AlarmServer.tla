---------------------------- MODULE AlarmServer ----------------------------
(***************************************************************************)
(* The server that closes idle connections on SIGALRM (timerlist/main.cpp):*)
(* the handler writes the signal's number into a socket pair that epoll    *)
(* watches with the other descriptors, all of them edge-triggered, and the *)
(* main loop ticks the timer list and sets the next alarm.                 *)
(*                                                                         *)
(* Time is counted in units in which a tick period is Slot.  The main loop *)
(* may be preempted for any time between two events.  A client sends after *)
(* it is accepted.  The reads of one event are one: they move the timer to *)
(* the same place.                                                         *)
(***************************************************************************)
EXTENDS TimerList

CONSTANTS
    Fds,        \* descriptors of connections
    Slot,       \* TIMESLOT
    MaxNow,     \* bound: the end of time
    MaxInputs   \* bound: how often clients connect, send and hang up, and SIGTERM is sent

ASSUME AlarmAssumption ==
    /\ IsFiniteSet(Fds)
    /\ Null \notin Fds \union Nat
    /\ {"listen", "pipe"} \intersect Fds = {}
    /\ Slot \in Nat \ {0}

(* At most one event per descriptor *)
MaxRet == Cardinality(Fds) + 2

VARIABLES
    \* time and what comes from outside
    now, alarmAt,   \* alarmAt = 0: no alarm is set
    inputs,         \* history: their number
    \* the kernel
    backlog,        \* clients that wait for accept()
    open,           \* descriptors of accepted connections
    data, fin,      \* those with unread bytes; those closed by the peer
    pipe,           \* bytes in the socket pair
    ready,          \* epoll's ready list
    \* the program
    timerLst,       \* timer_lst
    expire,         \* Timer::expire
    owner,          \* Timer::client_data, as its descriptor
    allocated,      \* the Timer objects in use
    timer,          \* users[fd].timer
    batch, nret,    \* events not handled yet; how many epoll_wait returned
    timeout, stop,
    pc

clients == <<inputs, backlog, data, fin>>
timers == <<timerLst, expire, owner, allocated, timer>>
flags == <<timeout, stop>>
vars == <<now, alarmAt, clients, open, pipe, ready, timers, batch, nret, flags, pc>>

Alive == pc \in {"wait", "events"}
Members(s) == {s[i] : i \in DOMAIN s}

(* An edge on x puts it in the ready list, once *)
Edge(x) == ready' = ready \union {x}

-----------------------------------------------------------------------------
(* Time and signals; an alarm that is due is delivered before time goes on *)

Advance ==
    /\ Alive /\ now < MaxNow
    /\ alarmAt = 0 \/ alarmAt > now
    /\ now' = now + 1
    /\ UNCHANGED <<alarmAt, clients, open, pipe, ready, timers, batch, nret, flags, pc>>

Input == Alive /\ inputs < MaxInputs /\ inputs' = inputs + 1

(* sig_handler, on SIGALRM and on SIGTERM *)
SigAlrm ==
    /\ Alive /\ alarmAt # 0 /\ alarmAt <= now
    /\ alarmAt' = 0
    /\ pipe' = Append(pipe, "ALRM")
    /\ Edge("pipe")
    /\ UNCHANGED <<now, clients, open, timers, batch, nret, flags, pc>>

SigTerm ==
    /\ Input
    /\ pipe' = Append(pipe, "TERM")
    /\ Edge("pipe")
    /\ UNCHANGED <<now, alarmAt, backlog, data, fin, open, timers, batch, nret, flags, pc>>

(* The clients; descriptors do not run out *)
Connect ==
    /\ Input
    /\ Cardinality(open) + backlog < Cardinality(Fds)
    /\ backlog' = backlog + 1
    /\ Edge("listen")
    /\ UNCHANGED <<now, alarmAt, data, fin, open, pipe, timers, batch, nret, flags, pc>>

Send(f) ==
    /\ Input /\ f \in open \ (data \union fin)
    /\ data' = data \union {f}
    /\ Edge(f)
    /\ UNCHANGED <<now, alarmAt, backlog, fin, open, pipe, timers, batch, nret, flags, pc>>

HangUp(f) ==
    /\ Input /\ f \in open \ fin
    /\ fin' = fin \union {f}
    /\ Edge(f)
    /\ UNCHANGED <<now, alarmAt, backlog, data, open, pipe, timers, batch, nret, flags, pc>>

-----------------------------------------------------------------------------
(* The main loop *)

Readable(x) ==
    CASE x = "listen" -> backlog > 0
      [] x = "pipe" -> pipe # <<>>
      [] OTHER -> x \in data \union fin

(* A signal makes epoll_wait fail with EINTR, and the loop calls it again *)
EpollWait ==
    /\ pc = "wait"
    /\ batch' = {x \in ready : Readable(x)}
    /\ batch' # {}
    /\ nret' = Cardinality(batch')
    /\ ready' = {}
    /\ pc' = "events"
    /\ UNCHANGED <<now, alarmAt, clients, open, pipe, timers, flags>>

(* The events of a batch, in whatever order epoll has them; the tick, if   *)
(* one is due, comes first                                                 *)
At(x) == pc = "events" /\ ~timeout /\ x \in batch /\ batch' = batch \ {x}

EndOfBatch ==
    /\ pc = "events" /\ ~timeout /\ batch = {}
    /\ pc' = IF stop THEN "exited" ELSE "wait"
    /\ UNCHANGED <<now, alarmAt, clients, open, pipe, ready, timers, batch, nret, flags>>

Accept(f, t) ==
    /\ At("listen")
    /\ backlog > 0 /\ f \in Fds \ open /\ t \in Timers \ allocated
    /\ backlog' = backlog - 1
    /\ open' = open \union {f}
    /\ allocated' = allocated \union {t}
    /\ owner' = [owner EXCEPT ![t] = f]
    /\ expire' = [expire EXCEPT ![t] = now + 3 * Slot]
    /\ timer' = [timer EXCEPT ![f] = t]
    /\ timerLst' = AddTimer(NewTimer(timerLst, t), expire', t)
    /\ UNCHANGED <<now, alarmAt, inputs, data, fin, pipe, ready, nret, flags, pc>>

(* The bytes of the pipe are read into signals[], but the loop over them   *)
(* runs to nret, the number of events: it misses the last bytes, or reads  *)
(* on in what the array holds, which nobody initialized                    *)
ReadSignals(stale) ==
    LET seen == {pipe[i] : i \in {j \in DOMAIN pipe : j <= nret}}
                  \union (IF nret > Len(pipe) THEN stale ELSE {})
    IN  /\ At("pipe")
        /\ pipe' = <<>>
        /\ timeout' = ("ALRM" \in seen)
        /\ stop' = (stop \/ "TERM" \in seen)
        /\ UNCHANGED <<now, alarmAt, clients, open, ready, timers, nret, pc>>

(* Bytes from an open connection: its timer is put off *)
ReadData(f) ==
    /\ At(f) /\ f \in open \ fin
    /\ data' = data \ {f}
    /\ IF f \in data
         THEN /\ expire' = [expire EXCEPT ![timer[f]] = now + 3 * Slot]
              /\ timerLst' = AdjustTimer(timerLst, expire', timer[f])
         ELSE UNCHANGED <<expire, timerLst>>
    /\ UNCHANGED <<now, alarmAt, inputs, backlog, fin, open, pipe, ready, owner, allocated,
                   timer, nret, flags, pc>>

(* callback_func on the descriptors S: removed from epoll, and closed *)
Close(S) ==
    /\ open' = open \ S
    /\ data' = data \ S
    /\ fin' = fin \ S
    /\ ready' = ready \ S

(* Slip: del_timer() left out *)
ReadEndKeepsTimer(f) ==
    /\ At(f) /\ f \in open \intersect fin
    /\ Close({f})
    /\ UNCHANGED <<now, alarmAt, inputs, backlog, pipe, timers, nret, flags, pc>>

(* The peer closed: what it sent last still moves the timer, which is then *)
(* deleted; users[f].timer keeps its address                               *)
ReadEnd(f) ==
    /\ At(f) /\ f \in open \intersect fin
    /\ Close({f})
    /\ expire' = IF f \in data THEN [expire EXCEPT ![timer[f]] = now + 3 * Slot] ELSE expire
    /\ timerLst' = DelTimer(IF f \in data THEN AdjustTimer(timerLst, expire', timer[f]) ELSE timerLst,
                            timer[f])
    /\ allocated' = allocated \ {timer[f]}
    /\ UNCHANGED <<now, alarmAt, inputs, backlog, pipe, owner, timer, nret, flags, pc>>

(* The tick closed it earlier in the batch: read() fails with EBADF, then  *)
(* callback_func's epoll_ctl() does, and err_sys() exits                   *)
ReadClosed(f) ==
    /\ At(f) /\ f \notin open
    /\ pc' = "died"
    /\ UNCHANGED <<now, alarmAt, clients, open, pipe, ready, timers, nret, flags>>

(* Slip: the alarm is not set again when the list is empty *)
NextAlarmIfAny == alarmAt' = IF timerLst.head = Null THEN alarmAt ELSE now + Slot

NextAlarm == alarmAt' = now + Slot

(* timer_handler(), inside the loop over the batch.  A timer without an    *)
(* open connection would be fatal to callback_func.                        *)
Tick ==
    LET fired == Expired(timerLst, expire, now)
        fds == {owner[t] : t \in fired}
    IN  /\ pc = "events" /\ timeout
        /\ timeout' = FALSE
        /\ Close(fds)
        /\ timerLst' = TickList(timerLst, expire, now)
        /\ allocated' = allocated \ fired
        /\ NextAlarm
        /\ pc' = IF fds \subseteq open THEN pc ELSE "died"
        /\ UNCHANGED <<now, inputs, backlog, pipe, expire, owner, timer, batch, nret, stop>>

-----------------------------------------------------------------------------
Init ==
    /\ now = 0 /\ alarmAt = Slot
    /\ inputs = 0 /\ backlog = 0
    /\ open = {} /\ data = {} /\ fin = {}
    /\ pipe = <<>> /\ ready = {}
    /\ timerLst = Empty
    /\ expire = [t \in Timers |-> 0]
    /\ owner = [t \in Timers |-> Null]
    /\ allocated = {}
    /\ timer = [f \in Fds |-> Null]
    /\ batch = {} /\ nret = 0
    /\ timeout = FALSE /\ stop = FALSE
    /\ pc = "wait"

Next ==
    \/ Advance \/ SigAlrm \/ SigTerm \/ Connect
    \/ EpollWait \/ EndOfBatch \/ Tick
    \/ \E stale \in SUBSET {"ALRM", "TERM"} : ReadSignals(stale)
    \/ \E f \in Fds, t \in Timers : Accept(f, t)
    \/ \E f \in Fds : Send(f) \/ HangUp(f) \/ ReadData(f) \/ ReadEnd(f) \/ ReadClosed(f)

Spec == Init /\ [][Next]_vars

-----------------------------------------------------------------------------
TypeOK ==
    /\ now \in Nat /\ alarmAt \in Nat /\ inputs \in 0 .. MaxInputs /\ backlog \in Nat
    /\ open \subseteq Fds /\ data \subseteq open /\ fin \subseteq open
    /\ pipe \in Seq({"ALRM", "TERM"})
    /\ ready \subseteq Fds \union {"listen", "pipe"}
    /\ timerLst.head \in Timers \union {Null} /\ timerLst.tail \in Timers \union {Null}
    /\ timerLst.next \in [Timers -> Timers \union {Null}]
    /\ timerLst.prev \in [Timers -> Timers \union {Null}]
    /\ expire \in [Timers -> Nat]
    /\ owner \in [Timers -> Fds \union {Null}]
    /\ allocated \subseteq Timers
    /\ timer \in [Fds -> Timers \union {Null}]
    /\ \A f \in open : timer[f] # Null
    /\ batch \subseteq Fds \union {"listen", "pipe"} /\ nret \in 0 .. MaxRet
    /\ timeout \in BOOLEAN /\ stop \in BOOLEAN
    /\ pc \in {"wait", "events", "exited", "died"}

(* Whatever the order of additions, adjustments, deletions and ticks, the  *)
(* list is sorted and linked both ways, and holds every timer that was     *)
(* not deleted and no other: nothing leaks, nothing deleted is reachable.  *)
WellLinked == ListOf(timerLst, expire, allocated)

(* Each open connection has one live timer, that is its own, and there are *)
(* no others: a tick calls callback_func once, on an open descriptor.      *)
TimerPerConnection ==
    pc # "died" =>
        /\ \A f \in open : timer[f] \in allocated /\ owner[timer[f]] = f
        /\ Cardinality(allocated) = Cardinality(open)

(* No timer that had expired at the last tick is left.                     *)
NotLate == alarmAt # 0 => \A t \in allocated : expire[t] > alarmAt - Slot

(* The alarms never stop, though each is set by the one before: one is     *)
(* set, or its byte is in the pipe and epoll knows, or the tick is next.   *)
(* The loop that runs to nret could miss it only behind a SIGTERM.         *)
AlarmsGoOn ==
    Alive /\ ~stop =>
        \/ alarmAt # 0
        \/ timeout
        \/ "ALRM" \in Members(pipe) /\ "pipe" \in ready \union batch

(* main.cpp:130: data on a socket says its connection is active; so one    *)
(* with data that epoll_wait has reported is not closed as idle.           *)
ActiveIsKept ==
    [][\A f \in (batch \intersect data) \ fin : f \in open']_vars

(* The list, the alarm and the callbacks do what IdleTimers.tla says. *)
IT == INSTANCE IdleTimers WITH
        Delay <- 3 * Slot,
        None <- Null,
        due <- [f \in Fds |-> IF f \in open THEN expire[timer[f]] ELSE Null]

ImplementsIdleTimers == IT!Spec
=============================================================================
