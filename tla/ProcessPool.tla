---------------------------- MODULE ProcessPool ----------------------------
(***************************************************************************)
(* The process pool (ProcessPool.h) and its CGI connections (server.cpp).  *)
(* For each event of the listening socket the parent writes an int to the  *)
(* next child, which accepts one connection and, when a request has come,  *)
(* forks a program for it.  Descriptors are edge-triggered, and a batch has *)
(* its events in whatever order; signals reach each process through a pipe *)
(* of its own.  A child is named by its index.                             *)
(***************************************************************************)
EXTENDS Naturals, Sequences, FiniteSets

CONSTANTS
    m_process_num,  \* children
    Clients,        \* each connects at most once
    Parts,          \* segments a request comes in
    MaxTerms        \* bound: how often SIGTERM or SIGINT is sent

PoolAssumption ==
    /\ {m_process_num, Parts} \subseteq Nat \ {0}
    /\ IsFiniteSet(Clients) /\ {"pipe", "sig"} \intersect Clients = {}

Procs == 0 .. m_process_num - 1

VARIABLES
    state,      \* of a connection: "off", "backlog", "on"; "closed" by the server;
                \* its program: "running", "ended", "reaped"
    unread,     \* parts of its request in the socket
    left,       \* clients that have closed, until the server does
    terms,      \* history
    \* the parent
    sub_proc_cnt,
    alive,      \* children whose m_pid is not -1
    stop, raised, sigs, todo, ready, batch, \* as in the chat room's parent
    nret,       \* events in the batch
    pc,
    \* the children
    kid,        \* "wait", "events", "zombie", "reaped"
    owner,      \* the child that accepted a connection
    kpipe,      \* ints in its pipe
    ksigs,      \* signals in its sig_pipefd
    kstop, kready, kbatch

conns == <<state, unread, left>>
parent == <<sub_proc_cnt, alive, stop, nret, pc>>
signals == <<sigs, todo, terms>>
events == <<ready, batch>>
children == <<kid, owner, kpipe, ksigs, kstop, kready, kbatch>>
vars == <<conns, parent, raised, signals, events, children>>

Running == pc \in {"wait", "events", "signals"}
Backlog == {c \in Clients : state[c] = "backlog"}
Living == {k \in Procs : kid[k] \in {"wait", "events"}}

Edge(x) == ready' = ready \union {x}
EdgeOf(k, x) == kready' = IF k \in Living THEN [kready EXCEPT ![k] = @ \union {x}] ELSE kready

-----------------------------------------------------------------------------
(* Clients, programs, and whoever sends SIGTERM or types ^C *)
Connect(c) ==
    /\ Running /\ state[c] = "off"
    /\ state' = [state EXCEPT ![c] = "backlog"]
    /\ Edge("listen")
    /\ UNCHANGED <<unread, left, parent, raised, signals, batch, children>>

Arrival(c) ==
    IF state[c] = "on" THEN EdgeOf(owner[c], c) ELSE UNCHANGED kready

Send(c) ==
    /\ Running /\ state[c] \in {"backlog", "on"} /\ c \notin left /\ unread[c] < Parts
    /\ unread' = [unread EXCEPT ![c] = @ + 1]
    /\ Arrival(c)
    /\ UNCHANGED <<state, left, parent, raised, signals, events, kid, owner, kpipe, ksigs, kstop, kbatch>>

Leave(c) ==
    /\ Running /\ state[c] \in {"backlog", "on"} /\ c \notin left
    /\ left' = left \union {c}
    /\ Arrival(c)
    /\ UNCHANGED <<state, unread, parent, raised, signals, events, kid, owner, kpipe, ksigs, kstop, kbatch>>

ProgramEnds(c) ==
    /\ Running /\ state[c] = "running"
    /\ state' = [state EXCEPT ![c] = "ended"]
    /\ ksigs' = [ksigs EXCEPT ![owner[c]] = @ \union {"CHLD"}]
    /\ EdgeOf(owner[c], "sig")
    /\ UNCHANGED <<unread, left, parent, raised, signals, events, kid, owner, kpipe, kstop, kbatch>>

(* To the parent, or to the process group *)
Signal(group) ==
    /\ Running /\ terms < MaxTerms
    /\ terms' = terms + 1
    /\ sigs' = Append(sigs, "TERM")
    /\ Edge("sig")
    /\ ksigs' = [k \in Procs |-> ksigs[k] \union (IF group THEN {"TERM"} ELSE {})]
    /\ kready' = [k \in Procs |-> kready[k] \union (IF group /\ k \in Living THEN {"sig"} ELSE {})]
    /\ UNCHANGED <<conns, parent, raised, todo, batch, kid, owner, kpipe, kstop, kbatch>>

(* sig_handler in the parent, on SIGCHLD *)
SigChld ==
    /\ Running /\ raised
    /\ raised' = FALSE
    /\ sigs' = Append(sigs, "CHLD")
    /\ Edge("sig")
    /\ UNCHANGED <<conns, parent, todo, terms, batch, children>>

-----------------------------------------------------------------------------
(* run_parent() *)
Readable(x) == IF x = "listen" THEN Backlog # {} ELSE sigs # <<>>

EpollWait ==
    /\ pc = "wait"
    /\ batch' = {x \in ready : Readable(x)}
    /\ batch' # {}
    /\ ready' = {}
    /\ nret' = Cardinality(batch')
    /\ pc' = "events"
    /\ UNCHANGED <<conns, sub_proc_cnt, alive, stop, raised, signals, children>>

At(x) == pc = "events" /\ x \in batch /\ batch' = batch \ {x}

EndOfBatch ==
    /\ pc = "events" /\ batch = {}
    /\ pc' = IF stop THEN "exited" ELSE "wait"
    /\ UNCHANGED <<conns, sub_proc_cnt, alive, stop, nret, raised, signals, events, children>>

(* A child's end of its pipe is open in the programs it forked, too *)
Written(k) == \/ k \in Living
              \/ kid[k] = "zombie" /\ \E c \in Clients : owner[c] = k /\ state[c] = "running"

(* Slip: an int to the next child as well *)
DispatchTwice ==
    /\ At("listen") /\ Written(sub_proc_cnt)
    /\ kpipe' = [k \in Procs |-> kpipe[k] + 1]
    /\ kready' = [k \in Procs |-> kready[k] \union {"pipe"}]
    /\ sub_proc_cnt' = (sub_proc_cnt + 1) % m_process_num
    /\ UNCHANGED <<conns, alive, stop, nret, pc, raised, signals, ready, kid, owner, ksigs, kstop, kbatch>>

(* Round robin, one int for an event, however many connections it is for *)
Dispatch ==
    /\ At("listen") /\ Written(sub_proc_cnt)
    /\ kpipe' = [kpipe EXCEPT ![sub_proc_cnt] = @ + 1]
    /\ EdgeOf(sub_proc_cnt, "pipe")
    /\ sub_proc_cnt' = (sub_proc_cnt + 1) % m_process_num
    /\ UNCHANGED <<conns, alive, stop, nret, pc, raised, signals, ready, kid, owner, ksigs, kstop, kbatch>>

(* EPIPE, or EBADF once the child was waited for: fatal *)
DispatchFails ==
    /\ At("listen") /\ ~Written(sub_proc_cnt)
    /\ pc' = "died"
    /\ UNCHANGED <<conns, sub_proc_cnt, alive, stop, nret, raised, signals, ready, children>>

(* As many signals as there were events are handled, be there fewer in the *)
(* array, which is not initialised, or more, which are lost                *)
ReadSignals ==
    /\ At("sig")
    /\ \E junk \in [1 .. nret -> {"CHLD", "TERM", "other"}] : todo' = SubSeq(sigs \o junk, 1, nret)
    /\ sigs' = <<>>
    /\ pc' = "signals"
    /\ UNCHANGED <<conns, sub_proc_cnt, alive, stop, nret, raised, terms, ready, children>>

Handle(x) == pc = "signals" /\ todo # <<>> /\ Head(todo) = x /\ todo' = Tail(todo)

(* waitpid() for every child that ended; stop when none is left *)
Sigchld ==
    LET ended == {k \in Procs : kid[k] = "zombie"}
    IN  /\ Handle("CHLD")
        /\ kid' = [k \in Procs |-> IF k \in ended THEN "reaped" ELSE kid[k]]
        /\ alive' = alive \ ended
        /\ stop' = (alive' = {})
        /\ UNCHANGED <<conns, sub_proc_cnt, nret, pc, raised, sigs, terms, events,
                       owner, kpipe, ksigs, kstop, kready, kbatch>>

Sigterm ==
    LET hit == alive \intersect Living
    IN  /\ Handle("TERM")
        /\ ksigs' = [k \in Procs |-> IF k \in hit THEN ksigs[k] \union {"TERM"} ELSE ksigs[k]]
        /\ kready' = [k \in Procs |-> kready[k] \union (IF k \in hit THEN {"sig"} ELSE {})]
        /\ UNCHANGED <<conns, parent, raised, sigs, terms, events, kid, owner, kpipe, kstop, kbatch>>

EndOfSignals ==
    /\ \/ Handle("other") /\ pc' = pc
       \/ pc = "signals" /\ todo = <<>> /\ pc' = "events" /\ UNCHANGED todo
    /\ UNCHANGED <<conns, sub_proc_cnt, alive, stop, nret, raised, sigs, terms, events, children>>

-----------------------------------------------------------------------------
(* run_child() *)
KidReadable(k, x) ==
    CASE x = "pipe" -> kpipe[k] > 0
      [] x = "sig" -> ksigs[k] # {}
      [] OTHER -> unread[x] > 0 \/ x \in left

KidWait(k) ==
    LET found == {x \in kready[k] : KidReadable(k, x)}
    IN  /\ kid[k] = "wait" /\ found # {}
        /\ kid' = [kid EXCEPT ![k] = "events"]
        /\ kbatch' = [kbatch EXCEPT ![k] = found]
        /\ kready' = [kready EXCEPT ![k] = {}]
        /\ UNCHANGED <<conns, parent, raised, signals, events, owner, kpipe, ksigs, kstop>>

KidAt(k, x) ==
    /\ kid[k] = "events" /\ x \in kbatch[k]
    /\ kbatch' = [kbatch EXCEPT ![k] = @ \ {x}]

(* One int is read for an event, and one connection accepted; that there   *)
(* is none would be fatal.  CGI_Conn::init() starts its buffer.            *)
KidAccept(k) ==
    /\ KidAt(k, "pipe")
    /\ kpipe' = [kpipe EXCEPT ![k] = @ - 1]
    /\ IF Backlog = {}
         THEN /\ kid' = [kid EXCEPT ![k] = "zombie"]
              /\ raised' = TRUE
              /\ UNCHANGED <<state, owner, kready>>
         ELSE \E c \in Backlog :
              /\ state' = [state EXCEPT ![c] = "on"]
              /\ owner' = [owner EXCEPT ![c] = k]
              /\ IF unread[c] > 0 \/ c \in left THEN EdgeOf(k, c) ELSE UNCHANGED kready
              /\ UNCHANGED <<kid, raised>>
    /\ UNCHANGED <<unread, left, parent, signals, events, ksigs, kstop>>

(* Slip: of the signals read together, only the first is handled *)
KidSignalsFirst(k) ==
    /\ KidAt(k, "sig")
    /\ \E first \in ksigs[k] :
          /\ kstop' = [kstop EXCEPT ![k] = @ \/ first = "TERM"]
          /\ state' = [c \in Clients |-> IF first = "CHLD" /\ state[c] = "ended" /\ owner[c] = k
                                            THEN "reaped" ELSE state[c]]
    /\ ksigs' = [ksigs EXCEPT ![k] = {}]
    /\ UNCHANGED <<unread, left, parent, raised, signals, events, kid, owner, kpipe, kready>>

KidSignals(k) ==
    /\ KidAt(k, "sig")
    /\ kstop' = [kstop EXCEPT ![k] = @ \/ "TERM" \in ksigs[k]]
    /\ state' = [c \in Clients |-> IF "CHLD" \in ksigs[k] /\ state[c] = "ended" /\ owner[c] = k
                                     THEN "reaped" ELSE state[c]]
    /\ ksigs' = [ksigs EXCEPT ![k] = {}]
    /\ UNCHANGED <<unread, left, parent, raised, signals, events, kid, owner, kpipe, kready>>

(* CGI_Conn::process(): reads until the request is complete or nothing is  *)
(* left, which closes the connection, EWOULDBLOCK included: its test is    *)
(* true whatever errno is.  For a complete request that names a program,   *)
(* forks it and closes the connection here.                                *)
Process(k, c) ==
    /\ KidAt(k, c)
    /\ unread' = [unread EXCEPT ![c] = 0] /\ left' = left \ {c}
    /\ \/ state' = [state EXCEPT ![c] = "closed"]
       \/ unread[c] = Parts /\ state' = [state EXCEPT ![c] = "running"]
    /\ UNCHANGED <<parent, raised, signals, events, kid, owner, kpipe, ksigs, kstop, kready>>

KidEndOfBatch(k) ==
    /\ kid[k] = "events" /\ kbatch[k] = {}
    /\ kid' = [kid EXCEPT ![k] = IF kstop[k] THEN "zombie" ELSE "wait"]
    /\ raised' = (raised \/ kstop[k])
    /\ kready' = IF kstop[k] THEN [kready EXCEPT ![k] = {}] ELSE kready
    /\ UNCHANGED <<conns, parent, signals, events, owner, kpipe, ksigs, kstop, kbatch>>

KidStep(k) ==
    \/ KidWait(k) \/ KidAccept(k) \/ KidSignals(k) \/ KidEndOfBatch(k)
    \/ \E c \in Clients : Process(k, c)

-----------------------------------------------------------------------------
Init ==
    /\ state = [c \in Clients |-> "off"] /\ left = {}
    /\ unread = [c \in Clients |-> 0]
    /\ sub_proc_cnt = 0 /\ alive = Procs /\ stop = FALSE /\ raised = FALSE
    /\ terms = 0 /\ sigs = <<>> /\ todo = <<>> /\ ready = {} /\ batch = {} /\ nret = 0
    /\ pc = "wait"
    /\ kid = [k \in Procs |-> "wait"] /\ owner = [c \in Clients |-> 0]
    /\ kpipe = [k \in Procs |-> 0] /\ ksigs = [k \in Procs |-> {}]
    /\ kstop = [k \in Procs |-> FALSE]
    /\ kready = [k \in Procs |-> {}] /\ kbatch = [k \in Procs |-> {}]

ParentStep ==
    \/ EpollWait \/ EndOfBatch \/ Dispatch \/ DispatchFails \/ ReadSignals \/ Sigchld
    \/ Sigterm \/ EndOfSignals

ClientStep == \E c \in Clients : Connect(c) \/ Send(c) \/ Leave(c) \/ ProgramEnds(c)

Next ==
    \/ ParentStep \/ SigChld \/ ClientStep \/ \E group \in BOOLEAN : Signal(group)
    \/ \E k \in Procs : Running /\ KidStep(k)

Spec == Init /\ [][Next]_vars

(* The processes are scheduled; signals are delivered *)
FairSpec == Spec /\ WF_vars(ParentStep \/ SigChld) /\ \A k \in Procs : WF_vars(Running /\ KidStep(k))

-----------------------------------------------------------------------------
Ints == UNION {{k} \X (1 .. kpipe[k]) : k \in Procs}

(* An int in a pipe, and an event that will put one there, stand for a     *)
(* connection that waits to be accepted: accept() never finds none, which  *)
(* would end the child.                                                    *)
AcceptFinds ==
    Cardinality(Ints) + (IF "listen" \in batch THEN 1 ELSE 0) <= Cardinality(Backlog)

(* A program that ended will be waited for: its child has the signal and   *)
(* knows, or has ended.                                                    *)
ProgramIsNoticed ==
    \A c \in Clients : state[c] = "ended" /\ owner[c] \in Living =>
        LET k == owner[c]
        IN  "CHLD" \in ksigs[k] /\ "sig" \in kready[k] \union kbatch[k]

(* ProcessPool.h:153: signals are handled: a pool told to stop stops.      *)
PoolStops == terms > 0 ~> ~Running
=============================================================================
