------------------------------ MODULE ChatShm ------------------------------
(***************************************************************************)
(* The chat room with a child process per user (chatroom_srv1.c).  A child *)
(* reads its client's messages into its part of a shared memory segment    *)
(* and sends the part's index to the parent over a socket pair; the parent *)
(* passes the index to the other children, which write the message to      *)
(* their clients.  A user, its child and their socket pair are named by    *)
(* the client.  Descriptors are edge-triggered, and of what has arrived    *)
(* one int or one buffer is read for each event; a batch has its events in *)
(* whatever order.  Signals reach the parent through a pipe.               *)
(***************************************************************************)
EXTENDS Integers, Sequences, FiniteSets

CONSTANTS
    Clients,    \* each connects at most once
    Limit,      \* USER_LIMIT
    MaxMsgs,    \* bound: messages sent by all clients together
    MaxTerms    \* bound: how often SIGTERM is sent to the parent

ShmAssumption == Limit \in Nat \ {0} /\ {"listen", "sig"} \intersect Clients = {}

VARIABLES
    state,      \* "off", "backlog", "on", "closed" (by the client), "refused"
    unread,     \* messages from a client in its socket
    msgs, terms, \* history: how many
    \* the parent
    users,      \* users[0 .. user_count - 1], by their clients
    sub,        \* sub_proccess, by client
    terminate, stop_server,
    raised,     \* a SIGCHLD whose handler has not run
    sigs,       \* bytes in sig_pipefd
    todo,       \* signals read and not handled yet
    ready, batch, \* epoll's ready list; events not handled yet
    up, down,   \* indices on their way from and to a child
    pc,
    \* the children
    kid,        \* where a child is; "zombie" until the parent waits for it
    index,      \* the argument of child_run
    stop,       \* stop_child
    kready, kbatch, \* as ready and batch
    shm         \* whose message a part of the memory holds

outside == <<state, unread, msgs, terms>>
table == <<users, sub>>
flags == <<terminate, stop_server>>
signals == <<raised, sigs, todo>>
events == <<ready, batch>>
pipes == <<up, down>>
children == <<kid, index, stop, kready, kbatch, shm>>
vars == <<outside, table, flags, signals, events, pipes, pc, children>>

None == "none"
Running == pc \in {"wait", "events", "signals"}
Members(s) == {s[k] : k \in DOMAIN s}
Living == {k \in Clients : kid[k] \in {"test", "enter", "wait", "events"}}
Unreaped == Living \union {k \in Clients : kid[k] = "zombie"}

(* An edge for the parent, and for the child of k *)
Edge(x) == ready' = ready \union {x}
EdgeOf(k, x) == kready' = IF k \in Living THEN [kready EXCEPT ![k] = @ \union {x}] ELSE kready

-----------------------------------------------------------------------------
(* The clients, and whoever sends SIGTERM *)
Connect(c) ==
    /\ Running /\ state[c] = "off"
    /\ state' = [state EXCEPT ![c] = "backlog"]
    /\ Edge("listen")
    /\ UNCHANGED <<unread, msgs, terms, table, flags, signals, batch, pipes, pc, children>>

Send(c) ==
    /\ Running /\ state[c] = "on" /\ msgs < MaxMsgs
    /\ msgs' = msgs + 1
    /\ unread' = [unread EXCEPT ![c] = @ + 1]
    /\ EdgeOf(c, "conn")
    /\ UNCHANGED <<state, terms, table, flags, signals, events, pipes, pc, kid, index, stop, kbatch, shm>>

Quit(c) ==
    /\ Running /\ state[c] = "on"
    /\ state' = [state EXCEPT ![c] = "closed"]
    /\ EdgeOf(c, "conn")
    /\ UNCHANGED <<unread, msgs, terms, table, flags, signals, events, pipes, pc, kid, index, stop, kbatch, shm>>

SigTerm ==
    /\ Running /\ terms < MaxTerms
    /\ terms' = terms + 1
    /\ sigs' = Append(sigs, "TERM")
    /\ Edge("sig")
    /\ UNCHANGED <<state, unread, msgs, table, flags, raised, todo, batch, pipes, pc, children>>

(* Slip: the byte is written and epoll does not know *)
SigChldNoEdge ==
    /\ Running /\ raised
    /\ raised' = FALSE
    /\ sigs' = Append(sigs, "CHLD")
    /\ UNCHANGED <<outside, table, flags, todo, events, pipes, pc, children>>

(* sig_handler, on SIGCHLD; one run stands for children that ended together *)
SigChld ==
    /\ Running /\ raised
    /\ raised' = FALSE
    /\ sigs' = Append(sigs, "CHLD")
    /\ Edge("sig")
    /\ UNCHANGED <<outside, table, flags, todo, batch, pipes, pc, children>>

-----------------------------------------------------------------------------
(* A child *)
Move(k, from, to) == kid[k] = from /\ kid' = [kid EXCEPT ![k] = to]

(* Its descriptors are closed, and that is an edge for the parent, before  *)
(* it becomes a zombie                                                     *)
Exit(k, from) ==
    /\ Move(k, from, "zombie")
    /\ raised' = TRUE
    /\ Edge(k)

KidTest(k) ==
    /\ IF stop[k] THEN Exit(k, "test") ELSE Move(k, "test", "enter") /\ UNCHANGED <<raised, ready>>
    /\ UNCHANGED <<outside, table, flags, sigs, todo, batch, pipes, pc, index, stop, kready, kbatch, shm>>

KidEnter(k) ==
    /\ Move(k, "enter", "wait")
    /\ UNCHANGED <<outside, table, flags, signals, events, pipes, pc, index, stop, kready, kbatch, shm>>

KidReadable(k, x) == IF x = "conn" THEN unread[k] > 0 \/ state[k] = "closed" ELSE down[k] # <<>>

KidWait(k) ==
    LET found == {x \in kready[k] : KidReadable(k, x)}
    IN  /\ Move(k, "wait", "events")
        /\ found # {}
        /\ kbatch' = [kbatch EXCEPT ![k] = found]
        /\ kready' = [kready EXCEPT ![k] = {}]
        /\ UNCHANGED <<outside, table, flags, signals, events, pipes, pc, index, stop, shm>>

KidAt(k, x) ==
    /\ kid[k] = "events" /\ x \in kbatch[k]
    /\ kbatch' = [kbatch EXCEPT ![k] = @ \ {x}]

(* From the client, in one read: what has arrived, into the part of the    *)
(* memory that this child was given                                        *)
KidReads(k) ==
    /\ KidAt(k, "conn") /\ unread[k] > 0
    /\ unread' = [unread EXCEPT ![k] = 0]
    /\ shm' = [shm EXCEPT ![index[k]] = k]
    /\ up' = [up EXCEPT ![k] = Append(@, index[k])]
    /\ Edge(k)
    /\ UNCHANGED <<state, msgs, terms, table, flags, signals, batch, down, pc, kid, index, stop, kready>>

KidFindsEnd(k) ==
    /\ kid[k] = "events" /\ "conn" \in kbatch[k]
    /\ unread[k] = 0 /\ state[k] = "closed"
    /\ stop' = [stop EXCEPT ![k] = TRUE]
    /\ kbatch' = [kbatch EXCEPT ![k] = {}]
    /\ UNCHANGED <<outside, table, flags, signals, events, pipes, pc, kid, index, kready, shm>>

(* read() would block: the data was read at an earlier event *)
KidFindsNothing(k) ==
    /\ \/ KidAt(k, "conn") /\ unread[k] = 0 /\ state[k] # "closed"
       \/ KidAt(k, "pipe") /\ down[k] = <<>>
    /\ UNCHANGED <<outside, table, flags, signals, events, pipes, pc, kid, index, stop, kready, shm>>

(* From the parent: one index; its part of the memory goes to the client.  *)
(* Writing to a client that has closed may fail, and ends the child.       *)
KidForwards(k) ==
    /\ KidAt(k, "pipe") /\ down[k] # <<>>
    /\ down' = [down EXCEPT ![k] = Tail(@)]
    /\ \/ UNCHANGED <<kid, raised, ready>>
       \/ state[k] = "closed" /\ Exit(k, "events")
    /\ UNCHANGED <<outside, table, flags, sigs, todo, batch, up, pc, index, stop, kready, shm>>

KidEndOfBatch(k) ==
    /\ Move(k, "events", "test") /\ kbatch[k] = {}
    /\ UNCHANGED <<outside, table, flags, signals, events, pipes, pc, index, stop, kready, kbatch, shm>>

KidStep(k) ==
    \/ KidTest(k) \/ KidEnter(k) \/ KidWait(k) \/ KidReads(k) \/ KidFindsEnd(k)
    \/ KidFindsNothing(k) \/ KidForwards(k) \/ KidEndOfBatch(k)

-----------------------------------------------------------------------------
(* The parent *)
Readable(x) ==
    CASE x = "listen" -> \E c \in Clients : state[c] = "backlog"
      [] x = "sig" -> sigs # <<>>
      [] OTHER -> up[x] # <<>> \/ kid[x] = "zombie"

EpollWait ==
    /\ pc = "wait"
    /\ batch' = {x \in ready : Readable(x)}
    /\ batch' # {}
    /\ ready' = {}
    /\ pc' = "events"
    /\ UNCHANGED <<outside, table, flags, signals, pipes, children>>

At(x) == pc = "events" /\ x \in batch /\ batch' = batch \ {x}

EndOfBatch ==
    /\ pc = "events" /\ batch = {}
    /\ pc' = IF stop_server THEN "exited" ELSE "wait"
    /\ UNCHANGED <<outside, table, flags, signals, events, pipes, children>>

Refuse(c) ==
    /\ At("listen") /\ state[c] = "backlog" /\ Len(users) >= Limit
    /\ state' = [state EXCEPT ![c] = "refused"]
    /\ UNCHANGED <<unread, msgs, terms, table, flags, signals, ready, pipes, pc, children>>

(* accept(), socketpair() and fork() *)
Accept(c) ==
    /\ At("listen") /\ state[c] = "backlog" /\ Len(users) < Limit
    /\ state' = [state EXCEPT ![c] = "on"]
    /\ users' = Append(users, c)
    /\ sub' = [sub EXCEPT ![c] = Len(users)]
    /\ index' = [index EXCEPT ![c] = Len(users)]
    /\ Move(c, None, "test")
    /\ UNCHANGED <<unread, msgs, terms, flags, signals, ready, pipes, pc, stop, kready, kbatch, shm>>

ReadSignals ==
    /\ At("sig")
    /\ todo' = sigs
    /\ sigs' = <<>>
    /\ pc' = "signals"
    /\ UNCHANGED <<outside, table, flags, raised, ready, pipes, children>>

(* Slip: sub_proccess of the moved user is not updated *)
ReapStaleSub(k) ==
    LET d == sub[k]
    IN  /\ pc = "signals" /\ todo # <<>> /\ Head(todo) = "CHLD"
        /\ Move(k, "zombie", "reaped")
        /\ users' = SubSeq([users EXCEPT ![d + 1] = users[Len(users)]], 1, Len(users) - 1)
        /\ sub' = [sub EXCEPT ![k] = -1]
        /\ ready' = ready \ {k}
        /\ UNCHANGED <<outside, flags, signals, batch, pipes, pc, index, stop, kready, kbatch, shm>>

(* SIGCHLD: a zombie is waited for, its socket closed, and the last user   *)
(* moved to its place.  If it was the last itself, its sub_proccess is set *)
(* again, and never read.                                                  *)
Reap(k) ==
    LET d == sub[k]
        last == users[Len(users)]
    IN  /\ pc = "signals" /\ todo # <<>> /\ Head(todo) = "CHLD"
        /\ Move(k, "zombie", "reaped")
        /\ users' = SubSeq([users EXCEPT ![d + 1] = last], 1, Len(users) - 1)
        /\ sub' = [sub EXCEPT ![k] = -1, ![last] = d]
        /\ ready' = ready \ {k}
        /\ UNCHANGED <<outside, flags, signals, batch, pipes, pc, index, stop, kready, kbatch, shm>>

NoMoreZombies ==
    /\ pc = "signals" /\ todo # <<>> /\ Head(todo) = "CHLD"
    /\ \A k \in Clients : kid[k] # "zombie"
    /\ todo' = Tail(todo)
    /\ stop_server' = (stop_server \/ (terminate /\ users = <<>>))
    /\ UNCHANGED <<outside, table, terminate, raised, sigs, events, pipes, pc, children>>

(* SIGTERM is passed to every child: child_term_handler sets stop_child,   *)
(* and epoll_wait fails if the child is in it                              *)
Terminate ==
    LET hit == Members(users) \intersect Living
    IN  /\ pc = "signals" /\ todo # <<>> /\ Head(todo) = "TERM"
        /\ todo' = Tail(todo)
        /\ stop_server' = (stop_server \/ users = <<>>)
        /\ terminate' = (terminate \/ users # <<>>)
        /\ stop' = [k \in Clients |-> stop[k] \/ k \in hit]
        /\ kid' = [k \in Clients |-> IF k \in hit /\ kid[k] = "wait" THEN "test" ELSE kid[k]]
        /\ UNCHANGED <<outside, table, raised, sigs, events, pipes, pc, index, kready, kbatch, shm>>

NoMoreSignals ==
    /\ pc = "signals" /\ todo = <<>>
    /\ pc' = "events"
    /\ UNCHANGED <<outside, table, flags, signals, events, pipes, children>>

(* A child's socket was closed after the batch was taken: fatal *)
PipeClosed(k) ==
    /\ At(k) /\ kid[k] = "reaped"
    /\ pc' = "died"
    /\ UNCHANGED <<outside, table, flags, signals, ready, pipes, children>>

PipeEmpty(k) ==
    /\ At(k) /\ kid[k] # "reaped" /\ up[k] = <<>>
    /\ UNCHANGED <<outside, table, flags, signals, ready, pipes, pc, children>>

(* One index, to every other user's child; if one has ended, write() fails *)
(* with EPIPE, which is fatal                                              *)
Broadcast(k) ==
    LET others == Members(users) \ {k}
    IN  /\ At(k) /\ kid[k] # "reaped" /\ up[k] # <<>>
        /\ up' = [up EXCEPT ![k] = Tail(@)]
        /\ down' = [j \in Clients |-> IF j \in others THEN Append(down[j], Head(up[k])) ELSE down[j]]
        /\ kready' = [j \in Clients |->
                        kready[j] \union (IF j \in others \intersect Living THEN {"pipe"} ELSE {})]
        /\ pc' = IF others \subseteq Living THEN pc ELSE "died"
        /\ UNCHANGED <<outside, table, flags, signals, ready, kid, index, stop, kbatch, shm>>

-----------------------------------------------------------------------------
Init ==
    /\ state = [c \in Clients |-> "off"] /\ unread = [c \in Clients |-> 0]
    /\ msgs = 0 /\ terms = 0
    /\ users = <<>> /\ sub = [c \in Clients |-> -1]
    /\ terminate = FALSE /\ stop_server = FALSE
    /\ raised = FALSE /\ sigs = <<>> /\ todo = <<>>
    /\ ready = {} /\ batch = {}
    /\ up = [c \in Clients |-> <<>>] /\ down = [c \in Clients |-> <<>>]
    /\ pc = "wait"
    /\ kid = [c \in Clients |-> None] /\ index = [c \in Clients |-> -1]
    /\ stop = [c \in Clients |-> FALSE]
    /\ kready = [c \in Clients |-> {}] /\ kbatch = [c \in Clients |-> {}]
    /\ shm = [x \in 0 .. Limit - 1 |-> None]

Next ==
    \/ SigTerm \/ SigChld \/ EpollWait \/ EndOfBatch \/ ReadSignals \/ NoMoreZombies
    \/ Terminate \/ NoMoreSignals
    \/ \E c \in Clients :
          \/ Connect(c) \/ Send(c) \/ Quit(c) \/ (Running /\ KidStep(c))
          \/ Refuse(c) \/ Accept(c) \/ Reap(c) \/ PipeClosed(c) \/ PipeEmpty(c) \/ Broadcast(c)

Spec == Init /\ [][Next]_vars

-----------------------------------------------------------------------------
(* In whatever order children end and users are moved, sub_proccess leads  *)
(* from each child that was not waited for to its user's record, and there *)
(* are no other records.                                                   *)
RecordsMatch ==
    /\ Len(users) = Cardinality(Unreaped)
    /\ \A k \in Unreaped : sub[k] + 1 \in DOMAIN users /\ users[sub[k] + 1] = k

(* A child that has ended will be waited for, though signals merge and the *)
(* pipe's event comes only once: the signal is raised, or its byte is in   *)
(* the pipe or read and epoll or the loop knows.                           *)
ZombieIsNoticed ==
    Running /\ (\E k \in Clients : kid[k] = "zombie") =>
        \/ raised
        \/ "CHLD" \in Members(sigs) /\ "sig" \in ready \union batch
        \/ "CHLD" \in Members(todo)
=============================================================================
