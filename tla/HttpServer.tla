----------------------------- MODULE HttpServer -----------------------------
(***************************************************************************)
(* The half-sync/half-reactive HTTP server: main.cpp's epoll loop, the     *)
(* http_conn objects of http_conn.cpp and the worker pool, over a kernel   *)
(* that hands out descriptors, keeps the epoll registrations and carries   *)
(* the clients' segments.                                                  *)
(*                                                                         *)
(* The main thread accepts, reads, writes and closes; workers parse a      *)
(* request and either re-arm its descriptor or close it.  One EPOLLONESHOT *)
(* registration per descriptor is all that keeps the two apart: http_conn  *)
(* has no lock.  append() and the workers' pop are one step each, which    *)
(* ThreadPool.tla justifies (it implements TaskQueue.tla).                 *)
(*                                                                         *)
(* A connection's bytes are segments: "part" of a request, or its "end".   *)
(***************************************************************************)
EXTENDS Integers, Sequences, FiniteSets

CONSTANTS
    Conns,      \* connections clients make
    Fds,        \* descriptors the kernel can hand out
    Main,       \* the thread in main()
    Workers,    \* the threads in threadpool::run()
    MaxTask,    \* the pool's max_ntask
    MaxFd,      \* MAX_FD, the limit on m_user_cnt
    MaxEvents,  \* MAX_EVENT_NUM
    BufSize,    \* READ_BUFFER_SIZE, in segments
    MaxSend,    \* bound: segments a client sends on one connection
    NoConn, NoHandle,
    MayStop     \* bound: whether SIGINT, SIGQUIT or SIGTERM may arrive

ASSUME ServerAssumption ==
    /\ Main \notin Workers
    /\ NoConn \notin Conns
    /\ NoHandle \notin [fd : Fds, c : Conns \union {NoConn}]
    /\ MaxTask \in Nat \ {0} /\ MaxFd \in Nat \ {0} /\ MaxEvents \in Nat \ {0}
    /\ BufSize \in Nat \ {0} /\ MaxSend \in Nat
    /\ MayStop \in BOOLEAN

Threads == {Main} \union Workers

VARIABLES
    \* the clients and the kernel
    net,        \* where each connection is: "none", "backlog", "open", "closed"
    inbox,      \* the segments that arrived and were not read
    sent,       \* how many segments each client sent
    fin,        \* the client closed or reset its end
    conn,       \* the connection behind each descriptor
    interest,   \* epoll: "none" (not registered), "in", "out", "off" (fired)
    lready,     \* epoll: listenfd is in the ready list
    \* the http_conn objects, users[fd]
    sockfd,     \* m_sockfd # -1
    used,       \* m_read_idx, in segments
    got,        \* the read buffer holds a whole request
    linger,     \* m_linger
    resp,       \* m_write_idx > 0
    userCnt,    \* m_user_cnt
    \* the threads
    workqueue,  \* the pool's queue
    stop,       \* the flag sig_handler sets
    batch,      \* events returned by epoll_wait and not handled
    levent,     \* listenfd is among them
    pc, cur, tmp

kernel == <<net, inbox, sent, fin, conn, interest, lready>>
object == <<sockfd, used, got, linger, resp>>
loop == <<batch, levent>>
vars == <<kernel, object, userCnt, workqueue, stop, loop, pc, cur, tmp>>

(* A connection object as a thread holds it: users + fd, and the connection *)
(* it was handed over for, which the code does not know.                    *)
Handle(f) == [fd |-> f, c |-> conn[f]]
Handles == [fd : Fds, c : Conns \union {NoConn}]

fd(th) == cur[th].fd

(* exit() ends every thread with the main one *)
Running == pc[Main] # "exited"

Goto(th, from, to) == Running /\ pc[th] = from /\ pc' = [pc EXCEPT ![th] = to]

-----------------------------------------------------------------------------
(* The clients *)

(* A handshake completes: the connection waits for accept(), and listenfd, *)
(* registered with EPOLLET, sees an edge.                                  *)
Connect(c) ==
    /\ Running /\ net[c] = "none"
    /\ net' = [net EXCEPT ![c] = "backlog"]
    /\ lready' = TRUE
    /\ UNCHANGED <<inbox, sent, fin, conn, interest, object, userCnt, workqueue, stop, loop, pc, cur, tmp>>

Send(c, seg) ==
    /\ Running /\ net[c] \in {"backlog", "open"} /\ ~fin[c] /\ sent[c] < MaxSend
    /\ inbox' = [inbox EXCEPT ![c] = Append(@, seg)]
    /\ sent' = [sent EXCEPT ![c] = @ + 1]
    /\ UNCHANGED <<net, fin, conn, interest, lready, object, userCnt, workqueue, stop, loop, pc, cur, tmp>>

HangUp(c) ==
    /\ Running /\ net[c] \in {"backlog", "open"} /\ ~fin[c]
    /\ fin' = [fin EXCEPT ![c] = TRUE]
    /\ UNCHANGED <<net, inbox, sent, conn, interest, lready, object, userCnt, workqueue, stop, loop, pc, cur, tmp>>

-----------------------------------------------------------------------------
(* epoll.  A disarmed registration reports nothing until modfd() arms it,   *)
(* and arming looks at the descriptor's state at once, so an armed          *)
(* descriptor with something to report is in the ready list.                *)

Event(f) == IF fin[conn[f]] THEN "hup" ELSE interest[f]

Reportable(f) ==
    \/ interest[f] = "out"
    \/ interest[f] = "in" /\ (fin[conn[f]] \/ inbox[conn[f]] # <<>>)

Ready == {f \in Fds : Reportable(f)}

Num(b) == IF b THEN 1 ELSE 0

MinOf(a, b) == IF a < b THEN a ELSE b

(* Slip: a registration without EPOLLONESHOT goes on reporting *)
DisarmNothing(S) == UNCHANGED interest

(* EPOLLONESHOT: a descriptor that was reported is disarmed *)
Disarm(S) == interest' = [f \in Fds |-> IF f \in S THEN "off" ELSE interest[f]]

(* EPOLLET: an edge of listenfd is reported once *)
ReportListen(l) == levent' = l /\ lready' = (lready /\ ~l)

(* epoll_wait moves up to MAX_EVENT_NUM ready descriptors into events[]    *)
EpollWait ==
    /\ Goto(Main, "wait", "next")
    /\ Ready # {} \/ lready
    /\ \E S \in SUBSET Ready, l \in {FALSE, lready} :
          /\ Cardinality(S) + Num(l) = MinOf(MaxEvents, Cardinality(Ready) + Num(lready))
          /\ batch' = {[h |-> Handle(f), ev |-> Event(f)] : f \in S}
          /\ ReportListen(l)
          /\ Disarm(S)
    /\ UNCHANGED <<net, inbox, sent, fin, conn, object, userCnt, workqueue, stop, cur, tmp>>

(* modfd(m_epfd, m_sockfd, ev): on a descriptor of -1 it does nothing *)
Modfd(f, ev) == interest' = IF sockfd[f] THEN [interest EXCEPT ![f] = ev] ELSE interest

-----------------------------------------------------------------------------
(* The main loop *)

LoopTest ==
    /\ Goto(Main, "test", IF stop THEN "exited" ELSE "wait")
    /\ UNCHANGED <<kernel, object, userCnt, workqueue, stop, loop, cur, tmp>>

(* sig_handler; epoll_wait, if the thread is in it, fails with EINTR *)
Signal ==
    /\ Running /\ MayStop /\ ~stop
    /\ stop' = TRUE
    /\ pc' = [pc EXCEPT ![Main] = IF @ = "wait" THEN "test" ELSE @]
    /\ UNCHANGED <<kernel, object, userCnt, workqueue, loop, cur, tmp>>

EndOfBatch ==
    /\ Goto(Main, "next", "test")
    /\ batch = {} /\ ~levent
    /\ UNCHANGED <<kernel, object, userCnt, workqueue, stop, loop, cur, tmp>>

Free == {f \in Fds : conn[f] = NoConn}

(* One accept() per event.  It fails when no descriptor is left. *)
AcceptError ==
    /\ Goto(Main, "next", "next")
    /\ levent /\ Free = {}
    /\ levent' = FALSE
    /\ UNCHANGED <<kernel, object, userCnt, workqueue, stop, batch, cur, tmp>>

Accept(f, c) ==
    /\ pc[Main] = "next" /\ levent
    /\ f \in Free /\ net[c] = "backlog"
    /\ levent' = FALSE
    /\ IF userCnt >= MaxFd
         THEN \* show_error() writes a line and closes
              /\ net' = [net EXCEPT ![c] = "closed"]
              /\ UNCHANGED <<conn, cur, pc>>
         ELSE /\ net' = [net EXCEPT ![c] = "open"]
              /\ conn' = [conn EXCEPT ![f] = c]
              /\ cur' = [cur EXCEPT ![Main] = [fd |-> f, c |-> c]]
              /\ pc' = [pc EXCEPT ![Main] = "i_sock"]
    /\ UNCHANGED <<inbox, sent, fin, interest, lready, object, userCnt, workqueue, stop, batch, tmp>>

(* http_conn::init(sockfd, addr), up to addfd() *)
InitSock ==
    /\ Goto(Main, "i_sock", "i_add")
    /\ sockfd' = [sockfd EXCEPT ![fd(Main)] = TRUE]
    /\ UNCHANGED <<kernel, used, got, linger, resp, userCnt, workqueue, stop, loop, cur, tmp>>

InitAdd ==
    /\ Goto(Main, "i_add", "i_read")
    /\ interest' = [interest EXCEPT ![fd(Main)] = "in"]
    /\ UNCHANGED <<net, inbox, sent, fin, conn, lready, object, userCnt, workqueue, stop, loop, cur, tmp>>

(* m_user_cnt++ is a load and a store *)
InitLoad ==
    /\ Goto(Main, "i_read", "i_write")
    /\ tmp' = [tmp EXCEPT ![Main] = userCnt]
    /\ UNCHANGED <<kernel, object, userCnt, workqueue, stop, loop, cur>>

(* http_conn::init(): the fields that belong to one request *)
ResetRequest(f) ==
    /\ used' = [used EXCEPT ![f] = 0]
    /\ got' = [got EXCEPT ![f] = FALSE]
    /\ linger' = [linger EXCEPT ![f] = FALSE]
    /\ resp' = [resp EXCEPT ![f] = FALSE]

InitStore ==
    /\ Goto(Main, "i_write", "next")
    /\ userCnt' = tmp[Main] + 1
    /\ ResetRequest(fd(Main))
    /\ UNCHANGED <<kernel, sockfd, workqueue, stop, loop, cur, tmp>>

TakeEvent(e, ev, to) ==
    /\ e \in batch /\ e.ev = ev
    /\ Goto(Main, "next", to)
    /\ batch' = batch \ {e}
    /\ cur' = [cur EXCEPT ![Main] = e.h]

HandleHangUp(e) ==
    /\ TakeEvent(e, "hup", "c_test")
    /\ UNCHANGED <<kernel, object, userCnt, workqueue, stop, levent, tmp>>

HandleIn(e) ==
    /\ TakeEvent(e, "in", "read")
    /\ UNCHANGED <<kernel, object, userCnt, workqueue, stop, levent, tmp>>

HandleOut(e) ==
    /\ TakeEvent(e, "out", "write")
    /\ UNCHANGED <<kernel, object, userCnt, workqueue, stop, levent, tmp>>

(* http_conn::read(): reads until the socket is empty.  A full buffer makes *)
(* ::read return 0, as the peer's FIN does.                                 *)
Read ==
    LET f == fd(Main)
        c == conn[f]
        n == MinOf(Len(inbox[c]), BufSize - used[f])
        ok == sockfd[f] /\ used[f] + n < BufSize /\ ~fin[c]
    IN  /\ Goto(Main, "read", IF ok THEN "append" ELSE "c_test")
        /\ IF sockfd[f]
             THEN /\ inbox' = [inbox EXCEPT ![c] = SubSeq(@, n + 1, Len(@))]
                  /\ used' = [used EXCEPT ![f] = @ + n]
                  /\ got' = [got EXCEPT ![f] = @ \/ \E i \in 1 .. n : inbox[c][i] = "end"]
             ELSE UNCHANGED <<inbox, used, got>>
        /\ UNCHANGED <<net, sent, fin, conn, interest, lready, sockfd, linger, resp,
                       userCnt, workqueue, stop, loop, cur, tmp>>

(* pool->append(users + sockfd); its result is ignored *)
AppendTask ==
    /\ Goto(Main, "append", "next")
    /\ workqueue' = IF Len(workqueue) < MaxTask THEN Append(workqueue, cur[Main]) ELSE workqueue
    /\ UNCHANGED <<kernel, object, userCnt, stop, loop, cur, tmp>>

(* Slip: EWOULDBLOCK without modfd(EPOLLOUT) *)
WriteLaterUnarmed ==
    /\ Goto(Main, "write", "next")
    /\ sockfd[fd(Main)]
    /\ UNCHANGED <<kernel, object, userCnt, workqueue, stop, loop, cur, tmp>>

(* http_conn::write().  writev() may leave something for later ...          *)
WriteLater ==
    /\ Goto(Main, "write", "next")
    /\ sockfd[fd(Main)]
    /\ Modfd(fd(Main), "out")
    /\ UNCHANGED <<net, inbox, sent, fin, conn, lready, object, userCnt, workqueue, stop, loop, cur, tmp>>

(* Slip: keep-alive waits for EPOLLOUT again *)
WriteKeepAliveOut ==
    /\ Goto(Main, "write", "next")
    /\ sockfd[fd(Main)] /\ linger[fd(Main)]
    /\ ResetRequest(fd(Main))
    /\ Modfd(fd(Main), "out")
    /\ UNCHANGED <<net, inbox, sent, fin, conn, lready, sockfd, userCnt, workqueue, stop, loop, cur, tmp>>

(* ... or send what it had: keep-alive waits for the next request,          *)
WriteKeepAlive ==
    /\ Goto(Main, "write", "next")
    /\ sockfd[fd(Main)] /\ linger[fd(Main)]
    /\ ResetRequest(fd(Main))
    /\ Modfd(fd(Main), "in")
    /\ UNCHANGED <<net, inbox, sent, fin, conn, lready, sockfd, userCnt, workqueue, stop, loop, cur, tmp>>

(* otherwise the descriptor is armed once more and then closed,             *)
WriteClose ==
    /\ Goto(Main, "write", "c_test")
    /\ sockfd[fd(Main)] /\ ~linger[fd(Main)]
    /\ Modfd(fd(Main), "in")
    /\ UNCHANGED <<net, inbox, sent, fin, conn, lready, object, userCnt, workqueue, stop, loop, cur, tmp>>

(* or fail: the peer is gone, or m_sockfd is -1.                            *)
WriteError ==
    /\ Goto(Main, "write", "c_test")
    /\ fin[conn[fd(Main)]] \/ ~sockfd[fd(Main)]
    /\ UNCHANGED <<kernel, object, userCnt, workqueue, stop, loop, cur, tmp>>

-----------------------------------------------------------------------------
(* http_conn::close_conn(), called by the main thread and by workers *)

Done(th) == IF th = Main THEN "next" ELSE "idle"

CloseTest(th) ==
    /\ Goto(th, "c_test", IF sockfd[fd(th)] THEN "c_remove" ELSE Done(th))
    /\ UNCHANGED <<kernel, object, userCnt, workqueue, stop, loop, cur, tmp>>

(* removefd(m_epfd, m_sockfd): the descriptor is free for accept() again *)
CloseRemove(th) ==
    /\ Goto(th, "c_remove", "c_sock")
    /\ IF sockfd[fd(th)]
         THEN /\ interest' = [interest EXCEPT ![fd(th)] = "none"]
              /\ net' = [net EXCEPT ![conn[fd(th)]] = "closed"]
              /\ conn' = [conn EXCEPT ![fd(th)] = NoConn]
         ELSE UNCHANGED <<interest, net, conn>>
    /\ UNCHANGED <<inbox, sent, fin, lready, object, userCnt, workqueue, stop, loop, cur, tmp>>

CloseSock(th) ==
    /\ Goto(th, "c_sock", "c_read")
    /\ sockfd' = [sockfd EXCEPT ![fd(th)] = FALSE]
    /\ UNCHANGED <<kernel, used, got, linger, resp, userCnt, workqueue, stop, loop, cur, tmp>>

(* m_user_cnt-- *)
CloseLoad(th) ==
    /\ Goto(th, "c_read", "c_write")
    /\ tmp' = [tmp EXCEPT ![th] = userCnt]
    /\ UNCHANGED <<kernel, object, userCnt, workqueue, stop, loop, cur>>

CloseStore(th) ==
    /\ Goto(th, "c_write", Done(th))
    /\ userCnt' = tmp[th] - 1
    /\ UNCHANGED <<kernel, object, workqueue, stop, loop, cur, tmp>>

-----------------------------------------------------------------------------
(* The workers: run() and http_conn::process() *)

Take(w) ==
    /\ Goto(w, "idle", "parse")
    /\ workqueue # <<>>
    /\ cur' = [cur EXCEPT ![w] = Head(workqueue)]
    /\ workqueue' = Tail(workqueue)
    /\ UNCHANGED <<kernel, object, userCnt, stop, loop, tmp>>

(* process_read() wants more: the request is not whole, or has a bad line *)
ParseMore(w) ==
    /\ Goto(w, "parse", "arm_in")
    /\ UNCHANGED <<kernel, object, userCnt, workqueue, stop, loop, cur, tmp>>

(* process_write() has a response: the file, or an error page, which a bad *)
(* request line earns before the request is whole.                         *)
ParseReply(w, keep) ==
    /\ Goto(w, "parse", "arm_out")
    /\ keep => got[fd(w)]
    /\ linger' = [linger EXCEPT ![fd(w)] = keep]
    /\ resp' = [resp EXCEPT ![fd(w)] = TRUE]
    /\ UNCHANGED <<kernel, sockfd, used, got, userCnt, workqueue, stop, loop, cur, tmp>>

(* Slip: process() re-arms the descriptor and then closes it *)
ParseFailArmed(w) ==
    /\ Goto(w, "parse", "c_test")
    /\ got[fd(w)]
    /\ Modfd(fd(w), "in")
    /\ UNCHANGED <<net, inbox, sent, fin, conn, lready, object, userCnt, workqueue, stop, loop, cur, tmp>>

(* process_write() has none: NO_RESOURCE is not among its cases *)
ParseFail(w) ==
    /\ Goto(w, "parse", "c_test")
    /\ got[fd(w)]
    /\ UNCHANGED <<kernel, object, userCnt, workqueue, stop, loop, cur, tmp>>

Arm(w, from, ev) ==
    /\ Goto(w, from, "idle")
    /\ Modfd(fd(w), ev)
    /\ UNCHANGED <<net, inbox, sent, fin, conn, lready, object, userCnt, workqueue, stop, loop, cur, tmp>>

(* Slip: NO_REQUEST without modfd(EPOLLIN) *)
ArmForgotten(w) ==
    /\ Goto(w, "arm_in", "idle")
    /\ UNCHANGED <<kernel, object, userCnt, workqueue, stop, loop, cur, tmp>>

ArmIn(w) == Arm(w, "arm_in", "in")
ArmOut(w) == Arm(w, "arm_out", "out")

-----------------------------------------------------------------------------
Init ==
    /\ net = [c \in Conns |-> "none"]
    /\ inbox = [c \in Conns |-> <<>>]
    /\ sent = [c \in Conns |-> 0]
    /\ fin = [c \in Conns |-> FALSE]
    /\ conn = [f \in Fds |-> NoConn]
    /\ interest = [f \in Fds |-> "none"]
    /\ lready = FALSE
    /\ sockfd = [f \in Fds |-> FALSE]
    /\ used = [f \in Fds |-> 0]
    /\ got = [f \in Fds |-> FALSE]
    /\ linger = [f \in Fds |-> FALSE]
    /\ resp = [f \in Fds |-> FALSE]
    /\ userCnt = 0
    /\ workqueue = <<>>
    /\ stop = FALSE
    /\ batch = {} /\ levent = FALSE
    /\ pc = [th \in Threads |-> IF th = Main THEN "test" ELSE "idle"]
    /\ cur = [th \in Threads |-> NoHandle]
    /\ tmp = [th \in Threads |-> 0]

Client ==
    \E c \in Conns : Connect(c) \/ HangUp(c) \/ \E seg \in {"part", "end"} : Send(c, seg)

CloseStep(th) ==
    CloseTest(th) \/ CloseRemove(th) \/ CloseSock(th) \/ CloseLoad(th) \/ CloseStore(th)

MainStep ==
    \/ LoopTest \/ EpollWait \/ EndOfBatch \/ AcceptError
    \/ \E f \in Fds, c \in Conns : Accept(f, c)
    \/ InitSock \/ InitAdd \/ InitLoad \/ InitStore
    \/ \E e \in batch : HandleHangUp(e)
    \/ \E e \in batch : HandleIn(e)
    \/ \E e \in batch : HandleOut(e)
    \/ Read \/ AppendTask \/ WriteLater \/ WriteKeepAlive \/ WriteClose \/ WriteError
    \/ CloseStep(Main)

WorkerStep(w) ==
    \/ Take(w) \/ ParseMore(w) \/ ParseFail(w) \/ ArmIn(w) \/ ArmOut(w)
    \/ \E keep \in BOOLEAN : ParseReply(w, keep)
    \/ CloseStep(w)

Next == Client \/ Signal \/ MainStep \/ \E w \in Workers : WorkerStep(w)

Spec == Init /\ [][Next]_vars

(* The kernel runs every thread that can run; clients need do nothing. *)
FairSpec ==
    /\ Spec
    /\ WF_vars(MainStep)
    /\ \A w \in Workers : WF_vars(WorkerStep(w))

-----------------------------------------------------------------------------
MainPC == {"test", "wait", "next", "exited", "i_sock", "i_add", "i_read", "i_write",
           "read", "append", "write"}
WorkerPC == {"idle", "parse", "arm_in", "arm_out"}
ClosePC == {"c_test", "c_remove", "c_sock", "c_read", "c_write"}

TypeOK ==
    /\ net \in [Conns -> {"none", "backlog", "open", "closed"}]
    /\ inbox \in [Conns -> Seq({"part", "end"})]
    /\ sent \in [Conns -> 0 .. MaxSend]
    /\ fin \in [Conns -> BOOLEAN]
    /\ conn \in [Fds -> Conns \union {NoConn}]
    /\ interest \in [Fds -> {"none", "in", "out", "off"}]
    /\ lready \in BOOLEAN
    /\ {sockfd, got, linger, resp} \subseteq [Fds -> BOOLEAN]
    /\ used \in [Fds -> 0 .. BufSize]
    /\ userCnt \in Int
    /\ workqueue \in Seq(Handles)
    /\ stop \in BOOLEAN /\ levent \in BOOLEAN
    /\ batch \subseteq [h : Handles, ev : {"hup", "in", "out"}]
    /\ pc \in [Threads -> MainPC \union WorkerPC \union ClosePC]
    /\ pc[Main] \in MainPC \union ClosePC
    /\ \A w \in Workers : pc[w] \in WorkerPC \union ClosePC
    /\ cur \in [Threads -> Handles \union {NoHandle}]
    /\ tmp \in [Threads -> Int]

(* Threads that use users[f] before its descriptor is given back.  After   *)
(* close(fd) a thread still writes m_sockfd and m_user_cnt.                *)
Busy(th) ==
    pc[th] \in {"i_sock", "i_add", "i_read", "i_write", "read", "append", "write",
                "parse", "arm_in", "arm_out", "c_test", "c_remove"}

Users(f) == {th \in Threads : Busy(th) /\ fd(th) = f}
Queued(f) == {i \in DOMAIN workqueue : workqueue[i].fd = f}
Pending(f) == {e \in batch : e.h.fd = f}

Armed(f) == interest[f] \in {"in", "out"}

(* http_conn has no lock.  EPOLLONESHOT makes a descriptor belong to one    *)
(* event, one queue entry or one thread at a time, and while it is armed    *)
(* no worker, queue entry or undelivered event refers to it.                *)
OneOwner ==
    \A f \in Fds :
        /\ Cardinality(Users(f)) + Cardinality(Queued(f)) + Cardinality(Pending(f)) <= 1
        /\ Armed(f) => Queued(f) = {} /\ Pending(f) = {} /\ Users(f) \subseteq {Main}

(* Descriptors are reused, and events, queue entries and threads remember   *)
(* only the number.  The number still means the connection it meant when    *)
(* the event was reported, so no client gets another one's response or is   *)
(* closed in its place.                                                     *)
NoStaleHandle ==
    /\ \A e \in batch : conn[e.h.fd] = e.h.c
    /\ \A i \in DOMAIN workqueue : conn[workqueue[i].fd] = workqueue[i].c
    /\ \A th \in Threads : Busy(th) => conn[fd(th)] = cur[th].c

(* main() waits for EPOLLOUT only on a connection that has a response, so   *)
(* the bytes_to_send == 0 case of write() does not arise here.              *)
OutHasResponse ==
    /\ \A f \in Fds : interest[f] = "out" => resp[f]
    /\ pc[Main] = "write" => resp[fd(Main)]

(* An edge of listenfd that was not handled has a connection to accept, so  *)
(* the accept() it leads to finds one.                                      *)
EdgeHasConnection == lready \/ levent => \E c \in Conns : net[c] = "backlog"

(* A registered connection is armed, or on its way to be armed or closed:   *)
(* in an event, in the queue or in a thread's hands.  append() failing      *)
(* breaks this, so it needs MaxTask >= the number of descriptors.           *)
NotStranded ==
    \A f \in Fds :
        conn[f] # NoConn /\ sockfd[f] =>
            Armed(f) \/ Queued(f) # {} \/ Pending(f) # {} \/ Users(f) # {}

(* A worker that closed a descriptor and was preempted before               *)
(* m_sockfd = -1 writes it into the object of the next client.              *)
Orphan(f) == conn[f] # NoConn /\ Users(f) = {} /\ ~sockfd[f]

(* LSP-Note.md:538: events on an accepted socket reach a worker; an object  *)
(* whose m_sockfd is -1 answers every event with a failed read().           *)
NeverOrphaned == \A f \in Fds : ~Orphan(f)

(* A client that hangs up on an accepted connection has it closed, unless   *)
(* the object lost its descriptor.                                          *)
HangUpIsNoticed ==
    \A c \in Conns :
        net[c] = "open" /\ fin[c]
            ~> \/ net[c] = "closed"
               \/ \E f \in Fds : conn[f] = c /\ ~sockfd[f]
               \/ pc[Main] = "exited"

(* LSP-Note.md:538: when a connection request arrives, the main thread      *)
(* accepts it.                                                              *)
EveryoneIsAccepted ==
    \A c \in Conns : net[c] = "backlog" ~> net[c] # "backlog" \/ pc[Main] = "exited"
=============================================================================
