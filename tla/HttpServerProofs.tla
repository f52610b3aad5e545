-------------------------- MODULE HttpServerProofs --------------------------
(***************************************************************************)
(* Proofs about the HTTP server as HttpServer.tla models it, for any       *)
(* number of connections, descriptors and workers, and any size of the     *)
(* pool's queue, of a batch of events and of a read buffer.                *)
(***************************************************************************)
EXTENDS HttpServer, FiniteSetTheorems, SequenceTheorems, TLAPS

(* The inductive invariant, in named parts. *)

(* The steps in which a thread goes by the object it was handed. *)
HoldPC == {"i_sock", "i_add", "i_read", "i_write", "read", "append", "write",
           "parse", "arm_in", "arm_out",
           "c_test", "c_remove", "c_sock", "c_read", "c_write"}

(* A descriptor is in the hands of one thread, queue entry or event. *)
Exclusive ==
    /\ \A th, u \in Threads : Busy(th) /\ Busy(u) /\ fd(th) = fd(u) => th = u
    /\ \A i, j \in DOMAIN workqueue : workqueue[i].fd = workqueue[j].fd => i = j
    /\ \A d, e \in batch : d.h.fd = e.h.fd => d = e
    /\ \A th \in Threads : Busy(th) =>
          /\ \A i \in DOMAIN workqueue : workqueue[i].fd # fd(th)
          /\ \A e \in batch : e.h.fd # fd(th)
    /\ \A i \in DOMAIN workqueue, e \in batch : workqueue[i].fd # e.h.fd

(* What epoll may report of a descriptor, by the hands it is in. *)
MainInterest(p) ==
    CASE p \in {"i_sock", "i_add"} -> {"none"}
      [] p \in {"i_read", "i_write"} -> {"in"}
      [] p \in {"c_test", "c_remove"} -> {"in", "off"}
      [] OTHER -> {"off"}

Interests ==
    /\ \A f \in Fds : conn[f] = NoConn => interest[f] = "none"
    /\ \A i \in DOMAIN workqueue : interest[workqueue[i].fd] = "off"
    /\ \A e \in batch : interest[e.h.fd] = "off"
    /\ \A w \in Workers : Busy(w) => interest[fd(w)] = "off"
    /\ Busy(Main) => interest[fd(Main)] \in MainInterest(pc[Main])

(* Whoever holds a number holds a connection behind it. *)
Held ==
    /\ \A th \in Threads : pc[th] \in HoldPC => cur[th] \in Handles
    /\ \A th \in Threads : Busy(th) => cur[th].c \in Conns
    /\ \A i \in DOMAIN workqueue : workqueue[i].c \in Conns
    /\ \A e \in batch : e.h.c \in Conns

(* A response waits wherever one is about to be written. *)
Responds ==
    /\ \A e \in batch : e.ev = "out" => resp[e.h.fd]
    /\ \A w \in Workers : pc[w] = "arm_out" => resp[fd(w)]

IInv == TypeOK /\ Exclusive /\ Interests /\ Held /\ NoStaleHandle /\ OutHasResponse /\ Responds

(* The loop waits only when the last batch was handled. *)
BatchHandled == pc[Main] \in {"test", "wait"} => batch = {}

(* A thread that goes by an object holds its descriptor, and the connection *)
(* it was handed over for is still behind it.                              *)
LEMMA HeldFacts ==
    ASSUME IInv
    PROVE  /\ \A th \in Threads : pc[th] \in HoldPC => cur[th] \in Handles /\ fd(th) \in Fds
           /\ \A th \in Threads : Busy(th) => /\ pc[th] \in HoldPC
                                              /\ conn[fd(th)] \in Conns
                                              /\ conn[fd(th)] = cur[th].c
           /\ \A i \in DOMAIN workqueue : workqueue[i] \in Handles /\ workqueue[i].fd \in Fds
<1>1. \A th \in Threads : pc[th] \in HoldPC => cur[th] \in Handles /\ fd(th) \in Fds
  BY DEF IInv, Held, Handles, fd
<1>2. \A th \in Threads : Busy(th) => pc[th] \in HoldPC
  BY DEF Busy, HoldPC
<1>3. \A i \in DOMAIN workqueue : workqueue[i] \in Handles /\ workqueue[i].fd \in Fds
  <2>1. workqueue \in Seq(Handles)
    BY DEF IInv, TypeOK
  <2>2. \A i \in DOMAIN workqueue : workqueue[i] \in Handles
    BY <2>1, LenProperties, ElementOfSeq
  <2> QED
    BY <2>2 DEF Handles
<1> QED
  BY <1>1, <1>2, <1>3 DEF IInv, Held, NoStaleHandle

(* The pool's queue is a sequence of handles before and after a push or a pop. *)
LEMMA QueueTypes ==
    ASSUME NEW q \in Seq(Handles), NEW h \in Handles
    PROVE  /\ Append(q, h) \in Seq(Handles)
           /\ q # <<>> => Head(q) \in Handles /\ Tail(q) \in Seq(Handles)
<1> QED
  BY HeadTailProperties, AppendProperties

(* What read() takes from a socket fits the buffer, and the rest stays. *)
LEMMA ReadTypes ==
    ASSUME TypeOK, ServerAssumption, Read, fd(Main) \in Fds, conn[fd(Main)] \in Conns
    PROVE  /\ inbox' \in [Conns -> Seq({"part", "end"})]
           /\ used' \in [Fds -> 0 .. BufSize]
           /\ got' \in [Fds -> BOOLEAN]
<1> DEFINE f == fd(Main)
           c == conn[f]
           n == MinOf(Len(inbox[c]), BufSize - used[f])
           some == \E i \in 1 .. n : inbox[c][i] = "end"
<1>1. /\ inbox \in [Conns -> Seq({"part", "end"})]
      /\ used \in [Fds -> 0 .. BufSize]
      /\ got \in [Fds -> BOOLEAN]
  BY DEF TypeOK
<1>2. n \in 0 .. BufSize - used[f] /\ n <= Len(inbox[c])
  BY <1>1 DEF MinOf, ServerAssumption
<1>3. SubSeq(inbox[c], n + 1, Len(inbox[c])) \in Seq({"part", "end"})
  BY <1>1, <1>2
<1>4. used[f] + n \in 0 .. BufSize
  BY <1>1, <1>2 DEF ServerAssumption
<1>5. some \in BOOLEAN
  OBVIOUS
<1>6. CASE sockfd[f]
  <2>1. /\ inbox' = [inbox EXCEPT ![c] = SubSeq(@, n + 1, Len(@))]
        /\ used' = [used EXCEPT ![f] = @ + n]
        /\ got' = [got EXCEPT ![f] = @ \/ some]
    BY <1>6 DEF Read
  <2> HIDE DEF f, c, n, some
  <2>2. inbox' \in [Conns -> Seq({"part", "end"})] /\ used' \in [Fds -> 0 .. BufSize]
    BY <1>1, <1>3, <1>4, <2>1
  <2>3. got' \in [Fds -> BOOLEAN]
    BY <1>1, <1>5, <2>1
  <2> QED
    BY <2>2, <2>3
<1>7. CASE ~sockfd[f]
  BY <1>1, <1>7 DEF Read
<1> QED
  BY <1>6, <1>7

(* Giving a descriptor back changes no type. *)
LEMMA CloseRemoveTypes ==
    ASSUME TypeOK, NEW th \in Threads, CloseRemove(th)
    PROVE  /\ conn' \in [Fds -> Conns \union {NoConn}]
           /\ net' \in [Conns -> {"none", "backlog", "open", "closed"}]
           /\ interest' \in [Fds -> {"none", "in", "out", "off"}]
<1>1. conn' \in [Fds -> Conns \union {NoConn}]
  BY DEF TypeOK, CloseRemove
<1>2. net' \in [Conns -> {"none", "backlog", "open", "closed"}]
  BY DEF TypeOK, CloseRemove
<1>3. interest' \in [Fds -> {"none", "in", "out", "off"}]
  BY DEF TypeOK, CloseRemove
<1> QED
  BY <1>1, <1>2, <1>3

(* An accepted connection has a descriptor, and the main thread holds both. *)
LEMMA AcceptTypes ==
    ASSUME TypeOK, NEW f \in Fds, NEW c \in Conns, Accept(f, c)
    PROVE  /\ net' \in [Conns -> {"none", "backlog", "open", "closed"}]
           /\ conn' \in [Fds -> Conns \union {NoConn}]
           /\ cur' \in [Threads -> Handles \union {NoHandle}]
           /\ pc' \in [Threads -> MainPC \union WorkerPC \union ClosePC]
           /\ pc'[Main] \in MainPC
           /\ \A w \in Workers : pc'[w] \in WorkerPC \union ClosePC
<1>1. [fd |-> f, c |-> c] \in Handles
  BY DEF Handles
<1>2. net' \in [Conns -> {"none", "backlog", "open", "closed"}]
  <2>1. net' = [net EXCEPT ![c] = "closed"] \/ net' = [net EXCEPT ![c] = "open"]
    BY DEF Accept
  <2> QED
    BY <2>1 DEF TypeOK
<1>3. conn' \in [Fds -> Conns \union {NoConn}]
  BY DEF TypeOK, Accept
<1>4. cur' \in [Threads -> Handles \union {NoHandle}]
  BY <1>1 DEF TypeOK, Accept
<1>5. pc' \in [Threads -> MainPC \union WorkerPC \union ClosePC] /\ pc'[Main] \in MainPC
  <2>1. pc[Main] = "next" /\ (pc' = pc \/ pc' = [pc EXCEPT ![Main] = "i_sock"])
    BY DEF Accept
  <2> QED
    BY <2>1 DEF TypeOK, MainPC, Threads
<1>6. \A w \in Workers : pc'[w] \in WorkerPC \union ClosePC
  BY ServerAssumption DEF TypeOK, Accept, Threads
<1> QED
  BY <1>2, <1>3, <1>4, <1>5, <1>6

(* epoll_wait reports armed descriptors only, each with the connection and  *)
(* the events it has at that moment, and disarms them.                      *)
LEMMA EpollWaitEffect ==
    ASSUME IInv, EpollWait
    PROVE  /\ \A e \in batch' :
                /\ e.h.fd \in Fds /\ conn[e.h.fd] \in Conns /\ e.h.c = conn[e.h.fd]
                /\ interest[e.h.fd] \in {"in", "out"} /\ interest'[e.h.fd] = "off"
                /\ e.ev = "out" => interest[e.h.fd] = "out"
           /\ \A d, e \in batch' : d.h.fd = e.h.fd => d = e
           /\ \A f \in Fds : interest'[f] = interest[f] \/ \E e \in batch' : e.h.fd = f
           /\ pc[Main] = "wait" /\ pc' = [pc EXCEPT ![Main] = "next"]
           /\ UNCHANGED <<conn, sockfd, resp, workqueue, cur>>
<1>1. PICK S \in SUBSET Ready :
        /\ batch' = {[h |-> Handle(f), ev |-> Event(f)] : f \in S}
        /\ interest' = [f \in Fds |-> IF f \in S THEN "off" ELSE interest[f]]
  BY DEF EpollWait, Disarm
<1>2. S \subseteq Fds
  BY DEF Ready
<1>3. \A f \in S : interest[f] \in {"in", "out"} /\ conn[f] \in Conns
  BY DEF Ready, Reportable, IInv, Interests, TypeOK
<1>4. \A e \in batch' : e.h.fd \in S /\ e = [h |-> Handle(e.h.fd), ev |-> Event(e.h.fd)]
  BY <1>1 DEF Handle
<1>5. \A e \in batch' : e.h.c = conn[e.h.fd] /\ e.ev = Event(e.h.fd)
  BY <1>4 DEF Handle
<1>6. \A e \in batch' : e.ev = "out" => interest[e.h.fd] = "out"
  BY <1>5 DEF Event
<1>7. \A f \in S : \E e \in batch' : e.h.fd = f
  <2>1. SUFFICES ASSUME NEW f \in S PROVE \E e \in batch' : e.h.fd = f
    OBVIOUS
  <2>2. [h |-> Handle(f), ev |-> Event(f)] \in batch'
    BY <1>1
  <2>3. [h |-> Handle(f), ev |-> Event(f)].h.fd = f
    BY DEF Handle
  <2> QED
    BY <2>2, <2>3
<1>8. \A d, e \in batch' : d.h.fd = e.h.fd => d = e
  BY <1>4
<1>9. /\ pc[Main] = "wait" /\ pc' = [pc EXCEPT ![Main] = "next"]
      /\ UNCHANGED <<conn, sockfd, resp, workqueue, cur>>
  BY DEF EpollWait, Goto, object
<1>10. \A f \in Fds : interest'[f] = IF f \in S THEN "off" ELSE interest[f]
  BY <1>1
<1> QED
  BY <1>2, <1>3, <1>4, <1>5, <1>6, <1>7, <1>8, <1>9, <1>10

(* Nobody holds a descriptor that accept() can hand out. *)
LEMMA FreeFacts ==
    ASSUME IInv, ServerAssumption, NEW f \in Fds, conn[f] = NoConn
    PROVE  /\ \A th \in Threads : Busy(th) => fd(th) # f
           /\ \A i \in DOMAIN workqueue : workqueue[i].fd # f
           /\ \A e \in batch : e.h.fd # f
<1> QED
  BY DEF IInv, Held, NoStaleHandle, ServerAssumption, fd

(* Nobody else holds a descriptor that epoll_wait reports. *)
LEMMA EpollWaitHands ==
    ASSUME IInv, ServerAssumption, EpollWait
    PROVE  /\ \A th \in Threads : pc'[th] = IF th = Main THEN "next" ELSE pc[th]
           /\ \A th \in Threads : Busy(th)' => Busy(th) /\ th \in Workers /\ fd(th)' = fd(th)
           /\ \A e \in batch' : /\ \A th \in Threads : Busy(th) => fd(th) # e.h.fd
                                /\ \A i \in DOMAIN workqueue : workqueue[i].fd # e.h.fd
<1>1. pc[Main] = "wait" /\ \A th \in Threads : pc'[th] = IF th = Main THEN "next" ELSE pc[th]
  BY EpollWaitEffect DEF IInv, TypeOK, Threads
<1>2. \A th \in Threads : Busy(th)' => Busy(th) /\ th \in Workers /\ fd(th)' = fd(th)
  BY <1>1, EpollWaitEffect DEF Busy, fd, Threads
<1>3. \A e \in batch' : interest[e.h.fd] # "off"
  BY EpollWaitEffect
<1>4. ~Busy(Main)
  BY <1>1 DEF Busy
<1>5. \A e \in batch', th \in Threads : Busy(th) => fd(th) # e.h.fd
  BY <1>3, <1>4 DEF IInv, Interests, Threads
<1>6. \A e \in batch', i \in DOMAIN workqueue : workqueue[i].fd # e.h.fd
  BY <1>3 DEF IInv, Interests
<1> QED
  BY <1>1, <1>2, <1>5, <1>6

(* What epoll_wait leaves armed was armed, and belongs to nobody. *)
LEMMA EpollWaitInterests ==
    ASSUME IInv, ServerAssumption, EpollWait
    PROVE  Interests'
<1>1. \A f \in Fds : (\A e \in batch' : e.h.fd # f) => interest'[f] = interest[f]
  BY EpollWaitEffect
<1>2. \A f \in Fds : conn'[f] = NoConn => interest'[f] = "none"
  BY <1>1, EpollWaitEffect DEF IInv, Interests, ServerAssumption
<1>3. \A i \in DOMAIN workqueue' : interest'[workqueue'[i].fd] = "off"
  <2>1. workqueue' = workqueue /\ \A i \in DOMAIN workqueue : workqueue[i].fd \in Fds
    BY EpollWaitEffect, HeldFacts
  <2> QED
    BY <1>1, <2>1, EpollWaitHands DEF IInv, Interests
<1>4. \A w \in Workers : Busy(w)' => interest'[fd(w)'] = "off"
  BY <1>1, EpollWaitHands, HeldFacts DEF IInv, Interests, Threads
<1>5. ~Busy(Main)' /\ \A e \in batch' : interest'[e.h.fd] = "off"
  BY EpollWaitEffect, EpollWaitHands DEF Threads, ServerAssumption
<1> QED
  BY <1>2, <1>3, <1>4, <1>5 DEF Interests

(* EPOLLOUT is reported of a descriptor that was armed for it. *)
LEMMA EpollWaitResponds ==
    ASSUME IInv, ServerAssumption, EpollWait
    PROVE  OutHasResponse' /\ Responds'
<1>1. \A f \in Fds : interest'[f] = "out" => interest[f] = "out"
  BY EpollWaitEffect
<1>2. \A w \in Workers : pc'[w] = "arm_out" => pc[w] = "arm_out" /\ fd(w)' = fd(w)
  BY EpollWaitEffect, EpollWaitHands DEF Threads, fd
<1>3. resp' = resp /\ pc'[Main] = "next"
  BY EpollWaitEffect, EpollWaitHands DEF Threads
<1>4. \A e \in batch' : e.ev = "out" => resp'[e.h.fd]
  BY <1>3, EpollWaitEffect DEF IInv, OutHasResponse
<1> QED
  BY <1>1, <1>2, <1>3, <1>4 DEF OutHasResponse, Responds, IInv

(* Every step keeps every variable in its type. *)
LEMMA TypeStep == IInv /\ [Next]_vars => TypeOK'
<1> SUFFICES ASSUME IInv, [Next]_vars PROVE TypeOK'
  OBVIOUS
<1> USE ServerAssumption, HeldFacts DEF IInv, TypeOK, HoldPC, Busy, fd,
      Threads, MainPC, WorkerPC, ClosePC, Goto, Running, kernel, object, loop
<1>1. ASSUME NEW c \in Conns, Connect(c) \/ HangUp(c) \/ \E seg \in {"part", "end"} : Send(c, seg)
      PROVE TypeOK'
  <2>1. CASE Connect(c)
    BY <2>1 DEF Connect
  <2>2. CASE HangUp(c)
    BY <2>2 DEF HangUp
  <2>3. ASSUME NEW seg \in {"part", "end"}, Send(c, seg) PROVE TypeOK'
    BY <2>3 DEF Send
  <2> QED
    BY <1>1, <2>1, <2>2, <2>3
<1>2. CASE Signal
  BY <1>2 DEF Signal
<1>3. ASSUME NEW th \in Threads, CloseStep(th) PROVE TypeOK'
  <2>1. CASE CloseTest(th)
    BY <2>1 DEF CloseTest, Done
  <2>2. CASE CloseRemove(th)
    BY <2>2, CloseRemoveTypes DEF CloseRemove
  <2>3. CASE CloseSock(th)
    BY <2>3 DEF CloseSock
  <2>4. CASE CloseLoad(th)
    BY <2>4 DEF CloseLoad
  <2>5. CASE CloseStore(th)
    BY <2>5 DEF CloseStore, Done
  <2> QED
    BY <1>3, <2>1, <2>2, <2>3, <2>4, <2>5 DEF CloseStep
<1>4. CASE MainStep
  <2>1. CASE LoopTest
    BY <2>1 DEF LoopTest
  <2>2. CASE EpollWait
    <3>1. PICK S \in SUBSET Ready, l \in {FALSE, lready} :
            /\ batch' = {[h |-> Handle(f), ev |-> Event(f)] : f \in S}
            /\ ReportListen(l) /\ Disarm(S)
      BY <2>2 DEF EpollWait
    <3>2. \A f \in S : Handle(f) \in Handles /\ Event(f) \in {"hup", "in", "out"}
      BY <3>1 DEF Ready, Reportable, Event, Handle, Handles
    <3>3. batch' \subseteq [h : Handles, ev : {"hup", "in", "out"}]
      BY <3>1, <3>2
    <3>4. /\ interest' \in [Fds -> {"none", "in", "out", "off"}]
          /\ levent' \in BOOLEAN /\ lready' \in BOOLEAN
      BY <3>1 DEF Disarm, ReportListen
    <3> QED
      BY <2>2, <3>3, <3>4 DEF EpollWait
  <2>3. CASE EndOfBatch
    BY <2>3 DEF EndOfBatch
  <2>4. CASE AcceptError
    <3>1. levent' \in BOOLEAN
      BY <2>4 DEF AcceptError
    <3> QED
      BY <2>4, <3>1 DEF AcceptError
  <2>5. ASSUME NEW f \in Fds, NEW c \in Conns, Accept(f, c) PROVE TypeOK'
    <3>1. levent' \in BOOLEAN
      BY <2>5 DEF Accept
    <3>2. UNCHANGED <<inbox, sent, fin, interest, lready, object, userCnt, workqueue, stop, batch, tmp>>
      BY <2>5 DEF Accept
    <3> QED
      BY <2>5, <3>1, <3>2, AcceptTypes
  <2>6. CASE InitSock
    BY <2>6 DEF InitSock
  <2>7. CASE InitAdd
    BY <2>7 DEF InitAdd
  <2>8. CASE InitLoad
    BY <2>8 DEF InitLoad
  <2>9. CASE InitStore
    BY <2>9 DEF InitStore, ResetRequest
  <2>10. ASSUME NEW e \in batch, HandleHangUp(e) PROVE TypeOK'
    BY <2>10 DEF HandleHangUp, TakeEvent
  <2>11. ASSUME NEW e \in batch, HandleIn(e) PROVE TypeOK'
    BY <2>11 DEF HandleIn, TakeEvent
  <2>12. ASSUME NEW e \in batch, HandleOut(e) PROVE TypeOK'
    BY <2>12 DEF HandleOut, TakeEvent
  <2>13. CASE Read
    <3>1. /\ inbox' \in [Conns -> Seq({"part", "end"})]
          /\ used' \in [Fds -> 0 .. BufSize]
          /\ got' \in [Fds -> BOOLEAN]
      BY <2>13, ReadTypes DEF Read
    <3> QED
      BY <2>13, <3>1 DEF Read
  <2>14. CASE AppendTask
    <3>1. workqueue' \in Seq(Handles)
      BY <2>14, QueueTypes DEF AppendTask
    <3> QED
      BY <2>14, <3>1 DEF AppendTask
  <2>15. CASE WriteLater
    BY <2>15 DEF WriteLater, Modfd
  <2>16. CASE WriteKeepAlive
    BY <2>16 DEF WriteKeepAlive, Modfd, ResetRequest
  <2>17. CASE WriteClose
    BY <2>17 DEF WriteClose, Modfd
  <2>18. CASE WriteError
    BY <2>18 DEF WriteError
  <2> QED
    BY <1>3, <1>4, <2>1, <2>2, <2>3, <2>4, <2>5, <2>6, <2>7, <2>8, <2>9,
       <2>10, <2>11, <2>12, <2>13, <2>14, <2>15, <2>16, <2>17, <2>18 DEF MainStep, Threads
<1>5. ASSUME NEW w \in Workers, WorkerStep(w) PROVE TypeOK'
  <2>1. CASE Take(w)
    <3>1. workqueue' \in Seq(Handles) /\ Head(workqueue) \in Handles
      BY <2>1, QueueTypes DEF Take
    <3> QED
      BY <2>1, <3>1 DEF Take
  <2>2. CASE ParseMore(w)
    BY <2>2 DEF ParseMore
  <2>3. CASE ParseFail(w)
    BY <2>3 DEF ParseFail
  <2>4. CASE ArmIn(w)
    BY <2>4 DEF ArmIn, Arm, Modfd
  <2>5. CASE ArmOut(w)
    BY <2>5 DEF ArmOut, Arm, Modfd
  <2>6. ASSUME NEW keep \in BOOLEAN, ParseReply(w, keep) PROVE TypeOK'
    BY <2>6 DEF ParseReply
  <2> QED
    BY <1>3, <1>5, <2>1, <2>2, <2>3, <2>4, <2>5, <2>6 DEF WorkerStep, Threads
<1>6. CASE UNCHANGED vars
  BY <1>6 DEF vars
<1> QED
  BY <1>1, <1>2, <1>4, <1>5, <1>6 DEF Next, Client

(* A descriptor changes hands; it is never in two at once. *)
LEMMA ExclusiveStep == IInv /\ [Next]_vars => Exclusive'
<1> SUFFICES ASSUME IInv, [Next]_vars PROVE Exclusive'
  OBVIOUS
<1> USE ServerAssumption, HeldFacts DEF IInv, Exclusive, Busy, fd, Threads, Goto, Running, kernel, object, loop
<1>1. ASSUME NEW c \in Conns, Connect(c) \/ HangUp(c) \/ \E seg \in {"part", "end"} : Send(c, seg)
      PROVE Exclusive'
  <2>1. CASE Connect(c)
    BY <2>1 DEF Connect
  <2>2. CASE HangUp(c)
    BY <2>2 DEF HangUp
  <2>3. ASSUME NEW seg \in {"part", "end"}, Send(c, seg) PROVE Exclusive'
    BY <2>3 DEF Send
  <2> QED
    BY <1>1, <2>1, <2>2, <2>3
<1>2. CASE Signal
  BY <1>2 DEF Signal
<1>3. ASSUME NEW th \in Threads, CloseStep(th) PROVE Exclusive'
  <2>1. CASE CloseTest(th)
    BY <2>1 DEF CloseTest, Done
  <2>2. CASE CloseRemove(th)
    BY <2>2 DEF CloseRemove
  <2>3. CASE CloseSock(th)
    BY <2>3 DEF CloseSock
  <2>4. CASE CloseLoad(th)
    BY <2>4 DEF CloseLoad
  <2>5. CASE CloseStore(th)
    BY <2>5 DEF CloseStore, Done
  <2> QED
    BY <1>3, <2>1, <2>2, <2>3, <2>4, <2>5 DEF CloseStep
<1>4. CASE MainStep
  <2>1. CASE LoopTest
    BY <2>1 DEF LoopTest
  <2>2. CASE EpollWait
    BY <2>2, EpollWaitEffect, EpollWaitHands
  <2>3. CASE EndOfBatch
    BY <2>3 DEF EndOfBatch
  <2>4. CASE AcceptError
    BY <2>4 DEF AcceptError, Free
  <2>5. ASSUME NEW f \in Fds, NEW c \in Conns, Accept(f, c) PROVE Exclusive'
    <3>1. f \in Fds /\ conn[f] = NoConn /\ batch' = batch /\ workqueue' = workqueue /\ ~Busy(Main)
      BY <2>5 DEF Accept, Free
    <3>2. /\ \A th \in Threads : Busy(th) => fd(th) # f
          /\ \A i \in DOMAIN workqueue : workqueue[i].fd # f
          /\ \A e \in batch : e.h.fd # f
      BY <3>1, FreeFacts
    <3>3. \A w \in Workers : pc'[w] = pc[w] /\ cur'[w] = cur[w]
      BY <2>5 DEF Accept, TypeOK
    <3>4. pc'[Main] \in {"next", "i_sock"} /\ (pc'[Main] = "i_sock" => cur'[Main] = [fd |-> f, c |-> c])
      BY <2>5 DEF Accept, TypeOK
    <3> QED
      BY <3>1, <3>2, <3>3, <3>4
  <2>6. CASE InitSock
    BY <2>6 DEF InitSock
  <2>7. CASE InitAdd
    BY <2>7 DEF InitAdd
  <2>8. CASE InitLoad
    BY <2>8 DEF InitLoad
  <2>9. CASE InitStore
    BY <2>9 DEF InitStore, ResetRequest
  <2>10. ASSUME NEW e \in batch, HandleHangUp(e) PROVE Exclusive'
    <3>1. cur'[Main] = e.h /\ \A w \in Workers : cur'[w] = cur[w]
      BY <2>10 DEF HandleHangUp, TakeEvent, TypeOK
    <3>2. batch' = batch \ {e} /\ workqueue' = workqueue /\ ~Busy(Main)
      BY <2>10 DEF HandleHangUp, TakeEvent
    <3>3. \A w \in Workers : pc'[w] = pc[w]
      BY <2>10 DEF HandleHangUp, TakeEvent, TypeOK
    <3> QED
      BY <3>1, <3>2, <3>3
  <2>11. ASSUME NEW e \in batch, HandleIn(e) PROVE Exclusive'
    <3>1. cur'[Main] = e.h /\ \A w \in Workers : cur'[w] = cur[w]
      BY <2>11 DEF HandleIn, TakeEvent, TypeOK
    <3>2. batch' = batch \ {e} /\ workqueue' = workqueue /\ ~Busy(Main)
      BY <2>11 DEF HandleIn, TakeEvent
    <3>3. \A w \in Workers : pc'[w] = pc[w]
      BY <2>11 DEF HandleIn, TakeEvent, TypeOK
    <3> QED
      BY <3>1, <3>2, <3>3
  <2>12. ASSUME NEW e \in batch, HandleOut(e) PROVE Exclusive'
    <3>1. cur'[Main] = e.h /\ \A w \in Workers : cur'[w] = cur[w]
      BY <2>12 DEF HandleOut, TakeEvent, TypeOK
    <3>2. batch' = batch \ {e} /\ workqueue' = workqueue /\ ~Busy(Main)
      BY <2>12 DEF HandleOut, TakeEvent
    <3>3. \A w \in Workers : pc'[w] = pc[w]
      BY <2>12 DEF HandleOut, TakeEvent, TypeOK
    <3> QED
      BY <3>1, <3>2, <3>3
  <2>13. CASE Read
    BY <2>13 DEF Read
  <2>14. CASE AppendTask
    <3>1. /\ Busy(Main) /\ cur' = cur /\ batch' = batch
          /\ pc'[Main] = "next" /\ \A w \in Workers : pc'[w] = pc[w]
      BY <2>14 DEF AppendTask, TypeOK
    <3>2. CASE workqueue' = workqueue
      BY <3>1, <3>2
    <3>3. CASE workqueue' = Append(workqueue, cur[Main])
      <4>1. workqueue \in Seq(Handles) /\ cur[Main] \in Handles
        BY <3>1 DEF TypeOK
      <4>2. /\ Len(workqueue') = Len(workqueue) + 1
            /\ \A i \in 1 .. Len(workqueue) : workqueue'[i] = workqueue[i]
            /\ workqueue'[Len(workqueue) + 1] = cur[Main]
            /\ DOMAIN workqueue' = 1 .. Len(workqueue) + 1 /\ DOMAIN workqueue = 1 .. Len(workqueue)
        BY <3>3, <4>1, AppendProperties, LenProperties
      <4> QED
        BY <3>1, <4>1, <4>2
    <3> QED
      BY <2>14, <3>2, <3>3 DEF AppendTask
  <2>15. CASE WriteLater
    BY <2>15 DEF WriteLater, Modfd
  <2>16. CASE WriteKeepAlive
    BY <2>16 DEF WriteKeepAlive, Modfd, ResetRequest
  <2>17. CASE WriteClose
    BY <2>17 DEF WriteClose, Modfd
  <2>18. CASE WriteError
    BY <2>18 DEF WriteError
  <2> QED
    BY <1>3, <1>4, <2>1, <2>2, <2>3, <2>4, <2>5, <2>6, <2>7, <2>8, <2>9,
       <2>10, <2>11, <2>12, <2>13, <2>14, <2>15, <2>16, <2>17, <2>18 DEF MainStep, Threads
<1>5. ASSUME NEW w \in Workers, WorkerStep(w) PROVE Exclusive'
  <2>1. CASE Take(w)
    <3>1. /\ workqueue \in Seq(Handles) /\ workqueue # <<>> /\ workqueue' = Tail(workqueue)
          /\ ~Busy(w) /\ batch' = batch
          /\ cur'[w] = Head(workqueue)
          /\ \A th \in Threads : th # w => pc'[th] = pc[th] /\ cur'[th] = cur[th]
      BY <2>1 DEF Take, TypeOK
    <3>2. /\ Head(workqueue) = workqueue[1] /\ 1 \in DOMAIN workqueue
          /\ \A i \in DOMAIN workqueue' : i + 1 \in DOMAIN workqueue /\ i + 1 # 1
                                            /\ i \in Nat /\ workqueue'[i] = workqueue[i + 1]
      BY <3>1, HeadTailProperties, LenProperties
    <3> QED
      BY <3>1, <3>2
  <2>2. CASE ParseMore(w)
    BY <2>2 DEF ParseMore
  <2>3. CASE ParseFail(w)
    BY <2>3 DEF ParseFail
  <2>4. CASE ArmIn(w)
    BY <2>4 DEF ArmIn, Arm, Modfd
  <2>5. CASE ArmOut(w)
    BY <2>5 DEF ArmOut, Arm, Modfd
  <2>6. ASSUME NEW keep \in BOOLEAN, ParseReply(w, keep) PROVE Exclusive'
    BY <2>6 DEF ParseReply
  <2> QED
    BY <1>3, <1>5, <2>1, <2>2, <2>3, <2>4, <2>5, <2>6 DEF WorkerStep, Threads
<1>6. CASE UNCHANGED vars
  BY <1>6 DEF vars
<1> QED
  BY <1>1, <1>2, <1>4, <1>5, <1>6 DEF Next, Client

(* Only a descriptor that nobody else holds is armed, registered or removed. *)
LEMMA InterestsStep == IInv /\ [Next]_vars => Interests'
<1> SUFFICES ASSUME IInv, [Next]_vars PROVE Interests'
  OBVIOUS
<1> USE ServerAssumption, HeldFacts DEF IInv, TypeOK, Exclusive, Interests, MainInterest, Busy, fd, Threads,
      Goto, Running, kernel, object, loop
<1>1. ASSUME NEW c \in Conns, Connect(c) \/ HangUp(c) \/ \E seg \in {"part", "end"} : Send(c, seg)
      PROVE Interests'
  <2>1. CASE Connect(c)
    BY <2>1 DEF Connect
  <2>2. CASE HangUp(c)
    BY <2>2 DEF HangUp
  <2>3. ASSUME NEW seg \in {"part", "end"}, Send(c, seg) PROVE Interests'
    BY <2>3 DEF Send
  <2> QED
    BY <1>1, <2>1, <2>2, <2>3
<1>2. CASE Signal
  BY <1>2 DEF Signal
<1>3. ASSUME NEW th \in Threads, CloseStep(th) PROVE Interests'
  <2>1. CASE CloseTest(th)
    BY <2>1 DEF CloseTest, Done
  <2>2. CASE CloseRemove(th)
    <3>1. CASE sockfd[fd(th)]
      <4>1. /\ Busy(th) /\ conn' = [conn EXCEPT ![fd(th)] = NoConn]
            /\ interest' = [interest EXCEPT ![fd(th)] = "none"]
        BY <2>2, <3>1 DEF CloseRemove
      <4> QED
        BY <2>2, <4>1 DEF CloseRemove
    <3>2. CASE ~sockfd[fd(th)]
      BY <2>2, <3>2 DEF CloseRemove
    <3> QED
      BY <3>1, <3>2
  <2>3. CASE CloseSock(th)
    BY <2>3 DEF CloseSock
  <2>4. CASE CloseLoad(th)
    BY <2>4 DEF CloseLoad
  <2>5. CASE CloseStore(th)
    BY <2>5 DEF CloseStore, Done
  <2> QED
    BY <1>3, <2>1, <2>2, <2>3, <2>4, <2>5 DEF CloseStep
<1>4. CASE MainStep
  <2>1. CASE LoopTest
    BY <2>1 DEF LoopTest
  <2>2. CASE EpollWait
    BY <2>2, EpollWaitInterests
  <2>3. CASE EndOfBatch
    BY <2>3 DEF EndOfBatch
  <2>4. CASE AcceptError
    BY <2>4 DEF AcceptError, Free
  <2>5. ASSUME NEW f \in Fds, NEW c \in Conns, Accept(f, c) PROVE Interests'
    <3>1. conn[f] = NoConn /\ interest[f] = "none" /\ interest' = interest
      BY <2>5 DEF Accept, Free
    <3>2. \A g \in Fds : conn'[g] = NoConn => conn[g] = NoConn
      BY <2>5 DEF Accept
    <3>3. UNCHANGED <<workqueue, batch>> /\ \A w \in Workers : pc'[w] = pc[w] /\ cur'[w] = cur[w]
      BY <2>5 DEF Accept
    <3>4. \/ pc'[Main] = "next"
          \/ pc'[Main] = "i_sock" /\ cur'[Main].fd = f
      BY <2>5 DEF Accept
    <3>5. Busy(Main)' => interest'[fd(Main)'] \in MainInterest(pc'[Main])
      BY <3>1, <3>4
    <3>6. \A w \in Workers : Busy(w)' => interest'[fd(w)'] = "off"
      BY <3>1, <3>3
    <3> QED
      BY <3>1, <3>2, <3>3, <3>5, <3>6
  <2>6. CASE InitSock
    BY <2>6 DEF InitSock
  <2>7. CASE InitAdd
    BY <2>7 DEF InitAdd
  <2>8. CASE InitLoad
    BY <2>8 DEF InitLoad
  <2>9. CASE InitStore
    BY <2>9 DEF InitStore, ResetRequest
  <2>10. ASSUME NEW e \in batch, HandleHangUp(e) PROVE Interests'
    BY <2>10 DEF HandleHangUp, TakeEvent
  <2>11. ASSUME NEW e \in batch, HandleIn(e) PROVE Interests'
    BY <2>11 DEF HandleIn, TakeEvent
  <2>12. ASSUME NEW e \in batch, HandleOut(e) PROVE Interests'
    BY <2>12 DEF HandleOut, TakeEvent
  <2>13. CASE Read
    BY <2>13 DEF Read
  <2>14. CASE AppendTask
    BY <2>14 DEF AppendTask
  <2>15. CASE WriteLater
    BY <2>15 DEF WriteLater, Modfd
  <2>16. CASE WriteKeepAlive
    BY <2>16 DEF WriteKeepAlive, Modfd, ResetRequest
  <2>17. CASE WriteClose
    BY <2>17 DEF WriteClose, Modfd
  <2>18. CASE WriteError
    BY <2>18 DEF WriteError
  <2> QED
    BY <1>3, <1>4, <2>1, <2>2, <2>3, <2>4, <2>5, <2>6, <2>7, <2>8, <2>9,
       <2>10, <2>11, <2>12, <2>13, <2>14, <2>15, <2>16, <2>17, <2>18 DEF MainStep, Threads
<1>5. ASSUME NEW w \in Workers, WorkerStep(w) PROVE Interests'
  <2>1. CASE Take(w)
    BY <2>1 DEF Take
  <2>2. CASE ParseMore(w)
    BY <2>2 DEF ParseMore
  <2>3. CASE ParseFail(w)
    BY <2>3 DEF ParseFail
  <2>4. CASE ArmIn(w)
    BY <2>4 DEF ArmIn, Arm, Modfd
  <2>5. CASE ArmOut(w)
    BY <2>5 DEF ArmOut, Arm, Modfd
  <2>6. ASSUME NEW keep \in BOOLEAN, ParseReply(w, keep) PROVE Interests'
    BY <2>6 DEF ParseReply
  <2> QED
    BY <1>3, <1>5, <2>1, <2>2, <2>3, <2>4, <2>5, <2>6 DEF WorkerStep, Threads
<1>6. CASE UNCHANGED vars
  BY <1>6 DEF vars
<1> QED
  BY <1>1, <1>2, <1>4, <1>5, <1>6 DEF Next, Client

(* A descriptor that somebody holds is not given back or handed out. *)
LEMMA HeldStep == IInv /\ [Next]_vars => (Held /\ NoStaleHandle)'
<1> SUFFICES ASSUME IInv, [Next]_vars PROVE (Held /\ NoStaleHandle)'
  OBVIOUS
<1> USE ServerAssumption, HeldFacts DEF IInv, TypeOK, Exclusive, Held, HoldPC, NoStaleHandle, Busy, fd, Threads,
      Goto, Running, kernel, object, loop
<1>1. ASSUME NEW c \in Conns, Connect(c) \/ HangUp(c) \/ \E seg \in {"part", "end"} : Send(c, seg)
      PROVE (Held /\ NoStaleHandle)'
  <2>1. CASE Connect(c)
    BY <2>1 DEF Connect
  <2>2. CASE HangUp(c)
    BY <2>2 DEF HangUp
  <2>3. ASSUME NEW seg \in {"part", "end"}, Send(c, seg) PROVE (Held /\ NoStaleHandle)'
    BY <2>3 DEF Send
  <2> QED
    BY <1>1, <2>1, <2>2, <2>3
<1>2. CASE Signal
  BY <1>2 DEF Signal
<1>3. ASSUME NEW th \in Threads, CloseStep(th) PROVE (Held /\ NoStaleHandle)'
  <2>1. CASE CloseTest(th)
    BY <2>1 DEF CloseTest, Done
  <2>2. CASE CloseRemove(th)
    <3>1. CASE sockfd[fd(th)]
      <4>1. /\ Busy(th) /\ conn' = [conn EXCEPT ![fd(th)] = NoConn]
        BY <2>2, <3>1 DEF CloseRemove
      <4> QED
        BY <2>2, <4>1 DEF CloseRemove
    <3>2. CASE ~sockfd[fd(th)]
      BY <2>2, <3>2 DEF CloseRemove
    <3> QED
      BY <3>1, <3>2
  <2>3. CASE CloseSock(th)
    BY <2>3 DEF CloseSock
  <2>4. CASE CloseLoad(th)
    BY <2>4 DEF CloseLoad
  <2>5. CASE CloseStore(th)
    BY <2>5 DEF CloseStore, Done
  <2> QED
    BY <1>3, <2>1, <2>2, <2>3, <2>4, <2>5 DEF CloseStep
<1>4. CASE MainStep
  <2>1. CASE LoopTest
    BY <2>1 DEF LoopTest
  <2>2. CASE EpollWait
    <3>1. \A th \in Threads : pc'[th] \in HoldPC => pc[th] \in HoldPC /\ cur'[th] = cur[th]
      BY <2>2, EpollWaitEffect, EpollWaitHands
    <3>2. \A th \in Threads : Busy(th)' => Busy(th) /\ fd(th)' = fd(th) /\ cur'[th] = cur[th]
      BY <2>2, EpollWaitEffect, EpollWaitHands
    <3>3. UNCHANGED <<conn, workqueue>> /\ \A e \in batch' : e.h.c \in Conns /\ conn'[e.h.fd] = e.h.c
      BY <2>2, EpollWaitEffect
    <3>4. Held'
      BY <3>1, <3>2, <3>3
    <3>5. NoStaleHandle'
      BY <3>2, <3>3
    <3> QED
      BY <3>4, <3>5
  <2>3. CASE EndOfBatch
    BY <2>3 DEF EndOfBatch
  <2>4. CASE AcceptError
    BY <2>4 DEF AcceptError, Free
  <2>5. ASSUME NEW f \in Fds, NEW c \in Conns, Accept(f, c) PROVE (Held /\ NoStaleHandle)'
    <3>1. conn[f] = NoConn /\ (conn' = conn \/ conn' = [conn EXCEPT ![f] = c])
      BY <2>5 DEF Accept, Free
    <3>2. /\ \A th \in Threads : Busy(th) => fd(th) # f
          /\ \A i \in DOMAIN workqueue : workqueue[i].fd # f
          /\ \A e \in batch : e.h.fd # f
      BY <3>1, FreeFacts
    <3>3. [fd |-> f, c |-> c] \in Handles
      BY DEF Handles
    <3>4. CASE userCnt >= MaxFd
      BY <2>5, <3>4 DEF Accept
    <3>5. CASE ~(userCnt >= MaxFd)
      <4>1. /\ conn' = [conn EXCEPT ![f] = c]
            /\ cur' = [cur EXCEPT ![Main] = [fd |-> f, c |-> c]]
            /\ pc' = [pc EXCEPT ![Main] = "i_sock"]
            /\ UNCHANGED <<workqueue, batch>>
        BY <2>5, <3>5 DEF Accept
      <4> QED
        BY <3>2, <3>3, <4>1
    <3> QED
      BY <3>4, <3>5
  <2>6. CASE InitSock
    BY <2>6 DEF InitSock
  <2>7. CASE InitAdd
    BY <2>7 DEF InitAdd
  <2>8. CASE InitLoad
    BY <2>8 DEF InitLoad
  <2>9. CASE InitStore
    BY <2>9 DEF InitStore, ResetRequest
  <2>10. ASSUME NEW e \in batch, HandleHangUp(e) PROVE (Held /\ NoStaleHandle)'
    BY <2>10 DEF HandleHangUp, TakeEvent
  <2>11. ASSUME NEW e \in batch, HandleIn(e) PROVE (Held /\ NoStaleHandle)'
    BY <2>11 DEF HandleIn, TakeEvent
  <2>12. ASSUME NEW e \in batch, HandleOut(e) PROVE (Held /\ NoStaleHandle)'
    BY <2>12 DEF HandleOut, TakeEvent
  <2>13. CASE Read
    BY <2>13 DEF Read
  <2>14. CASE AppendTask
    BY <2>14 DEF AppendTask
  <2>15. CASE WriteLater
    BY <2>15 DEF WriteLater, Modfd
  <2>16. CASE WriteKeepAlive
    BY <2>16 DEF WriteKeepAlive, Modfd, ResetRequest
  <2>17. CASE WriteClose
    BY <2>17 DEF WriteClose, Modfd
  <2>18. CASE WriteError
    BY <2>18 DEF WriteError
  <2> QED
    BY <1>3, <1>4, <2>1, <2>2, <2>3, <2>4, <2>5, <2>6, <2>7, <2>8, <2>9,
       <2>10, <2>11, <2>12, <2>13, <2>14, <2>15, <2>16, <2>17, <2>18 DEF MainStep, Threads
<1>5. ASSUME NEW w \in Workers, WorkerStep(w) PROVE (Held /\ NoStaleHandle)'
  <2>1. CASE Take(w)
    BY <2>1 DEF Take
  <2>2. CASE ParseMore(w)
    BY <2>2 DEF ParseMore
  <2>3. CASE ParseFail(w)
    BY <2>3 DEF ParseFail
  <2>4. CASE ArmIn(w)
    BY <2>4 DEF ArmIn, Arm, Modfd
  <2>5. CASE ArmOut(w)
    BY <2>5 DEF ArmOut, Arm, Modfd
  <2>6. ASSUME NEW keep \in BOOLEAN, ParseReply(w, keep) PROVE (Held /\ NoStaleHandle)'
    BY <2>6 DEF ParseReply
  <2> QED
    BY <1>3, <1>5, <2>1, <2>2, <2>3, <2>4, <2>5, <2>6 DEF WorkerStep, Threads
<1>6. CASE UNCHANGED vars
  BY <1>6 DEF vars
<1> QED
  BY <1>1, <1>2, <1>4, <1>5, <1>6 DEF Next, Client

(* A response stays until the main thread has written it. *)
LEMMA ResponseStep == IInv /\ [Next]_vars => (OutHasResponse /\ Responds)'
<1> SUFFICES ASSUME IInv, [Next]_vars PROVE (OutHasResponse /\ Responds)'
  OBVIOUS
<1> USE ServerAssumption, HeldFacts DEF IInv, TypeOK, Exclusive, Interests, MainInterest,
      OutHasResponse, Responds, Busy, fd, Threads, Goto, Running, kernel, object, loop
<1>1. ASSUME NEW c \in Conns, Connect(c) \/ HangUp(c) \/ \E seg \in {"part", "end"} : Send(c, seg)
      PROVE (OutHasResponse /\ Responds)'
  <2>1. CASE Connect(c)
    BY <2>1 DEF Connect
  <2>2. CASE HangUp(c)
    BY <2>2 DEF HangUp
  <2>3. ASSUME NEW seg \in {"part", "end"}, Send(c, seg) PROVE (OutHasResponse /\ Responds)'
    BY <2>3 DEF Send
  <2> QED
    BY <1>1, <2>1, <2>2, <2>3
<1>2. CASE Signal
  BY <1>2 DEF Signal
<1>3. ASSUME NEW th \in Threads, CloseStep(th) PROVE (OutHasResponse /\ Responds)'
  <2>1. CASE CloseTest(th)
    BY <2>1 DEF CloseTest, Done
  <2>2. CASE CloseRemove(th)
    BY <2>2 DEF CloseRemove
  <2>3. CASE CloseSock(th)
    BY <2>3 DEF CloseSock
  <2>4. CASE CloseLoad(th)
    BY <2>4 DEF CloseLoad
  <2>5. CASE CloseStore(th)
    BY <2>5 DEF CloseStore, Done
  <2> QED
    BY <1>3, <2>1, <2>2, <2>3, <2>4, <2>5 DEF CloseStep
<1>4. CASE MainStep
  <2>1. CASE LoopTest
    BY <2>1 DEF LoopTest
  <2>2. CASE EpollWait
    BY <2>2, EpollWaitResponds
  <2>3. CASE EndOfBatch
    BY <2>3 DEF EndOfBatch
  <2>4. CASE AcceptError
    BY <2>4 DEF AcceptError, Free
  <2>5. ASSUME NEW f \in Fds, NEW c \in Conns, Accept(f, c) PROVE (OutHasResponse /\ Responds)'
    BY <2>5 DEF Accept, Free
  <2>6. CASE InitSock
    BY <2>6 DEF InitSock
  <2>7. CASE InitAdd
    BY <2>7 DEF InitAdd
  <2>8. CASE InitLoad
    BY <2>8 DEF InitLoad
  <2>9. CASE InitStore
    BY <2>9 DEF InitStore, ResetRequest
  <2>10. ASSUME NEW e \in batch, HandleHangUp(e) PROVE (OutHasResponse /\ Responds)'
    BY <2>10 DEF HandleHangUp, TakeEvent
  <2>11. ASSUME NEW e \in batch, HandleIn(e) PROVE (OutHasResponse /\ Responds)'
    BY <2>11 DEF HandleIn, TakeEvent
  <2>12. ASSUME NEW e \in batch, HandleOut(e) PROVE (OutHasResponse /\ Responds)'
    BY <2>12 DEF HandleOut, TakeEvent
  <2>13. CASE Read
    BY <2>13 DEF Read
  <2>14. CASE AppendTask
    BY <2>14 DEF AppendTask
  <2>15. CASE WriteLater
    BY <2>15 DEF WriteLater, Modfd
  <2>16. CASE WriteKeepAlive
    BY <2>16 DEF WriteKeepAlive, Modfd, ResetRequest
  <2>17. CASE WriteClose
    BY <2>17 DEF WriteClose, Modfd
  <2>18. CASE WriteError
    BY <2>18 DEF WriteError
  <2> QED
    BY <1>3, <1>4, <2>1, <2>2, <2>3, <2>4, <2>5, <2>6, <2>7, <2>8, <2>9,
       <2>10, <2>11, <2>12, <2>13, <2>14, <2>15, <2>16, <2>17, <2>18 DEF MainStep, Threads
<1>5. ASSUME NEW w \in Workers, WorkerStep(w) PROVE (OutHasResponse /\ Responds)'
  <2>1. CASE Take(w)
    BY <2>1 DEF Take
  <2>2. CASE ParseMore(w)
    BY <2>2 DEF ParseMore
  <2>3. CASE ParseFail(w)
    BY <2>3 DEF ParseFail
  <2>4. CASE ArmIn(w)
    BY <2>4 DEF ArmIn, Arm, Modfd
  <2>5. CASE ArmOut(w)
    BY <2>5 DEF ArmOut, Arm, Modfd
  <2>6. ASSUME NEW keep \in BOOLEAN, ParseReply(w, keep) PROVE (OutHasResponse /\ Responds)'
    BY <2>6 DEF ParseReply
  <2> QED
    BY <1>3, <1>5, <2>1, <2>2, <2>3, <2>4, <2>5, <2>6 DEF WorkerStep, Threads
<1>6. CASE UNCHANGED vars
  BY <1>6 DEF vars
<1> QED
  BY <1>1, <1>2, <1>4, <1>5, <1>6 DEF Next, Client

(* The server's first state: nothing is accepted and nobody holds anything. *)
LEMMA InvInit == Init => IInv /\ BatchHandled /\ NotStranded
<1> SUFFICES ASSUME Init PROVE IInv /\ BatchHandled /\ NotStranded
  OBVIOUS
<1> USE ServerAssumption DEF Init
<1>1. TypeOK
  <2>1. /\ pc \in [Threads -> MainPC \union WorkerPC \union ClosePC]
        /\ pc[Main] \in MainPC \union ClosePC
        /\ \A w \in Workers : pc[w] \in WorkerPC \union ClosePC
    BY DEF Threads, MainPC, WorkerPC
  <2>2. {sockfd, got, linger, resp} \subseteq [Fds -> BOOLEAN] /\ used \in [Fds -> 0 .. BufSize]
    OBVIOUS
  <2>3. /\ inbox \in [Conns -> Seq({"part", "end"})] /\ workqueue \in Seq(Handles)
        /\ sent \in [Conns -> 0 .. MaxSend] /\ fin \in [Conns -> BOOLEAN]
    OBVIOUS
  <2>4. lready \in BOOLEAN /\ stop \in BOOLEAN /\ levent \in BOOLEAN
    OBVIOUS
  <2> QED
    BY <2>1, <2>2, <2>3, <2>4 DEF TypeOK
<1>2. \A th \in Threads : ~Busy(th) /\ pc[th] \notin HoldPC
  BY DEF Threads, Busy, HoldPC
<1>3. Exclusive /\ Interests
  <2>1. \A w \in Workers : ~Busy(w)
    BY <1>2 DEF Threads
  <2>2. ~Busy(Main) /\ workqueue = <<>> /\ batch = {} /\ \A f \in Fds : interest[f] = "none"
    BY <1>2 DEF Threads
  <2> QED
    BY <1>2, <2>1, <2>2 DEF Exclusive, Interests
<1>4. Held /\ NoStaleHandle
  BY <1>2 DEF Held, NoStaleHandle
<1>5. OutHasResponse /\ Responds
  BY DEF OutHasResponse, Responds, Threads
<1> QED
  BY <1>1, <1>3, <1>4, <1>5 DEF IInv, BatchHandled, NotStranded

(* The invariant is inductive. *)
LEMMA InvStep == IInv /\ [Next]_vars => IInv'
<1> QED
  BY TypeStep, ExclusiveStep, InterestsStep, HeldStep, ResponseStep DEF IInv

(* The invariant holds in every state the server reaches. *)
LEMMA InvHolds == Spec => []IInv
<1> QED
  BY InvInit, InvStep, PTL DEF Spec

(* The variables of main.cpp, http_conn and the pool keep their types. *)
THEOREM TypeCorrect == Spec => []TypeOK
<1>1. IInv => TypeOK
  BY DEF IInv
<1> QED
  BY InvHolds, <1>1, PTL

(* EPOLLONESHOT (main.cpp:80, http_conn.cpp:43) is a lock: a descriptor is  *)
(* with one event, queue entry or thread, and while it is armed only the    *)
(* main thread may still have it, on its way out of init() or write().      *)
THEOREM OneOwnerHolds == Spec => []OneOwner
<1>1. IInv => OneOwner
  <2> SUFFICES ASSUME IInv, NEW f \in Fds
               PROVE  /\ Cardinality(Users(f)) + Cardinality(Queued(f)) + Cardinality(Pending(f)) <= 1
                      /\ Armed(f) => Queued(f) = {} /\ Pending(f) = {} /\ Users(f) \subseteq {Main}
    BY DEF OneOwner
  <2>1. Users(f) = {} \/ \E th \in Threads : Users(f) = {th}
    BY DEF IInv, Exclusive, Users
  <2>2. Queued(f) = {} \/ \E i \in DOMAIN workqueue : Queued(f) = {i}
    BY DEF IInv, Exclusive, Queued
  <2>3. Pending(f) = {} \/ \E e \in batch : Pending(f) = {e}
    BY DEF IInv, Exclusive, Pending
  <2>4. \/ Users(f) = {} /\ Queued(f) = {}
        \/ Users(f) = {} /\ Pending(f) = {}
        \/ Queued(f) = {} /\ Pending(f) = {}
    BY DEF IInv, Exclusive, Users, Queued, Pending
  <2>5. Cardinality({}) = 0 /\ \A x : Cardinality({x}) = 1
    BY FS_EmptySet, FS_Singleton
  <2>6. /\ Cardinality(Users(f)) \in {0, 1} /\ (Users(f) = {} => Cardinality(Users(f)) = 0)
        /\ Cardinality(Queued(f)) \in {0, 1} /\ (Queued(f) = {} => Cardinality(Queued(f)) = 0)
        /\ Cardinality(Pending(f)) \in {0, 1} /\ (Pending(f) = {} => Cardinality(Pending(f)) = 0)
    BY <2>1, <2>2, <2>3, <2>5
  <2>7. Armed(f) => Queued(f) = {} /\ Pending(f) = {} /\ Users(f) \subseteq {Main}
    BY DEF IInv, Interests, Armed, Users, Queued, Pending, Threads
  <2> QED
    BY <2>4, <2>6, <2>7
<1> QED
  BY InvHolds, <1>1, PTL

(* A descriptor's number, in an event, in the pool's queue or in a thread's *)
(* hands, still means the connection it was taken for.                      *)
THEOREM NoStaleHandleHolds == Spec => []NoStaleHandle
<1>1. IInv => NoStaleHandle
  BY DEF IInv
<1> QED
  BY InvHolds, <1>1, PTL

(* write() is entered, and EPOLLOUT armed, only with a response to send     *)
(* (http_conn.cpp:213-251).                                                 *)
THEOREM OutHasResponseHolds == Spec => []OutHasResponse
<1>1. IInv => OutHasResponse
  BY DEF IInv
<1> QED
  BY InvHolds, <1>1, PTL
-----------------------------------------------------------------------------
(* The main thread waits again only when it has handled every event. *)
LEMMA BatchStep == IInv /\ BatchHandled /\ [Next]_vars => BatchHandled'
<1> SUFFICES ASSUME IInv, BatchHandled, [Next]_vars PROVE BatchHandled'
  OBVIOUS
<1> USE ServerAssumption, HeldFacts DEF IInv, TypeOK, BatchHandled, Threads, Goto, Running, kernel, object, loop
<1>1. ASSUME NEW c \in Conns, Connect(c) \/ HangUp(c) \/ \E seg \in {"part", "end"} : Send(c, seg)
      PROVE BatchHandled'
  <2>1. CASE Connect(c)
    BY <2>1 DEF Connect
  <2>2. CASE HangUp(c)
    BY <2>2 DEF HangUp
  <2>3. ASSUME NEW seg \in {"part", "end"}, Send(c, seg) PROVE BatchHandled'
    BY <2>3 DEF Send
  <2> QED
    BY <1>1, <2>1, <2>2, <2>3
<1>2. CASE Signal
  BY <1>2 DEF Signal
<1>3. ASSUME NEW th \in Threads, CloseStep(th) PROVE BatchHandled'
  <2>1. CASE CloseTest(th)
    BY <2>1 DEF CloseTest, Done
  <2>2. CASE CloseRemove(th)
    BY <2>2 DEF CloseRemove
  <2>3. CASE CloseSock(th)
    BY <2>3 DEF CloseSock
  <2>4. CASE CloseLoad(th)
    BY <2>4 DEF CloseLoad
  <2>5. CASE CloseStore(th)
    BY <2>5 DEF CloseStore, Done
  <2> QED
    BY <1>3, <2>1, <2>2, <2>3, <2>4, <2>5 DEF CloseStep
<1>4. CASE MainStep
  <2>1. CASE LoopTest
    BY <2>1 DEF LoopTest
  <2>2. CASE EpollWait
    BY <2>2 DEF EpollWait, Disarm, ReportListen
  <2>3. CASE EndOfBatch
    BY <2>3 DEF EndOfBatch
  <2>4. CASE AcceptError
    BY <2>4 DEF AcceptError, Free
  <2>5. ASSUME NEW f \in Fds, NEW c \in Conns, Accept(f, c) PROVE BatchHandled'
    BY <2>5 DEF Accept, Free
  <2>6. CASE InitSock
    BY <2>6 DEF InitSock
  <2>7. CASE InitAdd
    BY <2>7 DEF InitAdd
  <2>8. CASE InitLoad
    BY <2>8 DEF InitLoad
  <2>9. CASE InitStore
    BY <2>9 DEF InitStore, ResetRequest
  <2>10. ASSUME NEW e \in batch, HandleHangUp(e) PROVE BatchHandled'
    BY <2>10 DEF HandleHangUp, TakeEvent
  <2>11. ASSUME NEW e \in batch, HandleIn(e) PROVE BatchHandled'
    BY <2>11 DEF HandleIn, TakeEvent
  <2>12. ASSUME NEW e \in batch, HandleOut(e) PROVE BatchHandled'
    BY <2>12 DEF HandleOut, TakeEvent
  <2>13. CASE Read
    BY <2>13 DEF Read
  <2>14. CASE AppendTask
    BY <2>14 DEF AppendTask
  <2>15. CASE WriteLater
    BY <2>15 DEF WriteLater, Modfd
  <2>16. CASE WriteKeepAlive
    BY <2>16 DEF WriteKeepAlive, Modfd, ResetRequest
  <2>17. CASE WriteClose
    BY <2>17 DEF WriteClose, Modfd
  <2>18. CASE WriteError
    BY <2>18 DEF WriteError
  <2> QED
    BY <1>3, <1>4, <2>1, <2>2, <2>3, <2>4, <2>5, <2>6, <2>7, <2>8, <2>9,
       <2>10, <2>11, <2>12, <2>13, <2>14, <2>15, <2>16, <2>17, <2>18 DEF MainStep, Threads
<1>5. ASSUME NEW w \in Workers, WorkerStep(w) PROVE BatchHandled'
  <2>1. CASE Take(w)
    BY <2>1 DEF Take
  <2>2. CASE ParseMore(w)
    BY <2>2 DEF ParseMore
  <2>3. CASE ParseFail(w)
    BY <2>3 DEF ParseFail
  <2>4. CASE ArmIn(w)
    BY <2>4 DEF ArmIn, Arm, Modfd
  <2>5. CASE ArmOut(w)
    BY <2>5 DEF ArmOut, Arm, Modfd
  <2>6. ASSUME NEW keep \in BOOLEAN, ParseReply(w, keep) PROVE BatchHandled'
    BY <2>6 DEF ParseReply
  <2> QED
    BY <1>3, <1>5, <2>1, <2>2, <2>3, <2>4, <2>5, <2>6 DEF WorkerStep, Threads
<1>6. CASE UNCHANGED vars
  BY <1>6 DEF vars
<1> QED
  BY <1>1, <1>2, <1>4, <1>5, <1>6 DEF Next, Client

(* The pool is large enough for every descriptor there can be. *)
RoomForAll == IsFiniteSet(Fds) /\ Cardinality(Fds) <= MaxTask

(* Then append() never refuses: the queue holds other descriptors than the  *)
(* one that is being appended, each once.                                   *)
LEMMA AppendHasRoom ==
    ASSUME IInv, ServerAssumption, RoomForAll, pc[Main] = "append"
    PROVE  Len(workqueue) < MaxTask
<1> DEFINE n == Len(workqueue)
           taken == [i \in 1 .. n + 1 |-> IF i <= n THEN workqueue[i].fd ELSE fd(Main)]
<1>1. n \in Nat /\ DOMAIN workqueue = 1 .. n
  BY LenProperties DEF IInv, TypeOK
<1>2. Busy(Main) /\ Main \in Threads
  BY DEF Busy, Threads
<1>3. taken \in [1 .. n + 1 -> Fds]
  BY <1>1, <1>2, HeldFacts
<1>4. \A i, j \in 1 .. n : workqueue[i].fd = workqueue[j].fd => i = j
  BY <1>1 DEF IInv, Exclusive
<1>5. \A i \in 1 .. n : workqueue[i].fd # fd(Main)
  BY <1>1, <1>2 DEF IInv, Exclusive
<1>6. taken \in Injection(1 .. n + 1, Fds)
  <2>1. ASSUME NEW i \in 1 .. n + 1, NEW j \in 1 .. n + 1, taken[i] = taken[j] PROVE i = j
    BY <1>1, <1>4, <1>5, <2>1
  <2> QED
    BY <1>3, <2>1 DEF Injection, IsInjective
<1>7. Cardinality(1 .. n + 1) <= Cardinality(Fds)
  BY <1>6, FS_Injection DEF RoomForAll
<1>8. Cardinality(1 .. n + 1) = n + 1 /\ Cardinality(Fds) \in Nat
  BY <1>1, FS_Interval, FS_CardinalityType DEF RoomForAll
<1> QED
  BY <1>1, <1>7, <1>8 DEF RoomForAll, ServerAssumption

(* NotStranded, without the sets. *)
Somewhere(f) ==
    \/ Armed(f)
    \/ \E i \in DOMAIN workqueue : workqueue[i].fd = f
    \/ \E e \in batch : e.h.fd = f
    \/ \E th \in Threads : Busy(th) /\ fd(th) = f

EachSomewhere == \A f \in Fds : conn[f] # NoConn /\ sockfd[f] => Somewhere(f)

(* Having a queue entry, event or thread is what the three sets of NotStranded say. *)
LEMMA SomewhereIsNotStranded == EachSomewhere <=> NotStranded
<1>1. \A f \in Fds : Somewhere(f) <=> Armed(f) \/ Queued(f) # {} \/ Pending(f) # {} \/ Users(f) # {}
  BY DEF Somewhere, Queued, Pending, Users
<1> QED
  BY <1>1 DEF EachSomewhere, NotStranded

(* A connection that leaves one pair of hands is in the next, armed or closed. *)
LEMMA EachSomewhereStep == IInv /\ BatchHandled /\ RoomForAll /\ EachSomewhere /\ [Next]_vars => EachSomewhere'
<1> SUFFICES ASSUME IInv, BatchHandled, RoomForAll, EachSomewhere, [Next]_vars,
                    NEW x \in Fds, conn'[x] # NoConn, sockfd'[x]
             PROVE  Somewhere(x)'
  BY DEF EachSomewhere
<1>t. /\ pc \in [Threads -> MainPC \union WorkerPC \union ClosePC]
      /\ cur \in [Threads -> Handles \union {NoHandle}]
      /\ conn \in [Fds -> Conns \union {NoConn}]
      /\ interest \in [Fds -> {"none", "in", "out", "off"}]
      /\ sockfd \in [Fds -> BOOLEAN]
  BY DEF IInv, TypeOK
<1>s. conn[x] # NoConn /\ sockfd[x] => Somewhere(x)
  BY DEF EachSomewhere
<1>h. \A th \in Threads : pc[th] \in HoldPC => fd(th) \in Fds
  BY HeldFacts
<1> USE ServerAssumption, <1>t, <1>s, <1>h DEF Somewhere, Armed, Busy, HoldPC, fd, Threads, Goto, Running, kernel, object, loop
<1>1. ASSUME NEW c \in Conns, Connect(c) \/ HangUp(c) \/ \E seg \in {"part", "end"} : Send(c, seg)
      PROVE Somewhere(x)'
  <2>1. CASE Connect(c)
    BY <2>1 DEF Connect
  <2>2. CASE HangUp(c)
    BY <2>2 DEF HangUp
  <2>3. ASSUME NEW seg \in {"part", "end"}, Send(c, seg) PROVE Somewhere(x)'
    BY <2>3 DEF Send
  <2> QED
    BY <1>1, <2>1, <2>2, <2>3
<1>2. CASE Signal
  BY <1>2 DEF Signal
<1>3. ASSUME NEW th \in Threads, CloseStep(th) PROVE Somewhere(x)'
  <2>1. CASE CloseTest(th)
    BY <2>1 DEF CloseTest, Done
  <2>2. CASE CloseRemove(th)
    BY <2>2 DEF CloseRemove
  <2>3. CASE CloseSock(th)
    BY <2>3 DEF CloseSock
  <2>4. CASE CloseLoad(th)
    BY <2>4 DEF CloseLoad
  <2>5. CASE CloseStore(th)
    BY <2>5 DEF CloseStore, Done
  <2> QED
    BY <1>3, <2>1, <2>2, <2>3, <2>4, <2>5 DEF CloseStep
<1>4. CASE MainStep
  <2>1. CASE LoopTest
    BY <2>1 DEF LoopTest
  <2>2. CASE EpollWait
    <3>1. batch = {} /\ conn' = conn /\ sockfd' = sockfd /\ workqueue' = workqueue
      BY <2>2, EpollWaitEffect DEF EpollWait, BatchHandled
    <3>2. \A th \in Threads : Busy(th) => Busy(th)' /\ fd(th)' = fd(th)
      BY <2>2 DEF EpollWait
    <3>3. interest'[x] = interest[x] \/ \E e \in batch' : e.h.fd = x
      BY <2>2, EpollWaitEffect
    <3> QED
      BY <3>1, <3>2, <3>3
  <2>3. CASE EndOfBatch
    BY <2>3 DEF EndOfBatch
  <2>4. CASE AcceptError
    BY <2>4 DEF AcceptError, Free
  <2>5. ASSUME NEW f \in Fds, NEW c \in Conns, Accept(f, c) PROVE Somewhere(x)'
    BY <2>5 DEF Accept, Free
  <2>6. CASE InitSock
    BY <2>6 DEF InitSock
  <2>7. CASE InitAdd
    BY <2>7 DEF InitAdd
  <2>8. CASE InitLoad
    BY <2>8 DEF InitLoad
  <2>9. CASE InitStore
    <3>1. interest[fd(Main)] = "in"
      BY <2>9 DEF InitStore, IInv, Interests, MainInterest
    <3> QED
      BY <2>9, <3>1 DEF InitStore
  <2>10. ASSUME NEW e \in batch, HandleHangUp(e) PROVE Somewhere(x)'
    BY <2>10 DEF HandleHangUp, TakeEvent
  <2>11. ASSUME NEW e \in batch, HandleIn(e) PROVE Somewhere(x)'
    BY <2>11 DEF HandleIn, TakeEvent
  <2>12. ASSUME NEW e \in batch, HandleOut(e) PROVE Somewhere(x)'
    BY <2>12 DEF HandleOut, TakeEvent
  <2>13. CASE Read
    BY <2>13 DEF Read
  <2>14. CASE AppendTask
    <3>1. pc[Main] = "append" /\ workqueue' = Append(workqueue, cur[Main])
      BY <2>14, AppendHasRoom DEF AppendTask
    <3>2. workqueue \in Seq(Handles) /\ cur[Main] \in Handles
      BY <3>1, HeldFacts DEF IInv, TypeOK
    <3>3. /\ \A i \in DOMAIN workqueue : i \in DOMAIN workqueue' /\ workqueue'[i] = workqueue[i]
          /\ \E i \in DOMAIN workqueue' : workqueue'[i] = cur[Main]
      <4>1. Len(workqueue) + 1 \in DOMAIN workqueue' /\ workqueue'[Len(workqueue) + 1] = cur[Main]
        BY <3>1, <3>2, AppendProperties, LenProperties
      <4> QED
        BY <3>1, <3>2, <4>1, AppendProperties, LenProperties
    <3> QED
      BY <2>14, <3>1, <3>3 DEF AppendTask
  <2>15. CASE WriteLater
    BY <2>15 DEF WriteLater, Modfd
  <2>16. CASE WriteKeepAlive
    BY <2>16 DEF WriteKeepAlive, Modfd, ResetRequest
  <2>17. CASE WriteClose
    BY <2>17 DEF WriteClose, Modfd
  <2>18. CASE WriteError
    BY <2>18 DEF WriteError
  <2> QED
    BY <1>3, <1>4, <2>1, <2>2, <2>3, <2>4, <2>5, <2>6, <2>7, <2>8, <2>9,
       <2>10, <2>11, <2>12, <2>13, <2>14, <2>15, <2>16, <2>17, <2>18 DEF MainStep, Threads
<1>5. ASSUME NEW w \in Workers, WorkerStep(w) PROVE Somewhere(x)'
  <2>1. CASE Take(w)
    <3>1. workqueue \in Seq(Handles) /\ workqueue # <<>> /\ workqueue' = Tail(workqueue)
      BY <2>1 DEF Take, IInv, TypeOK
    <3>2. \A i \in DOMAIN workqueue :
            \/ workqueue[i] = Head(workqueue)
            \/ \E j \in DOMAIN workqueue' : workqueue'[j] = workqueue[i]
      <4>1. Head(workqueue) = workqueue[1]
        BY <3>1
      <4>2. ASSUME NEW i \in DOMAIN workqueue, i # 1
            PROVE  i - 1 \in DOMAIN workqueue' /\ workqueue'[i - 1] = workqueue[i]
        BY <3>1, <4>2, HeadTailProperties, LenProperties
      <4> QED
        BY <4>1, <4>2
    <3> QED
      BY <2>1, <3>2 DEF Take
  <2>2. CASE ParseMore(w)
    BY <2>2 DEF ParseMore
  <2>3. CASE ParseFail(w)
    BY <2>3 DEF ParseFail
  <2>4. CASE ArmIn(w)
    BY <2>4 DEF ArmIn, Arm, Modfd
  <2>5. CASE ArmOut(w)
    BY <2>5 DEF ArmOut, Arm, Modfd
  <2>6. ASSUME NEW keep \in BOOLEAN, ParseReply(w, keep) PROVE Somewhere(x)'
    BY <2>6 DEF ParseReply
  <2> QED
    BY <1>3, <1>5, <2>1, <2>2, <2>3, <2>4, <2>5, <2>6 DEF WorkerStep, Threads
<1>6. CASE UNCHANGED vars
  BY <1>6 DEF vars
<1> QED
  BY <1>1, <1>2, <1>4, <1>5, <1>6 DEF Next, Client

(* No connection is dropped between epoll, the queue and the threads, when  *)
(* the pool's 12000 entries are at least as many as the process may open    *)
(* descriptors.                                                             *)
THEOREM NotStrandedHolds == RoomForAll /\ Spec => []NotStranded
<1> SUFFICES ASSUME RoomForAll PROVE Spec => []NotStranded
  OBVIOUS
<1>1. IInv /\ BatchHandled /\ EachSomewhere /\ [Next]_vars => (IInv /\ BatchHandled /\ EachSomewhere)'
  BY InvStep, BatchStep, EachSomewhereStep
<1>2. Init => IInv /\ BatchHandled /\ EachSomewhere
  BY InvInit, SomewhereIsNotStranded
<1>3. EachSomewhere => NotStranded
  BY SomewhereIsNotStranded
<1> QED
  BY <1>1, <1>2, <1>3, PTL DEF Spec
=============================================================================
