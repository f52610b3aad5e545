-------------------------- MODULE ProcessesProofs --------------------------
(***************************************************************************)
(* Proofs about the two servers with child processes as MCProcesses.tla    *)
(* composes them, for any clients, any number of children and any limits:  *)
(* what the chat room's parent knows of its children, and what the pool's  *)
(* announcements and signals are worth.                                    *)
(***************************************************************************)
EXTENDS MCProcesses, FiniteSetTheorems, SequenceTheorems, TLAPS

(* The pool.  Types of what its properties speak of. *)
PoolTypes ==
    /\ state \in [Clients -> {"off", "backlog", "on", "closed", "running", "ended", "reaped"}]
    /\ owner \in [Clients -> Pool!Procs]
    /\ kid \in [Pool!Procs -> {"wait", "events", "zombie", "reaped"}]
    /\ kpipe \in [Pool!Procs -> Nat]
    /\ ksigs \in [Pool!Procs -> SUBSET {"CHLD", "TERM"}]
    /\ kready \in [Pool!Procs -> SUBSET (Clients \union {"pipe", "sig"})]
    /\ kbatch \in [Pool!Procs -> SUBSET (Clients \union {"pipe", "sig"})]
    /\ sub_proc_cnt \in Pool!Procs

(* Who waits has handled its batch; an event of a child's pipe has an int, *)
(* and a connection that a child hears of was accepted.                    *)
PoolBatches ==
    /\ pc = "wait" => batch = {}
    /\ \A k \in Pool!Procs :
          /\ kid[k] = "wait" => kbatch[k] = {}
          /\ "pipe" \in kbatch[k] => kpipe[k] > 0
          /\ \A c \in Clients \intersect (kready[k] \union kbatch[k]) : state[c] \notin {"off", "backlog"}

(* AcceptFinds with the event that the next epoll_wait() will return.      *)
Announced ==
    /\ IsFiniteSet(Pool!Ints)
    /\ Cardinality(Pool!Ints) + (IF "listen" \in batch THEN 1 ELSE 0)
                              + (IF "listen" \in ready THEN 1 ELSE 0) <= Cardinality(Pool!Backlog)

PoolInv == PoolTypes /\ PoolBatches /\ Announced /\ Pool!ProgramIsNoticed

(* The chat room. *)
ChatTypes ==
    /\ users \in Seq(Users)
    /\ sub \in [Users -> Int]
    /\ kid \in [Users -> {"none", "test", "enter", "wait", "events", "zombie", "reaped"}]
    /\ sigs \in Seq({"CHLD", "TERM"}) /\ todo \in Seq({"CHLD", "TERM"})

(* A child that was not waited for has one record, and a record its child. *)
ChatRecords ==
    /\ \A k \in Chat!Unreaped : sub[k] + 1 \in DOMAIN users /\ users[sub[k] + 1] = k
    /\ \A i \in DOMAIN users : users[i] \in Chat!Unreaped /\ sub[users[i]] = i - 1

(* Nothing is left over from the batch or the signals read before.         *)
ChatBatches ==
    /\ pc = "wait" => batch = {}
    /\ pc \in {"wait", "events"} => todo = <<>>

ChatInv == ChatTypes /\ ChatRecords /\ ChatBatches /\ Chat!ZombieIsNoticed

-----------------------------------------------------------------------------
(* Operators of the instances are those of the modules they stand for. *)
LEMMA SameCardinality ==
    \A S : /\ Pool!Cardinality(S) = Cardinality(S) /\ Chat!Cardinality(S) = Cardinality(S)
          /\ Pool!IsFiniteSet(S) = IsFiniteSet(S)
<1>1. \A S : Pool!Cardinality(S) = Cardinality(S)
  BY Zenon DEF Cardinality, Pool!Cardinality
<1>2. \A S : Chat!Cardinality(S) = Cardinality(S)
  BY Zenon DEF Cardinality, Chat!Cardinality
<1>3. \A S : Pool!IsFiniteSet(S) = IsFiniteSet(S)
  BY Zenon DEF IsFiniteSet, Pool!IsFiniteSet
<1> QED
  BY <1>1, <1>2, <1>3

(* What is assumed of the pool. *)
LEMMA PoolFacts ==
    /\ m_process_num \in Nat \ {0} /\ IsFiniteSet(Clients)
    /\ "pipe" \notin Clients /\ "sig" \notin Clients
    /\ Pool!Procs = 0 .. m_process_num - 1 /\ 0 \in Pool!Procs
<1>1. m_process_num \in Nat \ {0} /\ IsFiniteSet(Clients) /\ "pipe" \notin Clients /\ "sig" \notin Clients
  BY ProcessesAssumption, SameCardinality DEF Pool!PoolAssumption
<1> QED
  BY <1>1 DEF Pool!Procs

(* An edge adds one thing to what one child will hear of. *)
LEMMA EdgeOfAdds ==
    ASSUME PoolTypes, NEW k \in Pool!Procs, NEW x \in Clients \union {"pipe", "sig"}, Pool!EdgeOf(k, x)
    PROVE  /\ kready' \in [Pool!Procs -> SUBSET (Clients \union {"pipe", "sig"})]
           /\ \A j \in Pool!Procs : /\ kready[j] \subseteq kready'[j]
                                    /\ kready'[j] \subseteq kready[j] \union (IF j = k THEN {x} ELSE {})
           /\ k \in Pool!Living => x \in kready'[k]
BY DEF PoolTypes, Pool!EdgeOf

(* So does what a client does, for a connection that was accepted. *)
LEMMA ArrivalAdds ==
    ASSUME PoolTypes, NEW c \in Clients, Pool!Arrival(c)
    PROVE  /\ kready' \in [Pool!Procs -> SUBSET (Clients \union {"pipe", "sig"})]
           /\ \A j \in Pool!Procs :
                 /\ kready[j] \subseteq kready'[j]
                 /\ kready'[j] \subseteq kready[j] \union (IF state[c] = "on" THEN {c} ELSE {})
<1>1. owner[c] \in Pool!Procs
  BY DEF PoolTypes
<1>2. CASE state[c] = "on"
  BY <1>1, <1>2, EdgeOfAdds DEF Pool!Arrival
<1>3. CASE state[c] # "on"
  BY <1>3 DEF Pool!Arrival, PoolTypes
<1> QED
  BY <1>2, <1>3

(* The pool's variables keep their types. *)
LEMMA PoolTypesStep ==
    ASSUME PoolTypes, PoolBatches, Pool!Next
    PROVE  PoolTypes'
<1>1. CASE Pool!EpollWait \/ Pool!EndOfBatch \/ Pool!DispatchFails \/ Pool!ReadSignals \/ Pool!EndOfSignals \/ Pool!SigChld
  BY <1>1 DEF PoolTypes, Pool!EpollWait, Pool!EndOfBatch, Pool!DispatchFails, Pool!ReadSignals,
     Pool!EndOfSignals, Pool!SigChld, Pool!conns, Pool!children, Pool!parent
<1>2. CASE Pool!Dispatch
  <2>1. sub_proc_cnt' \in Pool!Procs
    <3>1. sub_proc_cnt \in 0 .. m_process_num - 1 /\ sub_proc_cnt' = (sub_proc_cnt + 1) % m_process_num
      BY <1>2, PoolFacts DEF Pool!Dispatch, PoolTypes
    <3> QED
      BY <3>1, PoolFacts
  <2>2. kready' \in [Pool!Procs -> SUBSET (Clients \union {"pipe", "sig"})]
    BY <1>2, EdgeOfAdds DEF Pool!Dispatch, PoolTypes
  <2>3. kpipe' \in [Pool!Procs -> Nat]
    BY <1>2 DEF Pool!Dispatch, PoolTypes
  <2> QED
    BY <1>2, <2>1, <2>2, <2>3 DEF PoolTypes, Pool!Dispatch, Pool!conns
<1>3. CASE Pool!Sigchld
  <2>1. kid' \in [Pool!Procs -> {"wait", "events", "zombie", "reaped"}]
    BY <1>3 DEF PoolTypes, Pool!Sigchld
  <2> QED
    BY <1>3, <2>1 DEF PoolTypes, Pool!Sigchld, Pool!conns
<1>4. CASE Pool!Sigterm
  <2>1. /\ ksigs' \in [Pool!Procs -> SUBSET {"CHLD", "TERM"}]
        /\ kready' \in [Pool!Procs -> SUBSET (Clients \union {"pipe", "sig"})]
    BY <1>4 DEF PoolTypes, Pool!Sigterm
  <2> QED
    BY <1>4, <2>1 DEF PoolTypes, Pool!Sigterm, Pool!conns, Pool!parent
<1>5. ASSUME NEW c \in Clients, Pool!Connect(c) PROVE PoolTypes'
  BY <1>5 DEF PoolTypes, Pool!Connect, Pool!children, Pool!parent
<1>6. ASSUME NEW c \in Clients, Pool!Send(c) \/ Pool!Leave(c) PROVE PoolTypes'
  <2>1. kready' \in [Pool!Procs -> SUBSET (Clients \union {"pipe", "sig"})]
    BY <1>6, ArrivalAdds DEF Pool!Send, Pool!Leave
  <2> QED
    BY <1>6, <2>1 DEF PoolTypes, Pool!Send, Pool!Leave, Pool!parent
<1>7. ASSUME NEW c \in Clients, Pool!ProgramEnds(c) PROVE PoolTypes'
  <2>1. kready' \in [Pool!Procs -> SUBSET (Clients \union {"pipe", "sig"})]
    BY <1>7, EdgeOfAdds DEF Pool!ProgramEnds, PoolTypes
  <2>2. ksigs' \in [Pool!Procs -> SUBSET {"CHLD", "TERM"}]
    BY <1>7 DEF PoolTypes, Pool!ProgramEnds
  <2>3. state' \in [Clients -> {"off", "backlog", "on", "closed", "running", "ended", "reaped"}]
    BY <1>7 DEF PoolTypes, Pool!ProgramEnds
  <2> QED
    BY <1>7, <2>1, <2>2, <2>3 DEF PoolTypes, Pool!ProgramEnds, Pool!parent
<1>8. ASSUME NEW group \in BOOLEAN, Pool!Signal(group) PROVE PoolTypes'
  <2>1. /\ ksigs' \in [Pool!Procs -> SUBSET {"CHLD", "TERM"}]
        /\ kready' \in [Pool!Procs -> SUBSET (Clients \union {"pipe", "sig"})]
    BY <1>8 DEF PoolTypes, Pool!Signal
  <2> QED
    BY <1>8, <2>1 DEF PoolTypes, Pool!Signal, Pool!conns, Pool!parent
<1>9. ASSUME NEW k \in Pool!Procs, Pool!KidWait(k) PROVE PoolTypes'
  <2>1. /\ kready' \in [Pool!Procs -> SUBSET (Clients \union {"pipe", "sig"})]
        /\ kbatch' \in [Pool!Procs -> SUBSET (Clients \union {"pipe", "sig"})]
        /\ kid' \in [Pool!Procs -> {"wait", "events", "zombie", "reaped"}]
    BY <1>9 DEF PoolTypes, Pool!KidWait
  <2> QED
    BY <1>9, <2>1 DEF PoolTypes, Pool!KidWait, Pool!conns, Pool!parent
<1>10. ASSUME NEW k \in Pool!Procs, Pool!KidAccept(k) PROVE PoolTypes'
  <2>1. /\ kbatch' \in [Pool!Procs -> SUBSET (Clients \union {"pipe", "sig"})]
        /\ kpipe' \in [Pool!Procs -> Nat]
        /\ UNCHANGED <<ksigs, sub_proc_cnt>>
    <3>1. kpipe[k] \in Nat /\ kpipe[k] > 0 /\ kpipe' = [kpipe EXCEPT ![k] = @ - 1]
      BY <1>10 DEF PoolTypes, PoolBatches, Pool!KidAccept, Pool!KidAt
    <3>2. kpipe[k] - 1 \in Nat
      BY <3>1
    <3> QED
      BY <1>10, <3>1, <3>2 DEF PoolTypes, Pool!KidAccept, Pool!KidAt, Pool!parent
  <2>2. CASE Pool!Backlog = {}
    <3>1. kid' \in [Pool!Procs -> {"wait", "events", "zombie", "reaped"}] /\ UNCHANGED <<state, owner, kready>>
      BY <1>10, <2>2 DEF PoolTypes, Pool!KidAccept
    <3> QED
      BY <2>1, <3>1 DEF PoolTypes
  <2>3. CASE Pool!Backlog # {}
    <3>1. PICK c \in Pool!Backlog :
            /\ state' = [state EXCEPT ![c] = "on"]
            /\ owner' = [owner EXCEPT ![c] = k]
            /\ Pool!EdgeOf(k, c) \/ UNCHANGED kready
            /\ UNCHANGED kid
      BY <1>10, <2>3 DEF Pool!KidAccept
    <3>2. c \in Clients
      BY DEF Pool!Backlog
    <3>3. kready' \in [Pool!Procs -> SUBSET (Clients \union {"pipe", "sig"})]
      BY <3>1, <3>2, EdgeOfAdds DEF PoolTypes
    <3> QED
      BY <2>1, <3>1, <3>2, <3>3 DEF PoolTypes
  <2> QED
    BY <2>2, <2>3
<1>11. ASSUME NEW k \in Pool!Procs, Pool!KidSignals(k) PROVE PoolTypes'
  <2>1. /\ state' \in [Clients -> {"off", "backlog", "on", "closed", "running", "ended", "reaped"}]
        /\ ksigs' \in [Pool!Procs -> SUBSET {"CHLD", "TERM"}]
    BY <1>11 DEF PoolTypes, Pool!KidSignals
  <2>2. kbatch' \in [Pool!Procs -> SUBSET (Clients \union {"pipe", "sig"})]
    BY <1>11 DEF PoolTypes, Pool!KidSignals, Pool!KidAt
  <2> QED
    BY <1>11, <2>1, <2>2 DEF PoolTypes, Pool!KidSignals, Pool!parent
<1>12. ASSUME NEW k \in Pool!Procs, Pool!KidEndOfBatch(k) PROVE PoolTypes'
  <2>1. /\ kready' \in [Pool!Procs -> SUBSET (Clients \union {"pipe", "sig"})]
        /\ kid' \in [Pool!Procs -> {"wait", "events", "zombie", "reaped"}]
    BY <1>12 DEF PoolTypes, Pool!KidEndOfBatch
  <2> QED
    BY <1>12, <2>1 DEF PoolTypes, Pool!KidEndOfBatch, Pool!conns, Pool!parent
<1>13. ASSUME NEW k \in Pool!Procs, NEW c \in Clients, Pool!Process(k, c) PROVE PoolTypes'
  <2>1. state' \in [Clients -> {"off", "backlog", "on", "closed", "running", "ended", "reaped"}]
    BY <1>13 DEF PoolTypes, Pool!Process
  <2>2. kbatch' \in [Pool!Procs -> SUBSET (Clients \union {"pipe", "sig"})]
    BY <1>13 DEF PoolTypes, Pool!Process, Pool!KidAt
  <2> QED
    BY <1>13, <2>1, <2>2 DEF PoolTypes, Pool!Process, Pool!parent
<1> QED
  BY <1>1, <1>2, <1>3, <1>4, <1>5, <1>6, <1>7, <1>8, <1>9, <1>10, <1>11, <1>12, <1>13
     DEF Pool!Next, Pool!ParentStep, Pool!ClientStep, Pool!KidStep

(* Who waits has nothing left to handle, and what a child hears of is so. *)
LEMMA PoolBatchesStep ==
    ASSUME PoolTypes, PoolBatches, Pool!Next
    PROVE  PoolBatches'
<1>0. /\ kready \in [Pool!Procs -> SUBSET (Clients \union {"pipe", "sig"})]
      /\ kbatch \in [Pool!Procs -> SUBSET (Clients \union {"pipe", "sig"})]
      /\ "pipe" \notin Clients /\ "sig" \notin Clients
  BY PoolFacts DEF PoolTypes
<1>1. CASE Pool!EpollWait \/ Pool!EndOfBatch \/ Pool!DispatchFails \/ Pool!ReadSignals \/ Pool!EndOfSignals \/ Pool!SigChld
  BY <1>1 DEF PoolBatches, Pool!EpollWait, Pool!EndOfBatch, Pool!DispatchFails, Pool!ReadSignals, Pool!At,
     Pool!EndOfSignals, Pool!SigChld, Pool!Handle, Pool!conns, Pool!children, Pool!parent, Pool!events
<1>2. CASE Pool!Dispatch
  <2>1. \A k \in Pool!Procs : kready'[k] \subseteq kready[k] \union {"pipe"}
    BY <1>2, EdgeOfAdds DEF Pool!Dispatch, PoolTypes
  <2>2. \A k \in Pool!Procs : kpipe[k] > 0 => kpipe'[k] > 0
    BY <1>2 DEF Pool!Dispatch, PoolTypes
  <2>3. pc = "events" /\ UNCHANGED <<pc, kid, kbatch, state>>
    BY <1>2 DEF Pool!Dispatch, Pool!At, Pool!conns
  <2> QED
    BY <1>0, <2>1, <2>2, <2>3 DEF PoolBatches
<1>3. CASE Pool!Sigchld
  <2>1. /\ pc = "signals" /\ UNCHANGED <<pc, kbatch, state, kready, kpipe>>
        /\ \A k \in Pool!Procs : kid'[k] = "wait" => kid[k] = "wait"
    BY <1>3 DEF Pool!Sigchld, Pool!Handle, Pool!conns
  <2> QED
    BY <2>1 DEF PoolBatches
<1>4. CASE Pool!Sigterm
  <2>1. /\ pc = "signals" /\ UNCHANGED <<pc, kbatch, state, kid, kpipe>>
        /\ \A k \in Pool!Procs : kready'[k] \subseteq kready[k] \union {"sig"}
    BY <1>4 DEF Pool!Sigterm, Pool!Handle, Pool!conns, Pool!parent
  <2> QED
    BY <1>0, <2>1 DEF PoolBatches
<1>5. ASSUME NEW c \in Clients, Pool!Connect(c) PROVE PoolBatches'
  <2>1. /\ state[c] = "off" /\ state' = [state EXCEPT ![c] = "backlog"]
        /\ UNCHANGED <<pc, kbatch, kready, kid, kpipe, batch>>
    BY <1>5 DEF Pool!Connect, Pool!parent, Pool!children
  <2>2. \A d \in Clients : state[d] \notin {"off", "backlog"} => state'[d] \notin {"off", "backlog"}
    BY <2>1 DEF PoolTypes
  <2> QED
    BY <2>1, <2>2 DEF PoolBatches
<1>6. ASSUME NEW c \in Clients, Pool!Send(c) \/ Pool!Leave(c) PROVE PoolBatches'
  <2>1. UNCHANGED <<pc, kbatch, state, kid, kpipe, batch>>
    BY <1>6 DEF Pool!Send, Pool!Leave, Pool!parent, Pool!events
  <2>2. \A k \in Pool!Procs : kready'[k] \subseteq kready[k] \union (IF state[c] = "on" THEN {c} ELSE {})
    BY <1>6, ArrivalAdds DEF Pool!Send, Pool!Leave
  <2> QED
    BY <2>1, <2>2 DEF PoolBatches
<1>7. ASSUME NEW c \in Clients, Pool!ProgramEnds(c) PROVE PoolBatches'
  <2>1. /\ state' = [state EXCEPT ![c] = "ended"]
        /\ UNCHANGED <<pc, kbatch, kid, kpipe, batch>>
    BY <1>7 DEF Pool!ProgramEnds, Pool!parent, Pool!events
  <2>2. \A k \in Pool!Procs : kready'[k] \subseteq kready[k] \union {"sig"}
    BY <1>7, EdgeOfAdds DEF Pool!ProgramEnds, PoolTypes
  <2>3. \A d \in Clients : state[d] \notin {"off", "backlog"} => state'[d] \notin {"off", "backlog"}
    BY <2>1 DEF PoolTypes
  <2> QED
    BY <1>0, <2>1, <2>2, <2>3 DEF PoolBatches
<1>8. ASSUME NEW group \in BOOLEAN, Pool!Signal(group) PROVE PoolBatches'
  <2>1. /\ UNCHANGED <<pc, kbatch, state, kid, kpipe, batch>>
        /\ \A k \in Pool!Procs : kready'[k] \subseteq kready[k] \union {"sig"}
    BY <1>8 DEF Pool!Signal, Pool!parent, Pool!conns
  <2> QED
    BY <1>0, <2>1 DEF PoolBatches
<1>9. ASSUME NEW k \in Pool!Procs, Pool!KidWait(k) PROVE PoolBatches'
  <2>1. /\ UNCHANGED <<pc, state, kpipe, batch>>
        /\ kid' = [kid EXCEPT ![k] = "events"]
        /\ kbatch' = [kbatch EXCEPT ![k] = {x \in kready[k] : Pool!KidReadable(k, x)}]
        /\ kready' = [kready EXCEPT ![k] = {}]
    BY <1>9 DEF Pool!KidWait, Pool!conns, Pool!parent, Pool!events
  <2>2. "pipe" \in kbatch'[k] => kpipe'[k] > 0
    BY <1>0, <2>1 DEF Pool!KidReadable
  <2>3. /\ kbatch'[k] \subseteq kready[k] /\ kready'[k] = {} /\ kid'[k] # "wait"
        /\ \A j \in Pool!Procs \ {k} : kbatch'[j] = kbatch[j] /\ kready'[j] = kready[j] /\ kid'[j] = kid[j]
    BY <1>0, <2>1 DEF PoolTypes
  <2> QED
    BY <2>1, <2>2, <2>3 DEF PoolBatches
<1>10. ASSUME NEW k \in Pool!Procs, Pool!KidAccept(k) PROVE PoolBatches'
  <2>1. /\ kid[k] = "events" /\ UNCHANGED <<pc, batch>>
        /\ kbatch' = [kbatch EXCEPT ![k] = @ \ {"pipe"}]
        /\ kpipe' = [kpipe EXCEPT ![k] = @ - 1]
    BY <1>10 DEF Pool!KidAccept, Pool!KidAt, Pool!parent, Pool!events
  <2>2. /\ kbatch'[k] = kbatch[k] \ {"pipe"}
        /\ \A j \in Pool!Procs \ {k} : kbatch'[j] = kbatch[j] /\ kpipe'[j] = kpipe[j]
    BY <1>0, <2>1 DEF PoolTypes
  <2>3. CASE Pool!Backlog = {}
    <3>1. kid' = [kid EXCEPT ![k] = "zombie"] /\ UNCHANGED <<state, kready>>
      BY <1>10, <2>3 DEF Pool!KidAccept
    <3>2. \A j \in Pool!Procs : kid'[j] = "wait" => kid[j] = "wait" /\ j # k
      BY <3>1 DEF PoolTypes
    <3> QED
      BY <2>1, <2>2, <3>1, <3>2 DEF PoolBatches
  <2>4. CASE Pool!Backlog # {}
    <3>1. PICK c \in Pool!Backlog :
            /\ state' = [state EXCEPT ![c] = "on"]
            /\ Pool!EdgeOf(k, c) \/ UNCHANGED kready
            /\ UNCHANGED kid
      BY <1>10, <2>4 DEF Pool!KidAccept
    <3>2. c \in Clients
      BY DEF Pool!Backlog
    <3>3. \A j \in Pool!Procs : kready'[j] \subseteq kready[j] \union {c}
      BY <3>1, <3>2, EdgeOfAdds
    <3>4. /\ state'[c] \notin {"off", "backlog"}
          /\ \A d \in Clients : state[d] \notin {"off", "backlog"} => state'[d] \notin {"off", "backlog"}
      BY <3>1, <3>2 DEF PoolTypes
    <3> QED
      BY <2>1, <2>2, <3>1, <3>3, <3>4 DEF PoolBatches
  <2> QED
    BY <2>3, <2>4
<1>11. ASSUME NEW k \in Pool!Procs, Pool!KidSignals(k) PROVE PoolBatches'
  <2>1. /\ UNCHANGED <<pc, batch, kid, kpipe, kready>>
        /\ \A j \in Pool!Procs : kbatch'[j] \subseteq kbatch[j]
        /\ \A d \in Clients : state[d] \notin {"off", "backlog"} => state'[d] \notin {"off", "backlog"}
    BY <1>0, <1>11 DEF Pool!KidSignals, Pool!KidAt, Pool!parent, Pool!events
  <2> QED
    BY <2>1 DEF PoolBatches
<1>12. ASSUME NEW k \in Pool!Procs, Pool!KidEndOfBatch(k) PROVE PoolBatches'
  <2>1. /\ UNCHANGED <<pc, batch, state, kpipe, kbatch>> /\ kbatch[k] = {}
        /\ \A j \in Pool!Procs : kready'[j] \subseteq kready[j]
        /\ \A j \in Pool!Procs \ {k} : kid'[j] = kid[j]
    BY <1>0, <1>12 DEF PoolTypes, Pool!KidEndOfBatch, Pool!conns, Pool!parent, Pool!events
  <2> QED
    BY <2>1 DEF PoolBatches
<1>13. ASSUME NEW k \in Pool!Procs, NEW c \in Clients, Pool!Process(k, c) PROVE PoolBatches'
  <2>1. /\ UNCHANGED <<pc, batch, kid, kpipe, kready>>
        /\ \A j \in Pool!Procs : kbatch'[j] \subseteq kbatch[j]
        /\ \A d \in Clients : state[d] \notin {"off", "backlog"} => state'[d] \notin {"off", "backlog"}
    <3>1. /\ UNCHANGED <<pc, batch, kid, kpipe, kready>> /\ kbatch' = [kbatch EXCEPT ![k] = @ \ {c}]
          /\ \/ state' = [state EXCEPT ![c] = "closed"]
             \/ state' = [state EXCEPT ![c] = "running"]
      BY <1>13 DEF Pool!Process, Pool!KidAt, Pool!parent, Pool!events
    <3>2. \A j \in Pool!Procs : kbatch'[j] \subseteq kbatch[j]
      BY <1>0, <3>1
    <3> QED
      BY <3>1, <3>2 DEF PoolTypes
  <2> QED
    BY <2>1 DEF PoolBatches
<1> QED
  BY <1>1, <1>2, <1>3, <1>4, <1>5, <1>6, <1>7, <1>8, <1>9, <1>10, <1>11, <1>12, <1>13
     DEF Pool!Next, Pool!ParentStep, Pool!ClientStep, Pool!KidStep

-----------------------------------------------------------------------------
(* The ints in the pipes, one by one. *)
LEMMA IntsMember ==
    ASSUME NEW x
    PROVE  x \in Pool!Ints <=> \E k \in Pool!Procs : \E i \in 1 .. kpipe[k] : x = <<k, i>>
BY DEF Pool!Ints

(* An int that is written, and one that is read. *)
LEMMA IntsGrow ==
    ASSUME PoolTypes, IsFiniteSet(Pool!Ints), NEW k \in Pool!Procs, kpipe' = [kpipe EXCEPT ![k] = @ + 1]
    PROVE  IsFiniteSet(Pool!Ints') /\ Cardinality(Pool!Ints') = Cardinality(Pool!Ints) + 1
<1>1. kpipe \in [Pool!Procs -> Nat] /\ kpipe[k] \in Nat
  BY DEF PoolTypes
<1>2. kpipe'[k] = kpipe[k] + 1 /\ \A j \in Pool!Procs \ {k} : kpipe'[j] = kpipe[j]
  BY <1>1
<1> DEFINE n == <<k, kpipe[k] + 1>>
<1>3. Pool!Ints' = Pool!Ints \union {n}
  <2>1. \A x : x \in Pool!Ints' <=> \E j \in Pool!Procs : \E i \in 1 .. kpipe'[j] : x = <<j, i>>
    BY DEF Pool!Ints, Pool!Procs
  <2>2. \A j \in Pool!Procs : j # k => \A i : i \in 1 .. kpipe'[j] <=> i \in 1 .. kpipe[j]
    BY <1>2
  <2>3. \A i : i \in 1 .. kpipe'[k] <=> i \in 1 .. kpipe[k] \/ i = kpipe[k] + 1
    BY <1>1, <1>2
  <2>4. \A x : x \in Pool!Ints' <=> x \in Pool!Ints \/ x = n
    BY <2>1, <2>2, <2>3, IntsMember
  <2> HIDE DEF n
  <2> QED
    BY <2>4
<1>4. n \notin Pool!Ints
  <2> SUFFICES ASSUME n \in Pool!Ints PROVE FALSE
    OBVIOUS
  <2>1. PICK j \in Pool!Procs : \E i \in 1 .. kpipe[j] : n = <<j, i>>
    BY IntsMember
  <2> QED
    BY <1>1, <2>1
<1> QED
  BY <1>3, <1>4, FS_AddElement

(* A child reads an index: one message less is under way. *)
LEMMA IntsShrink ==
    ASSUME PoolTypes, IsFiniteSet(Pool!Ints), NEW k \in Pool!Procs, kpipe[k] > 0,
           kpipe' = [kpipe EXCEPT ![k] = @ - 1]
    PROVE  /\ IsFiniteSet(Pool!Ints') /\ Cardinality(Pool!Ints') = Cardinality(Pool!Ints) - 1
           /\ Cardinality(Pool!Ints) > 0
<1>1. kpipe \in [Pool!Procs -> Nat] /\ kpipe[k] \in Nat
  BY DEF PoolTypes
<1>2. kpipe'[k] = kpipe[k] - 1 /\ \A j \in Pool!Procs \ {k} : kpipe'[j] = kpipe[j]
  BY <1>1
<1> DEFINE n == <<k, kpipe[k]>>
<1>3. Pool!Ints' = Pool!Ints \ {n}
  <2>1. \A x : x \in Pool!Ints' <=> \E j \in Pool!Procs : \E i \in 1 .. kpipe'[j] : x = <<j, i>>
    BY DEF Pool!Ints, Pool!Procs
  <2>2. \A j \in Pool!Procs : j # k => \A i : i \in 1 .. kpipe'[j] <=> i \in 1 .. kpipe[j]
    BY <1>2
  <2>3. \A i : i \in 1 .. kpipe'[k] <=> i \in 1 .. kpipe[k] /\ i # kpipe[k]
    BY <1>1, <1>2
  <2>4. \A x : x \in Pool!Ints' <=> x \in Pool!Ints /\ x # n
    BY <2>1, <2>2, <2>3, IntsMember
  <2> HIDE DEF n
  <2> QED
    BY <2>4
<1>4. n \in Pool!Ints
  <2>1. kpipe[k] \in 1 .. kpipe[k]
    BY <1>1
  <2> QED
    BY <2>1, IntsMember
<1>5. Cardinality(Pool!Ints) \in Nat /\ Cardinality(Pool!Ints) # 0
  BY <1>4, FS_CardinalityType, FS_EmptySet
<1>6. /\ IsFiniteSet(Pool!Ints \ {n})
      /\ Cardinality(Pool!Ints \ {n}) = IF n \in Pool!Ints THEN Cardinality(Pool!Ints) - 1 ELSE Cardinality(Pool!Ints)
  BY FS_RemoveElement
<1> HIDE DEF n
<1> QED
  BY <1>3, <1>4, <1>5, <1>6

(* As long as the pipes are as they were, so are the messages under way. *)
LEMMA IntsStay ==
    ASSUME kpipe' = kpipe
    PROVE  Pool!Ints' = Pool!Ints
BY DEF Pool!Ints, Pool!Procs

(* The connections that wait to be accepted. *)
LEMMA BacklogFinite ==
    IsFiniteSet(Pool!Backlog) /\ Cardinality(Pool!Backlog) \in Nat
<1>1. IsFiniteSet(Pool!Backlog)
  BY PoolFacts, FS_Subset DEF Pool!Backlog
<1> QED
  BY <1>1, FS_CardinalityType

(* A client connects: the backlog is longer by one. *)
LEMMA BacklogGrows ==
    ASSUME PoolTypes, NEW c \in Clients, state[c] = "off", state' = [state EXCEPT ![c] = "backlog"]
    PROVE  Cardinality(Pool!Backlog') = Cardinality(Pool!Backlog) + 1
<1>1. Pool!Backlog' = Pool!Backlog \union {c} /\ c \notin Pool!Backlog
  BY DEF PoolTypes, Pool!Backlog
<1> QED
  BY <1>1, BacklogFinite, FS_AddElement

(* A connection is accepted: the backlog is shorter by one. *)
LEMMA BacklogShrinks ==
    ASSUME PoolTypes, NEW c \in Pool!Backlog, state' = [state EXCEPT ![c] = "on"]
    PROVE  Cardinality(Pool!Backlog') = Cardinality(Pool!Backlog) - 1
<1>1. Pool!Backlog' = Pool!Backlog \ {c}
  BY DEF PoolTypes, Pool!Backlog
<1> QED
  BY <1>1, BacklogFinite, FS_RemoveElement

(* It stays as long as no client enters or leaves it. *)
LEMMA BacklogStays ==
    ASSUME \A c \in Clients : state'[c] = "backlog" <=> state[c] = "backlog"
    PROVE  Pool!Backlog' = Pool!Backlog
BY DEF Pool!Backlog

(* What changes nothing of this keeps every int announced. *)
LEMMA AnnouncedStays ==
    ASSUME Announced, kpipe' = kpipe, Pool!Backlog' = Pool!Backlog,
           "listen" \in batch' => "listen" \in batch, "listen" \in ready' => "listen" \in ready
    PROVE  Announced'
<1>1. Pool!Ints' = Pool!Ints
  BY IntsStay
<1>2. Cardinality(Pool!Ints) \in Nat /\ Cardinality(Pool!Backlog) \in Nat
  BY BacklogFinite, FS_CardinalityType DEF Announced
<1> QED
  BY <1>1, <1>2 DEF Announced

(* An int in a pipe and an event that will put one there stand for a       *)
(* connection that waits: no step spends one connection for two of them.   *)
LEMMA AnnouncedStep ==
    ASSUME PoolTypes, PoolBatches, Announced, Pool!Next
    PROVE  Announced'
<1>0. /\ Cardinality(Pool!Ints) \in Nat /\ Cardinality(Pool!Backlog) \in Nat /\ IsFiniteSet(Pool!Ints)
      /\ Cardinality(Pool!Ints) + (IF "listen" \in batch THEN 1 ELSE 0)
                                + (IF "listen" \in ready THEN 1 ELSE 0) <= Cardinality(Pool!Backlog)
  BY BacklogFinite, FS_CardinalityType DEF Announced
<1>1. CASE Pool!EpollWait
  <2>1. /\ pc = "wait" /\ batch = {} /\ batch' \subseteq ready /\ ready' = {}
        /\ UNCHANGED <<kpipe, state>>
    BY <1>1 DEF Pool!EpollWait, PoolBatches, Pool!conns, Pool!children
  <2>2. Pool!Ints' = Pool!Ints /\ Pool!Backlog' = Pool!Backlog
    BY <2>1, IntsStay, BacklogStays
  <2> QED
    BY <1>0, <2>1, <2>2 DEF Announced
<1>2. CASE Pool!EndOfBatch \/ Pool!DispatchFails \/ Pool!ReadSignals \/ Pool!EndOfSignals \/ Pool!Sigchld \/ Pool!Sigterm
  <2>1. UNCHANGED <<kpipe, state, ready>> /\ batch' \subseteq batch
    BY <1>2 DEF Pool!EndOfBatch, Pool!DispatchFails, Pool!ReadSignals, Pool!EndOfSignals, Pool!Sigchld,
       Pool!Sigterm, Pool!At, Pool!conns, Pool!children, Pool!events
  <2> QED
    BY <2>1, BacklogStays, AnnouncedStays
<1>3. CASE Pool!Dispatch
  <2>1. /\ "listen" \in batch /\ "listen" \notin batch' /\ UNCHANGED <<state, ready>>
        /\ sub_proc_cnt \in Pool!Procs /\ kpipe' = [kpipe EXCEPT ![sub_proc_cnt] = @ + 1]
    BY <1>3 DEF Pool!Dispatch, Pool!At, Pool!conns, PoolTypes
  <2>2. IsFiniteSet(Pool!Ints') /\ Cardinality(Pool!Ints') = Cardinality(Pool!Ints) + 1
    BY <1>0, <2>1, IntsGrow
  <2>3. Pool!Backlog' = Pool!Backlog
    BY <2>1, BacklogStays
  <2> QED
    BY <1>0, <2>1, <2>2, <2>3 DEF Announced
<1>4. CASE Pool!SigChld \/ \E group \in BOOLEAN : Pool!Signal(group)
  <2>1. UNCHANGED <<kpipe, state, batch>> /\ ready' = ready \union {"sig"}
    BY <1>4 DEF Pool!SigChld, Pool!Signal, Pool!Edge, Pool!conns, Pool!children
  <2> QED
    BY <2>1, BacklogStays, AnnouncedStays
<1>5. ASSUME NEW c \in Clients, Pool!Connect(c) PROVE Announced'
  <2>1. /\ state[c] = "off" /\ state' = [state EXCEPT ![c] = "backlog"]
        /\ UNCHANGED <<kpipe, batch>>
    BY <1>5 DEF Pool!Connect, Pool!children
  <2>2. Cardinality(Pool!Backlog') = Cardinality(Pool!Backlog) + 1
    BY <2>1, BacklogGrows
  <2>3. Pool!Ints' = Pool!Ints
    BY <2>1, IntsStay
  <2> QED
    BY <1>0, <2>1, <2>2, <2>3 DEF Announced
<1>6. ASSUME NEW c \in Clients, Pool!Send(c) \/ Pool!Leave(c) \/ Pool!ProgramEnds(c) PROVE Announced'
  <2>1. /\ UNCHANGED <<kpipe, batch, ready>>
        /\ \A d \in Clients : state'[d] = "backlog" <=> state[d] = "backlog"
    BY <1>6 DEF Pool!Send, Pool!Leave, Pool!ProgramEnds, Pool!events, PoolTypes
  <2> QED
    BY <2>1, BacklogStays, AnnouncedStays
<1>7. ASSUME NEW k \in Pool!Procs, Pool!KidWait(k) \/ Pool!KidSignals(k) \/ Pool!KidEndOfBatch(k) PROVE Announced'
  <2>1. /\ UNCHANGED <<kpipe, batch, ready>>
        /\ \A d \in Clients : state'[d] = "backlog" <=> state[d] = "backlog"
    BY <1>7 DEF Pool!KidWait, Pool!KidSignals, Pool!KidEndOfBatch, Pool!events, Pool!conns, PoolTypes
  <2> QED
    BY <2>1, BacklogStays, AnnouncedStays
<1>8. ASSUME NEW k \in Pool!Procs, NEW c \in Clients, Pool!Process(k, c) PROVE Announced'
  <2>1. UNCHANGED <<kpipe, batch, ready>> /\ state[c] \notin {"off", "backlog"}
    BY <1>8 DEF Pool!Process, Pool!KidAt, Pool!events, PoolBatches
  <2>2. \A d \in Clients : state'[d] = "backlog" <=> state[d] = "backlog"
    BY <1>8, <2>1 DEF Pool!Process, PoolTypes
  <2> QED
    BY <2>1, <2>2, BacklogStays, AnnouncedStays
<1>9. ASSUME NEW k \in Pool!Procs, Pool!KidAccept(k) PROVE Announced'
  <2>1. kpipe[k] > 0 /\ kpipe' = [kpipe EXCEPT ![k] = @ - 1] /\ UNCHANGED <<batch, ready>>
    BY <1>9 DEF Pool!KidAccept, Pool!KidAt, Pool!events, PoolBatches
  <2>2. /\ IsFiniteSet(Pool!Ints') /\ Cardinality(Pool!Ints') = Cardinality(Pool!Ints) - 1
        /\ Cardinality(Pool!Ints) > 0
    BY <1>0, <2>1, IntsShrink
  <2>3. Cardinality(Pool!Backlog) # 0
    BY <1>0, <2>2
  <2>4. Pool!Backlog # {}
    BY <2>3, FS_EmptySet
  <2>5. PICK c \in Pool!Backlog : state' = [state EXCEPT ![c] = "on"]
    BY <1>9, <2>4 DEF Pool!KidAccept
  <2>6. Cardinality(Pool!Backlog') = Cardinality(Pool!Backlog) - 1
    BY <2>5, BacklogShrinks
  <2> QED
    BY <1>0, <2>1, <2>2, <2>6 DEF Announced
<1> QED
  BY <1>1, <1>2, <1>3, <1>4, <1>5, <1>6, <1>7, <1>8, <1>9
     DEF Pool!Next, Pool!ParentStep, Pool!ClientStep, Pool!KidStep

(* A child with a program that ended has the signal, and its event is to   *)
(* come or in its batch, until it waits for the program.                   *)
LEMMA NoticedStep ==
    ASSUME PoolTypes, PoolBatches, Pool!ProgramIsNoticed, Pool!Next
    PROVE  Pool!ProgramIsNoticed'
<1> DEFINE Knows(k) == "CHLD" \in ksigs[k] /\ ("sig" \in kready[k] \/ "sig" \in kbatch[k])
<1>0. \A c \in Clients : state[c] = "ended" /\ owner[c] \in Pool!Living => Knows(owner[c])
  BY DEF Pool!ProgramIsNoticed
<1> SUFFICES ASSUME NEW c \in Clients, state'[c] = "ended", owner'[c] \in Pool!Living'
             PROVE  /\ "CHLD" \in ksigs'[owner'[c]]
                    /\ "sig" \in kready'[owner'[c]] \/ "sig" \in kbatch'[owner'[c]]
  BY DEF Pool!ProgramIsNoticed
<1> DEFINE KnowsNow == /\ "CHLD" \in ksigs'[owner'[c]]
                       /\ "sig" \in kready'[owner'[c]] \/ "sig" \in kbatch'[owner'[c]]
<1>a. owner[c] \in Pool!Procs
  BY DEF PoolTypes
<1>1. ASSUME state[c] = "ended", owner' = owner, \A k \in Pool!Procs : k \in Pool!Living' => k \in Pool!Living,
             \A k \in Pool!Procs : ksigs[k] \subseteq ksigs'[k] /\ kready[k] \subseteq kready'[k] /\ kbatch[k] = kbatch'[k]
      PROVE  KnowsNow
  BY <1>0, <1>a, <1>1
<1>2. CASE Pool!EpollWait \/ Pool!EndOfBatch \/ Pool!DispatchFails \/ Pool!ReadSignals \/ Pool!EndOfSignals \/ Pool!SigChld
  <2>1. UNCHANGED <<state, owner, kid, ksigs, kready, kbatch>>
    BY <1>2 DEF Pool!EpollWait, Pool!EndOfBatch, Pool!DispatchFails, Pool!ReadSignals, Pool!EndOfSignals,
       Pool!SigChld, Pool!conns, Pool!children
  <2> QED
    BY <1>0, <2>1 DEF Pool!Living
<1>3. CASE Pool!Dispatch
  <2>1. UNCHANGED <<state, owner, kid, ksigs, kbatch>>
    BY <1>3 DEF Pool!Dispatch, Pool!conns
  <2>2. \A k \in Pool!Procs : kready[k] \subseteq kready'[k]
    BY <1>3, EdgeOfAdds DEF Pool!Dispatch, PoolTypes
  <2> QED
    BY <1>1, <2>1, <2>2 DEF Pool!Living
<1>4. CASE Pool!Sigchld
  <2>1. UNCHANGED <<state, owner, ksigs, kready, kbatch>> /\ \A k \in Pool!Procs : kid'[k] \in {kid[k], "reaped"}
    BY <1>4 DEF Pool!Sigchld, Pool!conns
  <2> QED
    BY <1>1, <2>1 DEF Pool!Living
<1>5. CASE Pool!Sigterm \/ \E group \in BOOLEAN : Pool!Signal(group)
  <2>1. UNCHANGED <<state, owner, kid, kbatch>>
    BY <1>5 DEF Pool!Sigterm, Pool!Signal, Pool!conns
  <2>2. \A k \in Pool!Procs : ksigs[k] \subseteq ksigs'[k] /\ kready[k] \subseteq kready'[k]
    BY <1>5 DEF Pool!Sigterm, Pool!Signal
  <2> QED
    BY <1>1, <2>1, <2>2 DEF Pool!Living
<1>6. ASSUME NEW d \in Clients, Pool!Connect(d) PROVE KnowsNow
  <2>1. UNCHANGED <<owner, kid, ksigs, kready, kbatch>> /\ state' = [state EXCEPT ![d] = "backlog"]
    BY <1>6 DEF Pool!Connect, Pool!children
  <2>2. state[c] = "ended"
    BY <2>1 DEF PoolTypes
  <2> QED
    BY <1>0, <2>1, <2>2 DEF Pool!Living
<1>7. ASSUME NEW d \in Clients, Pool!Send(d) \/ Pool!Leave(d) PROVE KnowsNow
  <2>1. UNCHANGED <<state, owner, kid, ksigs, kbatch>>
    BY <1>7 DEF Pool!Send, Pool!Leave
  <2>2. \A k \in Pool!Procs : kready[k] \subseteq kready'[k]
    BY <1>7, ArrivalAdds DEF Pool!Send, Pool!Leave
  <2> QED
    BY <1>1, <2>1, <2>2 DEF Pool!Living
<1>8. ASSUME NEW d \in Clients, Pool!ProgramEnds(d) PROVE KnowsNow
  <2>1. /\ UNCHANGED <<owner, kid, kbatch>> /\ state' = [state EXCEPT ![d] = "ended"]
        /\ ksigs' = [ksigs EXCEPT ![owner[d]] = @ \union {"CHLD"}] /\ owner[d] \in Pool!Procs
    BY <1>8 DEF Pool!ProgramEnds, PoolTypes
  <2>2. /\ \A k \in Pool!Procs : kready[k] \subseteq kready'[k]
        /\ owner[d] \in Pool!Living => "sig" \in kready'[owner[d]]
    BY <1>8, <2>1, EdgeOfAdds DEF Pool!ProgramEnds
  <2>3. (\A k \in Pool!Procs : ksigs[k] \subseteq ksigs'[k]) /\ "CHLD" \in ksigs'[owner[d]]
    BY <2>1 DEF PoolTypes
  <2>4. CASE c = d
    BY <2>1, <2>2, <2>3, <2>4 DEF Pool!Living
  <2>5. CASE c # d
    <3>1. state[c] = "ended"
      BY <2>1, <2>5 DEF PoolTypes
    <3> QED
      BY <1>1, <2>1, <2>2, <2>3, <3>1 DEF Pool!Living
  <2> QED
    BY <2>4, <2>5
<1>9. ASSUME NEW k \in Pool!Procs, Pool!KidWait(k) PROVE KnowsNow
  <2>1. /\ UNCHANGED <<state, owner, ksigs>> /\ kid[k] = "wait" /\ kid' = [kid EXCEPT ![k] = "events"]
        /\ kbatch' = [kbatch EXCEPT ![k] = {x \in kready[k] : Pool!KidReadable(k, x)}]
        /\ kready' = [kready EXCEPT ![k] = {}]
    BY <1>9 DEF Pool!KidWait, Pool!conns
  <2>2. kbatch[k] = {}
    BY <2>1 DEF PoolBatches
  <2>3. owner[c] \in Pool!Living
    BY <1>a, <2>1 DEF PoolTypes, Pool!Living
  <2>4. Knows(owner[c])
    BY <1>0, <2>1, <2>3
  <2>5. CASE owner[c] = k
    <3>1. "sig" \in kready[k] /\ Pool!KidReadable(k, "sig")
      BY <2>2, <2>4, <2>5 DEF Pool!KidReadable
    <3> QED
      BY <2>1, <2>4, <2>5, <3>1 DEF PoolTypes
  <2>6. CASE owner[c] # k
    BY <1>a, <2>1, <2>4, <2>6 DEF PoolTypes
  <2> QED
    BY <2>5, <2>6
<1>10. ASSUME NEW k \in Pool!Procs, Pool!KidAccept(k) PROVE KnowsNow
  <2>1. ksigs' = ksigs /\ \A j \in Pool!Procs : "sig" \in kbatch[j] => "sig" \in kbatch'[j]
    BY <1>10 DEF Pool!KidAccept, Pool!KidAt, PoolTypes
  <2>2. CASE Pool!Backlog = {}
    <3>1. kid' = [kid EXCEPT ![k] = "zombie"] /\ UNCHANGED <<state, owner, kready>>
      BY <1>10, <2>2 DEF Pool!KidAccept
    <3>2. owner[c] \in Pool!Living
      BY <1>a, <3>1 DEF PoolTypes, Pool!Living
    <3> QED
      BY <1>0, <1>a, <2>1, <3>1, <3>2
  <2>3. CASE Pool!Backlog # {}
    <3>1. PICK d \in Pool!Backlog :
            /\ state' = [state EXCEPT ![d] = "on"] /\ owner' = [owner EXCEPT ![d] = k]
            /\ Pool!EdgeOf(k, d) \/ UNCHANGED kready
            /\ UNCHANGED kid
      BY <1>10, <2>3 DEF Pool!KidAccept
    <3>2. d \in Clients
      BY DEF Pool!Backlog
    <3>3. c # d /\ state[c] = "ended" /\ owner'[c] = owner[c]
      BY <3>1, <3>2 DEF PoolTypes
    <3>4. \A j \in Pool!Procs : kready[j] \subseteq kready'[j]
      BY <3>1, <3>2, EdgeOfAdds
    <3> QED
      BY <1>0, <1>a, <2>1, <3>1, <3>3, <3>4 DEF Pool!Living
  <2> QED
    BY <2>2, <2>3
<1>11. ASSUME NEW k \in Pool!Procs, Pool!KidSignals(k) PROVE KnowsNow
  <2>1. /\ UNCHANGED <<owner, kid, kready>> /\ kbatch' = [kbatch EXCEPT ![k] = @ \ {"sig"}]
        /\ ksigs' = [ksigs EXCEPT ![k] = {}]
        /\ state'[c] = IF "CHLD" \in ksigs[k] /\ state[c] = "ended" /\ owner[c] = k THEN "reaped" ELSE state[c]
    BY <1>11 DEF Pool!KidSignals, Pool!KidAt
  <2>2. state[c] = "ended" /\ owner[c] \in Pool!Living
    BY <2>1 DEF Pool!Living
  <2>3. owner[c] # k
    BY <1>0, <2>1, <2>2
  <2> QED
    BY <1>0, <1>a, <2>1, <2>2, <2>3 DEF PoolTypes
<1>12. ASSUME NEW k \in Pool!Procs, Pool!KidEndOfBatch(k) PROVE KnowsNow
  <2>1. /\ UNCHANGED <<state, owner, ksigs, kbatch>> /\ kid[k] = "events"
        /\ kid' = [kid EXCEPT ![k] = IF kstop[k] THEN "zombie" ELSE "wait"]
        /\ kready' = IF kstop[k] THEN [kready EXCEPT ![k] = {}] ELSE kready
    BY <1>12 DEF Pool!KidEndOfBatch, Pool!conns
  <2>2. owner[c] \in Pool!Living
    BY <1>a, <2>1 DEF PoolTypes, Pool!Living
  <2>3. owner[c] = k => ~kstop[k]
    BY <1>a, <2>1 DEF PoolTypes, Pool!Living
  <2>4. kready'[owner[c]] = kready[owner[c]]
    BY <1>a, <2>1, <2>3 DEF PoolTypes
  <2> QED
    BY <1>0, <2>1, <2>2, <2>4
<1>13. ASSUME NEW k \in Pool!Procs, NEW d \in Clients, Pool!Process(k, d) PROVE KnowsNow
  <2>1. /\ UNCHANGED <<owner, kid, ksigs, kready>> /\ kbatch' = [kbatch EXCEPT ![k] = @ \ {d}]
        /\ (state' = [state EXCEPT ![d] = "closed"]) \/ (state' = [state EXCEPT ![d] = "running"])
    BY <1>13 DEF Pool!Process, Pool!KidAt
  <2>2. state[c] = "ended"
    BY <2>1 DEF PoolTypes
  <2>3. "sig" \in kbatch[owner[c]] => "sig" \in kbatch'[owner[c]]
    BY <1>a, <2>1, PoolFacts DEF PoolTypes
  <2> QED
    BY <1>0, <2>1, <2>2, <2>3 DEF Pool!Living
<1> QED
  BY <1>2, <1>3, <1>4, <1>5, <1>6, <1>7, <1>8, <1>9, <1>10, <1>11, <1>12, <1>13
     DEF Pool!Next, Pool!ParentStep, Pool!ClientStep, Pool!KidStep

-----------------------------------------------------------------------------
(* What a sequence of signals holds. *)
LEMMA SignalMembers ==
    ASSUME NEW S, NEW s \in Seq(S), NEW x \in S
    PROVE  /\ \A y : y \in Chat!Members(Append(s, x)) <=> y \in Chat!Members(s) \/ y = x
           /\ s # <<>> => \A y : y \in Chat!Members(s) => y = Head(s) \/ y \in Chat!Members(Tail(s))
           /\ s = <<>> => Chat!Members(s) = {}
<1>1. Len(s) \in Nat /\ DOMAIN s = 1 .. Len(s)
  BY LenProperties
<1>2. /\ Append(s, x) \in Seq(S) /\ Len(Append(s, x)) = Len(s) + 1
      /\ \A i \in 1 .. Len(s) : Append(s, x)[i] = s[i]
      /\ Append(s, x)[Len(s) + 1] = x
  BY AppendProperties
<1>3. DOMAIN Append(s, x) = 1 .. Len(s) + 1
  BY <1>2, LenProperties
<1>4. \A y : y \in Chat!Members(Append(s, x)) <=> y \in Chat!Members(s) \/ y = x
  <2>1. \A i : i \in 1 .. Len(s) + 1 <=> i \in 1 .. Len(s) \/ i = Len(s) + 1
    BY <1>1
  <2> QED
    BY <1>1, <1>2, <1>3, <2>1 DEF Chat!Members
<1>5. ASSUME s # <<>>, NEW y \in Chat!Members(s) PROVE y = Head(s) \/ y \in Chat!Members(Tail(s))
  <2>1. PICK i \in 1 .. Len(s) : y = s[i]
    BY <1>1, <1>5 DEF Chat!Members
  <2>2. /\ Tail(s) \in Seq(S) /\ Len(Tail(s)) = Len(s) - 1
        /\ \A j \in 1 .. Len(Tail(s)) : Tail(s)[j] = s[j + 1]
    BY <1>5, HeadTailProperties
  <2>3. DOMAIN Tail(s) = 1 .. Len(Tail(s))
    BY <2>2, LenProperties
  <2>4. CASE i = 1
    BY <2>1, <2>4
  <2>5. CASE i # 1
    <3>1. i - 1 \in 1 .. Len(Tail(s)) /\ Tail(s)[i - 1] = s[i]
      BY <1>1, <2>1, <2>2, <2>5
    <3> QED
      BY <2>1, <2>3, <3>1 DEF Chat!Members
  <2> QED
    BY <2>4, <2>5
<1>6. s = <<>> => Chat!Members(s) = {}
  BY <1>1 DEF Chat!Members
<1> QED
  BY <1>4, <1>5, <1>6

(* Whatever a child does, it is a child until the parent waits for it, and *)
(* when it ends, the parent is sent a signal.                              *)
LEMMA ChatKidStep ==
    ASSUME ChatTypes, NEW c \in Users, Chat!KidStep(c)
    PROVE  /\ UNCHANGED <<users, sub, sigs, todo, batch, pc>>
           /\ ready \subseteq ready'
           /\ kid' \in [Users -> {"none", "test", "enter", "wait", "events", "zombie", "reaped"}]
           /\ Chat!Unreaped' = Chat!Unreaped
           /\ raised => raised'
           /\ \A k \in Users : kid'[k] = "zombie" => kid[k] = "zombie" \/ raised'
<1> DEFINE goal ==
           /\ UNCHANGED <<users, sub, sigs, todo, batch, pc>>
           /\ ready \subseteq ready'
           /\ kid' \in [Users -> {"none", "test", "enter", "wait", "events", "zombie", "reaped"}]
           /\ Chat!Unreaped' = Chat!Unreaped
           /\ raised => raised'
           /\ \A k \in Users : kid'[k] = "zombie" => kid[k] = "zombie" \/ raised'
<1> SUFFICES goal
  OBVIOUS
<1>0. kid \in [Users -> {"none", "test", "enter", "wait", "events", "zombie", "reaped"}]
  BY DEF ChatTypes
<1>a. ASSUME UNCHANGED <<users, sub, sigs, todo, batch, pc, raised, kid>>, ready \subseteq ready' PROVE goal
  BY <1>0, <1>a DEF Chat!Unreaped, Chat!Living
<1>b. ASSUME UNCHANGED <<users, sub, sigs, todo, batch, pc, raised, ready>>,
             NEW x \in {"test", "enter", "wait", "events"}, NEW y \in {"test", "enter", "wait", "events"},
             Chat!Move(c, x, y)
      PROVE  goal
  <2>1. kid[c] = x /\ kid' = [kid EXCEPT ![c] = y]
    BY <1>b DEF Chat!Move
  <2>2. Chat!Unreaped' = Chat!Unreaped
    BY <1>0, <2>1 DEF Chat!Unreaped, Chat!Living
  <2>3. kid' \in [Users -> {"none", "test", "enter", "wait", "events", "zombie", "reaped"}]
    BY <1>0, <2>1
  <2>4. \A k \in Users : kid'[k] = "zombie" => kid[k] = "zombie"
    BY <1>0, <2>1
  <2> QED
    BY <1>b, <2>2, <2>3, <2>4
<1>c. ASSUME UNCHANGED <<users, sub, sigs, todo, batch, pc>>,
             NEW x \in {"test", "enter", "wait", "events"}, Chat!Exit(c, x)
      PROVE  goal
  <2>1. kid[c] = x /\ kid' = [kid EXCEPT ![c] = "zombie"] /\ raised' /\ ready \subseteq ready'
    BY <1>c DEF Chat!Move, Chat!Exit, Chat!Edge
  <2>2. Chat!Unreaped' = Chat!Unreaped
    BY <1>0, <2>1 DEF Chat!Unreaped, Chat!Living
  <2>3. kid' \in [Users -> {"none", "test", "enter", "wait", "events", "zombie", "reaped"}]
    BY <1>0, <2>1
  <2> QED
    BY <1>c, <2>1, <2>2, <2>3
<1> HIDE DEF goal
<1>1. CASE Chat!KidTest(c)
  <2>1. CASE stop[c]
    BY <1>1, <1>c, <2>1 DEF Chat!KidTest, Chat!table
  <2>2. CASE ~stop[c]
    BY <1>1, <1>b, <2>2 DEF Chat!KidTest, Chat!table
  <2> QED
    BY <2>1, <2>2
<1>2. CASE Chat!KidEnter(c)
  BY <1>2, <1>b DEF Chat!KidEnter, Chat!table, Chat!signals, Chat!events
<1>3. CASE Chat!KidWait(c)
  BY <1>3, <1>b DEF Chat!KidWait, Chat!table, Chat!signals, Chat!events
<1>4. CASE Chat!KidReads(c)
  BY <1>4, <1>a DEF Chat!KidReads, Chat!Edge, Chat!table, Chat!signals
<1>5. CASE Chat!KidFindsEnd(c) \/ Chat!KidFindsNothing(c)
  BY <1>5, <1>a DEF Chat!KidFindsEnd, Chat!KidFindsNothing, Chat!table, Chat!signals, Chat!events
<1>6. CASE Chat!KidForwards(c)
  <2>1. UNCHANGED <<users, sub, sigs, todo, batch, pc>>
    BY <1>6 DEF Chat!KidForwards, Chat!table
  <2>2. UNCHANGED <<kid, raised, ready>> \/ Chat!Exit(c, "events")
    BY <1>6 DEF Chat!KidForwards
  <2> QED
    BY <1>a, <1>c, <2>1, <2>2
<1>7. CASE Chat!KidEndOfBatch(c)
  BY <1>7, <1>b DEF Chat!KidEndOfBatch, Chat!table, Chat!signals, Chat!events
<1> QED
  BY <1>1, <1>2, <1>3, <1>4, <1>5, <1>6, <1>7 DEF Chat!KidStep

(* Of the other steps only accept(), waitpid() and SIGTERM concern the     *)
(* table and where the children are.                                       *)
ChatQuiet ==
    \/ Chat!SigTerm \/ Chat!SigChld \/ Chat!EpollWait \/ Chat!EndOfBatch \/ Chat!ReadSignals
    \/ Chat!NoMoreZombies \/ Chat!NoMoreSignals
    \/ \E c \in Users : \/ Chat!Connect(c) \/ Chat!Send(c) \/ Chat!Quit(c) \/ Chat!Refuse(c)
                        \/ Chat!PipeClosed(c) \/ Chat!PipeEmpty(c) \/ Chat!Broadcast(c)

(* A quiet step leaves the records of the connections alone. *)
LEMMA QuietStep ==
    ASSUME ChatQuiet
    PROVE  UNCHANGED <<users, sub, kid>>
BY DEF ChatQuiet, Chat!SigTerm, Chat!SigChld, Chat!EpollWait, Chat!EndOfBatch, Chat!ReadSignals,
   Chat!NoMoreZombies, Chat!NoMoreSignals, Chat!Connect, Chat!Send, Chat!Quit, Chat!Refuse, Chat!PipeClosed,
   Chat!PipeEmpty, Chat!Broadcast, Chat!table, Chat!children

(* The steps of the chat room, sorted. *)
LEMMA ChatSteps ==
    ASSUME Chat!Next
    PROVE  \/ ChatQuiet
           \/ Chat!Terminate
           \/ \E c \in Users : Chat!KidStep(c) \/ Chat!Accept(c) \/ Chat!Reap(c)
BY DEF Chat!Next, ChatQuiet

(* What is assumed of the chat room. *)
LEMMA ChatFacts ==
    Limit \in Nat \ {0} /\ "listen" \notin Users /\ "sig" \notin Users
BY ProcessesAssumption DEF Chat!ShmAssumption

(* A sequence with one element replaced. *)
LEMMA ReplaceInSeq ==
    ASSUME NEW S, NEW s \in Seq(S), NEW j \in DOMAIN s, NEW x \in S
    PROVE  [s EXCEPT ![j] = x] \in Seq(S) /\ Len([s EXCEPT ![j] = x]) = Len(s)
BY ExceptSeq

(* accept() adds a record and a child, at the end of the table. *)
LEMMA AcceptStep ==
    ASSUME ChatTypes, ChatRecords, NEW c \in Users, Chat!Accept(c)
    PROVE  /\ users' \in Seq(Users) /\ sub' \in [Users -> Int]
           /\ kid' \in [Users -> {"none", "test", "enter", "wait", "events", "zombie", "reaped"}]
           /\ ChatRecords'
<1> DEFINE n == Len(users)
<1>1. /\ kid[c] = "none" /\ kid' = [kid EXCEPT ![c] = "test"]
      /\ users' = Append(users, c) /\ sub' = [sub EXCEPT ![c] = n]
  BY DEF Chat!Accept, Chat!Move, Chat!None
<1>2. n \in Nat /\ DOMAIN users = 1 .. n
  BY LenProperties DEF ChatTypes
<1>3. /\ users' \in Seq(Users) /\ Len(users') = n + 1
      /\ \A i \in 1 .. n : users'[i] = users[i]
      /\ users'[n + 1] = c
  BY <1>1, AppendProperties DEF ChatTypes
<1>4. DOMAIN users' = 1 .. n + 1
  BY <1>3, LenProperties
<1> HIDE DEF n
<1>5. /\ sub' \in [Users -> Int]
      /\ kid' \in [Users -> {"none", "test", "enter", "wait", "events", "zombie", "reaped"}]
  BY <1>1, <1>2 DEF ChatTypes
<1>6. Chat!Unreaped' = Chat!Unreaped \union {c} /\ c \notin Chat!Unreaped
  BY <1>1 DEF ChatTypes, Chat!Unreaped, Chat!Living
<1>7. ASSUME NEW k \in Chat!Unreaped' PROVE sub'[k] + 1 \in 1 .. n + 1 /\ users'[sub'[k] + 1] = k
  <2>1. CASE k = c
    BY <1>1, <1>2, <1>3, <2>1 DEF ChatTypes
  <2>2. CASE k # c
    <3>1. k \in Chat!Unreaped /\ sub'[k] = sub[k]
      BY <1>1, <1>6, <1>7, <2>2 DEF ChatTypes
    <3>2. sub[k] + 1 \in 1 .. n /\ users[sub[k] + 1] = k
      BY <1>2, <3>1 DEF ChatRecords
    <3> QED
      BY <1>2, <1>3, <3>1, <3>2
  <2> QED
    BY <2>1, <2>2
<1>8. ASSUME NEW i \in 1 .. n + 1 PROVE users'[i] \in Chat!Unreaped' /\ sub'[users'[i]] = i - 1
  <2>1. CASE i = n + 1
    BY <1>1, <1>2, <1>3, <1>6, <2>1 DEF ChatTypes
  <2>2. CASE i # n + 1
    <3>1. i \in 1 .. n /\ users'[i] = users[i]
      BY <1>2, <1>3, <2>2
    <3>2. users[i] \in Chat!Unreaped /\ sub[users[i]] = i - 1
      BY <1>2, <3>1 DEF ChatRecords
    <3>3. users[i] # c
      BY <1>6, <3>2
    <3>4. sub'[users[i]] = sub[users[i]]
      BY <1>1, <3>3 DEF ChatTypes
    <3> QED
      BY <1>6, <3>1, <3>2, <3>4
  <2> QED
    BY <2>1, <2>2
<1> QED
  BY <1>3, <1>4, <1>5, <1>7, <1>8 DEF ChatRecords

(* Waiting for a child takes its record away and moves the last one there. *)
LEMMA ReapStep ==
    ASSUME ChatTypes, ChatRecords, NEW k \in Users, Chat!Reap(k)
    PROVE  /\ users' \in Seq(Users) /\ sub' \in [Users -> Int]
           /\ kid' \in [Users -> {"none", "test", "enter", "wait", "events", "zombie", "reaped"}]
           /\ ChatRecords'
<1> DEFINE n == Len(users)
           d == sub[k]
           last == users[n]
           moved == [users EXCEPT ![d + 1] = last]
<1>1. /\ kid[k] = "zombie" /\ kid' = [kid EXCEPT ![k] = "reaped"]
      /\ users' = SubSeq(moved, 1, n - 1)
      /\ sub' = [sub EXCEPT ![k] = -1, ![last] = d]
  BY DEF Chat!Reap, Chat!Move
<1>2. n \in Nat /\ DOMAIN users = 1 .. n /\ d \in Int
  BY LenProperties DEF ChatTypes
<1>3. k \in Chat!Unreaped
  BY <1>1 DEF Chat!Unreaped
<1>4. d + 1 \in 1 .. n /\ users[d + 1] = k /\ n \in 1 .. n
  BY <1>2, <1>3 DEF ChatRecords
<1>5. last \in Users /\ last \in Chat!Unreaped /\ sub[last] = n - 1
  BY <1>2, <1>4, ElementOfSeq DEF ChatTypes, ChatRecords
<1>6. moved \in Seq(Users) /\ Len(moved) = n
  BY <1>2, <1>4, <1>5, ReplaceInSeq DEF ChatTypes
<1>7. /\ users' \in Seq(Users) /\ Len(users') = n - 1
      /\ \A i \in 1 .. n - 1 : users'[i] = IF i = d + 1 THEN last ELSE users[i]
  <2>1. /\ SubSeq(moved, 1, n - 1) \in Seq(Users)
        /\ Len(SubSeq(moved, 1, n - 1)) = n - 1
        /\ \A i \in 1 .. n - 1 : SubSeq(moved, 1, n - 1)[i] = moved[i]
    BY <1>2, <1>4, <1>6, SubSeqProperties
  <2>2. \A i \in 1 .. n - 1 : moved[i] = IF i = d + 1 THEN last ELSE users[i]
    BY <1>2
  <2> QED
    BY <1>1, <2>1, <2>2
<1>8. DOMAIN users' = 1 .. n - 1
  BY <1>7, LenProperties
<1> HIDE DEF n, d, last, moved
<1>9. /\ sub' \in [Users -> Int]
      /\ kid' \in [Users -> {"none", "test", "enter", "wait", "events", "zombie", "reaped"}]
      /\ \A j \in Users : sub'[j] = IF j = last THEN d ELSE IF j = k THEN -1 ELSE sub[j]
  BY <1>1, <1>2, <1>5 DEF ChatTypes
<1>10. Chat!Unreaped' = Chat!Unreaped \ {k}
  BY <1>1 DEF ChatTypes, Chat!Unreaped, Chat!Living
<1>11. \A j \in Chat!Unreaped : j \in Users /\ sub[j] + 1 \in 1 .. n /\ users[sub[j] + 1] = j
  BY <1>2 DEF ChatRecords, Chat!Unreaped, Chat!Living
<1>12. \A i \in 1 .. n : users[i] \in Users /\ users[i] \in Chat!Unreaped /\ sub[users[i]] = i - 1
  BY <1>2, <1>11 DEF ChatRecords
<1>13. ASSUME NEW j \in Chat!Unreaped' PROVE sub'[j] + 1 \in 1 .. n - 1 /\ users'[sub'[j] + 1] = j
  <2>1. j \in Users /\ j \in Chat!Unreaped /\ j # k
    BY <1>10, <1>11, <1>13
  <2>2. sub[j] \in Int /\ sub[j] + 1 \in 1 .. n /\ users[sub[j] + 1] = j
    BY <1>11, <2>1 DEF ChatTypes
  <2>3. CASE j = last
    <3>1. d + 1 # n /\ sub'[j] = d
      BY <1>4, <1>9, <2>1, <2>3 DEF last
    <3> QED
      BY <1>2, <1>4, <1>7, <2>3, <3>1
  <2>4. CASE j # last
    <3>1. sub'[j] = sub[j] /\ sub[j] + 1 # n /\ sub[j] + 1 # d + 1
      BY <1>4, <1>9, <2>1, <2>2, <2>4 DEF last
    <3> QED
      BY <1>2, <1>7, <2>2, <3>1
  <2> QED
    BY <2>3, <2>4
<1>14. ASSUME NEW i \in 1 .. n - 1 PROVE users'[i] \in Chat!Unreaped' /\ sub'[users'[i]] = i - 1
  <2>1. i \in 1 .. n /\ i # n
    BY <1>2
  <2>2. CASE i = d + 1
    <3>1. users'[i] = last /\ sub'[last] = i - 1
      BY <1>2, <1>5, <1>7, <1>9, <2>2
    <3>2. last # k
      BY <1>2, <1>4, <1>12, <2>1, <2>2 DEF last
    <3> QED
      BY <1>5, <1>10, <3>1, <3>2
  <2>3. CASE i # d + 1
    <3>1. users'[i] = users[i] /\ users[i] \in Users /\ users[i] \in Chat!Unreaped /\ sub[users[i]] = i - 1
      BY <1>7, <1>12, <2>1, <2>3
    <3>2. users[i] # k /\ users[i] # last
      BY <1>2, <1>4, <1>5, <1>12, <2>1, <2>3, <3>1
    <3> QED
      BY <1>9, <1>10, <3>1, <3>2
  <2> QED
    BY <2>2, <2>3
<1> QED
  BY <1>7, <1>8, <1>9, <1>13, <1>14 DEF ChatRecords

(* SIGTERM sends children back to the test of their loops, no further. *)
LEMMA TerminateStep ==
    ASSUME ChatTypes, Chat!Terminate
    PROVE  /\ UNCHANGED <<users, sub>>
           /\ kid' \in [Users -> {"none", "test", "enter", "wait", "events", "zombie", "reaped"}]
           /\ Chat!Unreaped' = Chat!Unreaped
           /\ \A k \in Users : kid'[k] = "zombie" => kid[k] = "zombie"
<1> DEFINE hit == Chat!Members(users) \intersect Chat!Living
<1>1. /\ UNCHANGED <<users, sub>>
      /\ kid' = [k \in Users |-> IF k \in hit /\ kid[k] = "wait" THEN "test" ELSE kid[k]]
  BY DEF Chat!Terminate, Chat!table
<1> HIDE DEF hit
<1>2. \A k \in Users : kid'[k] = kid[k] \/ (kid[k] = "wait" /\ kid'[k] = "test")
  BY <1>1
<1>3. Chat!Unreaped' = Chat!Unreaped
  BY <1>2 DEF Chat!Unreaped, Chat!Living
<1> QED
  BY <1>1, <1>2, <1>3 DEF ChatTypes

(* The table stays matched with the children that were not waited for. *)
LEMMA RecordsStep ==
    ASSUME ChatTypes, ChatRecords, Chat!Next
    PROVE  /\ users' \in Seq(Users) /\ sub' \in [Users -> Int]
           /\ kid' \in [Users -> {"none", "test", "enter", "wait", "events", "zombie", "reaped"}]
           /\ ChatRecords'
<1>1. CASE ChatQuiet
  BY <1>1, QuietStep DEF ChatTypes, ChatRecords, Chat!Unreaped, Chat!Living
<1>2. CASE Chat!Terminate
  BY <1>2, TerminateStep DEF ChatTypes, ChatRecords
<1>3. ASSUME NEW c \in Users, Chat!KidStep(c)
      PROVE  /\ users' \in Seq(Users) /\ sub' \in [Users -> Int]
             /\ kid' \in [Users -> {"none", "test", "enter", "wait", "events", "zombie", "reaped"}]
             /\ ChatRecords'
  BY <1>3, ChatKidStep DEF ChatTypes, ChatRecords
<1> QED
  BY <1>1, <1>2, <1>3, ChatSteps, AcceptStep, ReapStep

(* Signals are read into an empty list, and the list is handled before the *)
(* next event; a batch is handled before the next epoll_wait().            *)
LEMMA SignalsStep ==
    ASSUME ChatTypes, ChatBatches, Chat!Next
    PROVE  sigs' \in Seq({"CHLD", "TERM"}) /\ todo' \in Seq({"CHLD", "TERM"}) /\ ChatBatches'
<1>0. sigs \in Seq({"CHLD", "TERM"}) /\ todo \in Seq({"CHLD", "TERM"})
  BY DEF ChatTypes
<1>1. CASE Chat!SigTerm \/ Chat!SigChld
  <2>1. /\ (sigs' = Append(sigs, "TERM")) \/ (sigs' = Append(sigs, "CHLD"))
        /\ UNCHANGED <<todo, batch, pc>>
    BY <1>1 DEF Chat!SigTerm, Chat!SigChld
  <2>2. sigs' \in Seq({"CHLD", "TERM"})
    BY <1>0, <2>1, AppendProperties
  <2> QED
    BY <1>0, <2>1, <2>2 DEF ChatBatches
<1>2. CASE Chat!EpollWait \/ Chat!EndOfBatch \/ Chat!NoMoreSignals
  BY <1>0, <1>2 DEF Chat!EpollWait, Chat!EndOfBatch, Chat!NoMoreSignals, Chat!signals, Chat!events, ChatBatches
<1>3. CASE Chat!ReadSignals
  BY <1>0, <1>3, EmptySeq DEF Chat!ReadSignals, ChatBatches
<1>4. CASE Chat!NoMoreZombies \/ Chat!Terminate
  <2>1. pc = "signals" /\ todo # <<>> /\ todo' = Tail(todo) /\ UNCHANGED <<sigs, batch, pc>>
    BY <1>4 DEF Chat!NoMoreZombies, Chat!Terminate, Chat!events
  <2>2. todo' \in Seq({"CHLD", "TERM"})
    BY <1>0, <2>1, HeadTailProperties
  <2> QED
    BY <1>0, <2>1, <2>2 DEF ChatBatches
<1>5. ASSUME NEW c \in Users, Chat!Connect(c) \/ Chat!Send(c) \/ Chat!Quit(c) \/ Chat!Reap(c)
      PROVE  UNCHANGED <<sigs, todo, batch, pc>>
  BY <1>5 DEF Chat!Connect, Chat!Send, Chat!Quit, Chat!Reap, Chat!signals, Chat!events
<1>6. ASSUME NEW c \in Users,
             \/ Chat!Refuse(c) \/ Chat!Accept(c) \/ Chat!PipeClosed(c) \/ Chat!PipeEmpty(c) \/ Chat!Broadcast(c)
      PROVE  pc = "events" /\ UNCHANGED <<sigs, todo>> /\ (pc' = pc \/ pc' = "died")
  BY <1>6 DEF Chat!Refuse, Chat!Accept, Chat!PipeClosed, Chat!PipeEmpty, Chat!Broadcast, Chat!At, Chat!signals
<1>7. ASSUME NEW c \in Users, Chat!KidStep(c) PROVE UNCHANGED <<sigs, todo, batch, pc>>
  BY <1>7, ChatKidStep
<1> QED
  BY <1>0, <1>1, <1>2, <1>3, <1>4, <1>5, <1>6, <1>7 DEF Chat!Next, ChatBatches

(* The parent is told of every zombie: each step that could lose the word  *)
(* of one leaves another.                                                  *)
LEMMA ZombieStep ==
    ASSUME ChatTypes, ChatBatches, Chat!ZombieIsNoticed, Chat!Next
    PROVE  Chat!ZombieIsNoticed'
<1> DEFINE Coming == "CHLD" \in Chat!Members(sigs) /\ "sig" \in ready \union batch
           Known == raised \/ Coming \/ "CHLD" \in Chat!Members(todo)
<1>0. Chat!Running
  BY DEF Chat!Next, Chat!Running, Chat!SigTerm, Chat!SigChld, Chat!EpollWait, Chat!EndOfBatch, Chat!ReadSignals,
     Chat!NoMoreZombies, Chat!Terminate, Chat!NoMoreSignals, Chat!Connect, Chat!Send, Chat!Quit, Chat!Refuse,
     Chat!Accept, Chat!Reap, Chat!PipeClosed, Chat!PipeEmpty, Chat!Broadcast, Chat!At
<1>s. sigs \in Seq({"CHLD", "TERM"}) /\ todo \in Seq({"CHLD", "TERM"})
  BY DEF ChatTypes
<1> SUFFICES ASSUME NEW z \in Users, kid'[z] = "zombie" PROVE Known'
  BY DEF Chat!ZombieIsNoticed
<1>z. kid[z] = "zombie" => Known
  BY <1>0 DEF Chat!ZombieIsNoticed
<1>1. ASSUME kid'[z] = kid[z], raised' = raised, sigs' = sigs, todo' = todo,
             "sig" \in ready \union batch => "sig" \in ready' \union batch'
      PROVE  Known'
  BY <1>z, <1>1
<1>2. ASSUME NEW c \in Users, Chat!Connect(c) \/ Chat!Send(c) \/ Chat!Quit(c) PROVE Known'
  <2>1. UNCHANGED <<kid, raised, sigs, todo, batch>> /\ ready \subseteq ready'
    BY <1>2 DEF Chat!Connect, Chat!Send, Chat!Quit, Chat!Edge, Chat!signals, Chat!events, Chat!children
  <2> QED
    BY <1>1, <2>1
<1>3. CASE Chat!SigTerm \/ Chat!SigChld
  <2>1. /\ UNCHANGED <<kid, todo>> /\ "sig" \in ready'
        /\ \/ sigs' = Append(sigs, "CHLD")
           \/ sigs' = Append(sigs, "TERM") /\ raised' = raised
    BY <1>3 DEF Chat!SigTerm, Chat!SigChld, Chat!Edge, Chat!children
  <2>2. CASE sigs' = Append(sigs, "CHLD")
    <3>1. "CHLD" \in Chat!Members(sigs')
      BY <1>s, <2>2, SignalMembers
    <3> QED
      BY <2>1, <3>1 DEF Chat!Members
  <2>3. CASE sigs' = Append(sigs, "TERM") /\ raised' = raised
    <3>1. "CHLD" \in Chat!Members(sigs) => "CHLD" \in Chat!Members(sigs')
      BY <1>s, <2>3, SignalMembers
    <3> QED
      BY <1>z, <2>1, <2>3, <3>1 DEF Chat!Members
  <2> QED
    BY <2>1, <2>2, <2>3
<1>4. CASE Chat!EpollWait
  <2>1. /\ UNCHANGED <<kid, raised, sigs, todo>> /\ batch = {}
        /\ batch' = {x \in ready : Chat!Readable(x)}
    BY <1>4 DEF Chat!EpollWait, ChatBatches, Chat!signals, Chat!children
  <2>2. sigs # <<>> => Chat!Readable("sig")
    BY DEF Chat!Readable
  <2>3. "CHLD" \in Chat!Members(sigs) => sigs # <<>>
    BY <1>s, SignalMembers
  <2>4. Coming => "sig" \in batch'
    BY <2>1, <2>2, <2>3
  <2> QED
    BY <1>z, <2>1, <2>4
<1>5. CASE Chat!EndOfBatch \/ Chat!NoMoreSignals
  BY <1>1, <1>5 DEF Chat!EndOfBatch, Chat!NoMoreSignals, Chat!signals, Chat!events, Chat!children
<1>6. CASE Chat!ReadSignals
  <2>1. /\ UNCHANGED <<kid, raised>> /\ todo' = sigs /\ todo = <<>>
    BY <1>6 DEF Chat!ReadSignals, Chat!At, ChatBatches, Chat!children
  <2>2. "CHLD" \in Chat!Members(todo) => todo # <<>>
    BY <1>s, SignalMembers
  <2> QED
    BY <1>z, <2>1, <2>2 DEF Chat!Members
<1>7. CASE Chat!NoMoreZombies
  BY <1>7 DEF Chat!NoMoreZombies, Chat!children
<1>8. CASE Chat!Terminate
  <2>1. kid[z] = "zombie"
    BY <1>8, TerminateStep
  <2>2. /\ UNCHANGED <<raised, sigs, ready, batch>>
        /\ todo # <<>> /\ Head(todo) = "TERM" /\ todo' = Tail(todo)
    BY <1>8 DEF Chat!Terminate, Chat!events
  <2>3. "CHLD" \in Chat!Members(todo) => "CHLD" \in Chat!Members(todo')
    BY <1>s, <2>2, SignalMembers
  <2> QED
    BY <1>z, <2>1, <2>2, <2>3
<1>9. ASSUME NEW c \in Users, Chat!Reap(c) PROVE Known'
  <2>1. /\ UNCHANGED <<raised, sigs, todo, batch>> /\ ready' = ready \ {c}
        /\ kid' = [kid EXCEPT ![c] = "reaped"]
    BY <1>9 DEF Chat!Reap, Chat!Move, Chat!signals
  <2>2. kid[z] = "zombie" /\ c # "sig"
    BY <2>1, ChatFacts DEF ChatTypes
  <2> QED
    BY <1>z, <2>1, <2>2
<1>10. ASSUME NEW c \in Users, Chat!Accept(c) PROVE Known'
  <2>1. /\ UNCHANGED <<raised, sigs, todo, ready>> /\ batch' = batch \ {"listen"}
        /\ kid' = [kid EXCEPT ![c] = "test"]
    BY <1>10 DEF Chat!Accept, Chat!At, Chat!Move, Chat!signals
  <2>2. kid[z] = "zombie"
    BY <2>1 DEF ChatTypes
  <2> QED
    BY <1>z, <2>1, <2>2
<1>11. ASSUME NEW c \in Users, Chat!Refuse(c) \/ Chat!PipeClosed(c) \/ Chat!PipeEmpty(c) \/ Chat!Broadcast(c)
       PROVE  Known'
  <2>1. /\ UNCHANGED <<kid, raised, sigs, todo, ready>>
        /\ (batch' = batch \ {"listen"}) \/ (batch' = batch \ {c})
    BY <1>11 DEF Chat!Refuse, Chat!PipeClosed, Chat!PipeEmpty, Chat!Broadcast, Chat!At, Chat!signals, Chat!children
  <2>2. "sig" \in batch => "sig" \in batch'
    BY <2>1, ChatFacts
  <2> QED
    BY <1>1, <2>1, <2>2
<1>12. ASSUME NEW c \in Users, Chat!KidStep(c) PROVE Known'
  <2>1. /\ UNCHANGED <<sigs, todo, batch>> /\ ready \subseteq ready'
        /\ raised => raised'
        /\ kid[z] = "zombie" \/ raised'
    BY <1>12, ChatKidStep
  <2> QED
    BY <1>z, <2>1
<1> HIDE DEF Known
<1> QED
  BY <1>2, <1>3, <1>4, <1>5, <1>6, <1>7, <1>8, <1>9, <1>10, <1>11, <1>12 DEF Chat!Next

(* As many records as children that were not waited for. *)
LEMMA RecordsCount ==
    ASSUME ChatTypes, ChatRecords
    PROVE  Chat!RecordsMatch
<1>1. Len(users) \in Nat /\ DOMAIN users = 1 .. Len(users)
  BY LenProperties DEF ChatTypes
<1>2. Cardinality(Chat!Unreaped) = Len(users)
  <2> DEFINE f == [i \in 1 .. Len(users) |-> users[i]]
  <2>1. \A i \in 1 .. Len(users) : users[i] \in Chat!Unreaped /\ sub[users[i]] = i - 1
    BY <1>1 DEF ChatRecords
  <2>2. \A k \in Chat!Unreaped : sub[k] + 1 \in 1 .. Len(users) /\ users[sub[k] + 1] = k
    BY <1>1 DEF ChatRecords
  <2>3. f \in Surjection(1 .. Len(users), Chat!Unreaped)
    BY <2>1, <2>2 DEF Surjection
  <2>4. \A i, j \in 1 .. Len(users) : f[i] = f[j] => i = j
    BY <1>1, <2>1
  <2>5. f \in Bijection(1 .. Len(users), Chat!Unreaped)
    BY <2>1, <2>3, <2>4 DEF Bijection, Injection, IsInjective, Surjection
  <2>6. ExistsBijection(1 .. Len(users), Chat!Unreaped)
    BY <2>5 DEF ExistsBijection
  <2> QED
    BY <1>1, <2>6, FS_CountingElements
<1>3. Len(users) = Chat!Cardinality(Chat!Unreaped)
  BY <1>2, SameCardinality
<1> QED
  BY <1>3 DEF Chat!RecordsMatch, ChatRecords

-----------------------------------------------------------------------------
(* The invariants of the two servers hold at the start. *)
LEMMA PoolInit ==
    ASSUME Pool!Init
    PROVE  PoolInv
<1>1. PoolTypes /\ PoolBatches
  BY PoolFacts DEF Pool!Init, PoolTypes, PoolBatches
<1>2. Pool!Ints = {} /\ Pool!Backlog = {}
  <2>1. \A k \in Pool!Procs : {k} \X (1 .. kpipe[k]) = {}
    BY DEF Pool!Init
  <2> QED
    BY <2>1 DEF Pool!Init, Pool!Ints, Pool!Backlog
<1>3. Announced
  BY <1>2, FS_EmptySet DEF Announced, Pool!Init
<1> QED
  BY <1>1, <1>3 DEF PoolInv, Pool!Init, Pool!ProgramIsNoticed

(* The chat room starts empty. *)
LEMMA ChatInit ==
    ASSUME Chat!Init
    PROVE  ChatInv
<1>1. ChatTypes /\ ChatBatches
  BY EmptySeq DEF Chat!Init, ChatTypes, ChatBatches, Chat!None
<1>2. Chat!Unreaped = {} /\ DOMAIN users = {}
  BY DEF Chat!Init, Chat!Unreaped, Chat!Living, Chat!None
<1>3. ChatRecords
  BY <1>2 DEF ChatRecords
<1>4. Chat!ZombieIsNoticed
  BY DEF Chat!Init, Chat!ZombieIsNoticed, Chat!None
<1> QED
  BY <1>1, <1>3, <1>4 DEF ChatInv

(* And every step of either keeps its own. *)
LEMMA PoolStep ==
    ASSUME PoolInv, Pool!Next
    PROVE  PoolInv'
BY PoolTypesStep, PoolBatchesStep, AnnouncedStep, NoticedStep DEF PoolInv

(* Every step of the chat room keeps the invariant. *)
LEMMA ChatStep ==
    ASSUME ChatInv, Chat!Next
    PROVE  ChatInv'
BY RecordsStep, SignalsStep, ZombieStep DEF ChatInv, ChatTypes

ProcessesInv == (program = "chat" => ChatInv) /\ (program = "pool" => PoolInv)

(* The invariant of the composition: the server that runs keeps its own.   *)
LEMMA ProcessesInvariant == Spec => []ProcessesInv
<1>1. Init => ProcessesInv
  BY ChatInit, PoolInit DEF Init, ProcessesInv
<1>2. ProcessesInv /\ [Next]_<<program, Chat!vars, Pool!vars>> => ProcessesInv'
  <2> SUFFICES ASSUME ProcessesInv, [Next]_<<program, Chat!vars, Pool!vars>> PROVE ProcessesInv'
    OBVIOUS
  <2>1. CASE program = "chat" /\ program' = program /\ Chat!Next
    BY <2>1, ChatStep DEF ProcessesInv
  <2>2. CASE program = "pool" /\ program' = program /\ Pool!Next
    BY <2>2, PoolStep DEF ProcessesInv
  <2>3. CASE UNCHANGED <<program, Chat!vars, Pool!vars>>
    <3>1. /\ UNCHANGED <<program, state, kid, sigs, todo, ready, batch, pc, raised>>
          /\ UNCHANGED <<users, sub>>
          /\ UNCHANGED <<owner, kpipe, ksigs, kready, kbatch, sub_proc_cnt>>
      BY <2>3 DEF Chat!vars, Pool!vars, Chat!outside, Chat!table, Chat!signals, Chat!events, Chat!children,
         Pool!conns, Pool!parent, Pool!signals, Pool!events, Pool!children
    <3>2. ChatInv => ChatInv'
      BY <3>1 DEF ChatInv, ChatTypes, ChatRecords, ChatBatches, Chat!ZombieIsNoticed, Chat!Running, Chat!Members,
         Chat!Unreaped, Chat!Living
    <3>3. PoolInv => PoolInv'
      BY <3>1 DEF PoolInv, PoolTypes, PoolBatches, Announced, Pool!ProgramIsNoticed, Pool!Ints, Pool!Backlog,
         Pool!Living
    <3> QED
      BY <3>1, <3>2, <3>3 DEF ProcessesInv
  <2> QED
    BY <2>1, <2>2, <2>3 DEF Next
<1> QED
  BY <1>1, <1>2, PTL DEF Spec

(* chatroom_srv1.c:219-232: in whatever order children end, sub_proccess   *)
(* leads from each to its user's record, which the parent then gives to    *)
(* the last user.                                                          *)
THEOREM RecordsMatchHolds == Spec => []RecordsMatch
<1>1. ProcessesInv => RecordsMatch
  BY RecordsCount DEF ProcessesInv, ChatInv, RecordsMatch
<1> QED
  BY <1>1, ProcessesInvariant, PTL

(* chatroom_srv1.c: a child that has ended will be waited for: its signal  *)
(* is raised, or in the pipe whose event is to come, or read.              *)
THEOREM ZombieIsNoticedHolds == Spec => []ZombieIsNoticed
<1>1. ProcessesInv => ZombieIsNoticed
  BY DEF ProcessesInv, ChatInv, ZombieIsNoticed
<1> QED
  BY <1>1, ProcessesInvariant, PTL

(* ProcessPool.h:231: a child that was told of a connection finds one,     *)
(* whichever child takes it, with other announcements on their way.        *)
THEOREM AcceptFindsHolds == Spec => []AcceptFinds
<1>1. ProcessesInv => AcceptFinds
  <2> SUFFICES ASSUME ProcessesInv, program = "pool" PROVE Pool!AcceptFinds
    BY DEF AcceptFinds
  <2>1. Announced /\ IsFiniteSet(Pool!Backlog)
    BY BacklogFinite DEF ProcessesInv, PoolInv
  <2>2. Cardinality(Pool!Ints) \in Nat /\ Cardinality(Pool!Backlog) \in Nat
    BY <2>1, FS_CardinalityType DEF Announced
  <2>3. Pool!Cardinality(Pool!Ints) = Cardinality(Pool!Ints)
        /\ Pool!Cardinality(Pool!Backlog) = Cardinality(Pool!Backlog)
    BY SameCardinality
  <2> QED
    BY <2>1, <2>2, <2>3 DEF Announced, Pool!AcceptFinds
<1> QED
  BY <1>1, ProcessesInvariant, PTL

(* ProcessPool.h:248: a program that ended will be waited for, though the  *)
(* signals of several merge and the pipe's event comes only once.          *)
THEOREM ProgramIsNoticedHolds == Spec => []ProgramIsNoticed
<1>1. ProcessesInv => ProgramIsNoticed
  BY DEF ProcessesInv, PoolInv, ProgramIsNoticed
<1> QED
  BY <1>1, ProcessesInvariant, PTL
=============================================================================
