--------------------------- MODULE ProgramsProofs ---------------------------
(***************************************************************************)
(* Proofs about the chat room over poll (ChatPoll.tla), the TCP echo       *)
(* clients (EchoClient.tla), the datagram clients (DatagramClient.tla) and *)
(* the containers (Containers.tla, ContainerUse.tla), for the runs'        *)
(* composition MCPrograms.tla: any clients, any USER_LIMITS, any number of *)
(* messages and lines, buffers of any size, and containers of any values,  *)
(* any size and any number of calls.                                       *)
(***************************************************************************)
EXTENDS MCPrograms, FiniteSetTheorems, SequenceTheorems, WellFoundedInduction, TLAPS

-----------------------------------------------------------------------------
(* The chat room *)

Entry == [fd : Chat!Descs, events : SUBSET {"IN", "OUT"}, revents : SUBSET {"ERR", "RDHUP", "IN", "OUT"}]

(* The types of what the server keeps. *)
ChatTypes ==
    /\ who \in [Chat!Descs -> Clients \union {Null}]
    /\ buf \in [Chat!Descs -> Clients \union {Null}]
    /\ writebuf \in [Chat!Descs -> Chat!Descs \union {Null}]
    /\ fds \in Seq(Entry)
    /\ Len(fds) <= Limit
    /\ i \in Nat
    /\ pc \in {"poll", "loop", "died"}

(* An open descriptor has one entry, and an entry an open descriptor. *)
EntriesAreOpen ==
    /\ \A f \in Chat!Descs : who[f] # Null <=> \E k \in DOMAIN fds : fds[k].fd = f
    /\ \A k, j \in DOMAIN fds : fds[k].fd = fds[j].fd => k = j

(* An entry waits for input, or for room to write what there is to write. *)
EntriesWait ==
    \A k \in DOMAIN fds :
        \/ fds[k].events = {"IN"}
        \/ fds[k].events = {"OUT"} /\ writebuf[fds[k].fd] # Null

PollInv == ChatTypes /\ EntriesAreOpen /\ EntriesWait

(* A set of naturals that is not empty has a least element. *)
LEMMA LeastElement ==
    ASSUME NEW S \in SUBSET Nat, S # {}
    PROVE  \E n \in S : \A m \in S : n <= m
<1>1. PICK n \in S : \A m \in S : ~ (<<m, n>> \in OpToRel(<, Nat))
  BY NatLessThanWellFounded, WFMin
<1>2. \A m \in S : ~ (m < n)
  BY <1>1 DEF OpToRel
<1> QED
  BY <1>2

(* The entries of poll are what their sequence's type says. *)
LEMMA EntryTypes ==
    ASSUME ChatTypes
    PROVE  /\ Len(fds) \in Nat /\ DOMAIN fds = 1 .. Len(fds)
           /\ \A k \in DOMAIN fds : fds[k] \in Entry /\ fds[k].fd \in Chat!Descs
<1>1. fds \in Seq(Entry)
  BY DEF ChatTypes
<1>2. Len(fds) \in Nat /\ DOMAIN fds = 1 .. Len(fds) /\ \A k \in DOMAIN fds : fds[k] \in Entry
  BY <1>1, LenProperties, ElementOfSeq
<1> QED
  BY <1>2 DEF Entry

(* While the room is not full, a descriptor is free, and accept() returns   *)
(* the lowest one.                                                          *)
LEMMA FreeDescriptor ==
    ASSUME Chat!ChatAssumption, ChatTypes, EntriesAreOpen, Len(fds) < Limit
    PROVE  \E x \in Chat!Descs : who[x] = Null /\ \A y \in 1 .. x - 1 : who[y] # Null
<1> DEFINE n == Len(fds)
           open == {f \in Chat!Descs : who[f] # Null}
           entry == [k \in 1 .. n |-> fds[k].fd]
<1>1. n \in Nat /\ Limit \in Nat /\ n < Limit /\ DOMAIN fds = 1 .. n
  BY LenProperties DEF ChatTypes, Chat!ChatAssumption
<1>2. \A k \in 1 .. n : fds[k].fd \in Chat!Descs
  BY <1>1, EntryTypes
<1>3. entry \in Surjection(1 .. n, open)
  <2>1. \A k \in 1 .. n : fds[k].fd \in open
    BY <1>1, <1>2 DEF EntriesAreOpen
  <2>2. \A f \in open : \E k \in 1 .. n : entry[k] = f
    BY <1>1 DEF EntriesAreOpen
  <2> QED
    BY <2>1, <2>2 DEF Surjection
<1>4. IsFiniteSet(open) /\ Cardinality(open) <= n
  <2>1. IsFiniteSet(1 .. n) /\ Cardinality(1 .. n) = n
    <3>1. 1 \in Int /\ n \in Int /\ (IF 1 > n THEN 0 ELSE n - 1 + 1) = n
      BY <1>1
    <3> QED
      BY <3>1, FS_Interval
  <2> QED
    BY <1>3, <2>1, FS_Surjection
<1>5. Cardinality(Chat!Descs) = Limit + 1
  <2>1. 1 \in Int /\ Limit + 1 \in Int /\ (IF 1 > Limit + 1 THEN 0 ELSE Limit + 1 - 1 + 1) = Limit + 1
    BY <1>1
  <2> QED
    BY <2>1, FS_Interval DEF Chat!Descs
<1>6. open # Chat!Descs
  <2> HIDE DEF open
  <2>1. Cardinality(open) \in Nat
    BY <1>4, FS_CardinalityType
  <2> QED
    BY <1>1, <1>4, <1>5, <2>1
<1>7. PICK x \in Chat!Descs \ open : \A y \in Chat!Descs \ open : x <= y
  <2>1. Chat!Descs \ open \in SUBSET Nat /\ Chat!Descs \ open # {}
    BY <1>1, <1>6 DEF Chat!Descs
  <2> QED
    BY <2>1, LeastElement
<1>8. \A y \in 1 .. x - 1 : who[y] # Null
  BY <1>1, <1>7 DEF Chat!Descs
<1> QED
  BY <1>7, <1>8

(* The empty room. *)
LEMMA PollInit == Chat!ChatAssumption /\ Chat!Init => PollInv
<1> SUFFICES ASSUME Chat!ChatAssumption, Chat!Init PROVE PollInv
  OBVIOUS
<1>1. fds = <<>> /\ Len(fds) = 0 /\ DOMAIN fds = {} /\ fds \in Seq(Entry)
  BY DEF Chat!Init
<1>2. ChatTypes
  BY <1>1 DEF Chat!Init, ChatTypes, Chat!ChatAssumption
<1> QED
  BY <1>1, <1>2 DEF PollInv, EntriesAreOpen, EntriesWait, Chat!Init

(* Every step of the server and of the clients. *)
LEMMA PollStep == Chat!ChatAssumption /\ PollInv /\ [Chat!Next]_chat => PollInv'
<1> SUFFICES ASSUME Chat!ChatAssumption, PollInv, [Chat!Next]_chat PROVE PollInv'
  OBVIOUS
<1> DEFINE kept == UNCHANGED <<who, buf, writebuf, fds>>
<1>t. ChatTypes /\ EntriesAreOpen /\ EntriesWait
  BY DEF PollInv
<1>e. /\ Len(fds) \in Nat /\ DOMAIN fds = 1 .. Len(fds)
      /\ \A k \in DOMAIN fds : fds[k] \in Entry /\ fds[k].fd \in Chat!Descs
  BY <1>t, EntryTypes
<1>1. ASSUME kept, i' \in Nat, pc' \in {"poll", "loop", "died"} PROVE PollInv'
  BY <1>t, <1>1 DEF PollInv, ChatTypes, EntriesAreOpen, EntriesWait
<1>2. CASE Chat!ClientStep
  BY <1>t, <1>1, <1>2 DEF Chat!ClientStep, Chat!Connect, Chat!Send, Chat!Quit, Chat!room, ChatTypes
<1>3. CASE Chat!Poll
  <2>1. /\ fds' = [k \in DOMAIN fds |-> [fds[k] EXCEPT !.revents = Chat!Polled(fds[k])]]
        /\ UNCHANGED <<who, buf, writebuf>> /\ i' = 0 /\ pc' = "loop"
    BY <1>3 DEF Chat!Poll
  <2>2. \A k \in DOMAIN fds : Chat!Polled(fds[k]) \in SUBSET {"ERR", "RDHUP", "IN", "OUT"}
    BY DEF Chat!Polled
  <2>3. \A k \in DOMAIN fds : /\ fds'[k] \in Entry
                              /\ fds'[k].fd = fds[k].fd /\ fds'[k].events = fds[k].events
    BY <1>e, <2>1, <2>2 DEF Entry
  <2>4. fds' \in Seq(Entry) /\ Len(fds') = Len(fds) /\ DOMAIN fds' = DOMAIN fds
    BY <1>e, <2>1, <2>3, IsASeq
  <2>5. ChatTypes'
    BY <1>t, <2>1, <2>4 DEF ChatTypes
  <2>6. EntriesAreOpen'
    <3>1. who' = who /\ DOMAIN fds' = DOMAIN fds /\ \A k \in DOMAIN fds : fds'[k].fd = fds[k].fd
      BY <2>1, <2>3, <2>4
    <3>2. \A f \in Chat!Descs : who[f] # Null <=> \E k \in DOMAIN fds : fds[k].fd = f
      BY <1>t DEF EntriesAreOpen
    <3>3. \A f \in Chat!Descs : who'[f] # Null <=> \E k \in DOMAIN fds' : fds'[k].fd = f
      BY <3>1, <3>2
    <3>4. \A k, j \in DOMAIN fds' : fds'[k].fd = fds'[j].fd => k = j
      BY <1>t, <3>1 DEF EntriesAreOpen
    <3> QED
      BY <3>3, <3>4 DEF EntriesAreOpen
  <2>7. EntriesWait'
    BY <1>t, <2>1, <2>3, <2>4 DEF EntriesWait
  <2> QED
    BY <2>5, <2>6, <2>7 DEF PollInv
<1>4. ASSUME NEW cl \in Clients, Chat!Accept(cl) PROVE PollInv'
  <2> DEFINE f == CHOOSE x \in Chat!Descs : who[x] = Null /\ \A y \in 1 .. x - 1 : who[y] # Null
             new == [fd |-> f, events |-> {"IN"}, revents |-> {}]
  <2>1. i' \in Nat /\ pc' = pc /\ UNCHANGED <<buf, writebuf>>
    BY <1>t, <1>4 DEF Chat!Accept, Chat!GoOn, ChatTypes
  <2>2. CASE Chat!user_cnt >= Limit
    BY <1>t, <1>1, <1>4, <2>1, <2>2 DEF Chat!Accept, ChatTypes
  <2>3. CASE ~(Chat!user_cnt >= Limit)
    <3>1. who' = [who EXCEPT ![f] = cl] /\ fds' = Append(fds, new)
      BY <1>4, <2>3 DEF Chat!Accept
    <3>2. Len(fds) < Limit
      BY <1>e, <2>3 DEF Chat!user_cnt, Chat!ChatAssumption
    <3>3. f \in Chat!Descs /\ who[f] = Null
      BY <1>t, <3>2, FreeDescriptor
    <3>4. new \in Entry /\ new.fd = f /\ new.events = {"IN"}
      BY <3>3 DEF Entry
    <3> HIDE DEF f, new
    <3>5. /\ fds' \in Seq(Entry) /\ Len(fds') = Len(fds) + 1 /\ DOMAIN fds' = 1 .. Len(fds) + 1
          /\ \A k \in 1 .. Len(fds) : fds'[k] = fds[k]
          /\ fds'[Len(fds) + 1] = new
      BY <1>t, <3>1, <3>4, AppendProperties, LenProperties DEF ChatTypes
    <3>6. ChatTypes'
      BY <1>t, <1>e, <2>1, <3>1, <3>2, <3>3, <3>5 DEF ChatTypes, Chat!ChatAssumption
    <3>7. \A k \in DOMAIN fds : fds[k].fd # f
      BY <1>t, <3>3 DEF EntriesAreOpen
    <3>8. \A g \in Chat!Descs : who'[g] # Null <=> \E k \in DOMAIN fds' : fds'[k].fd = g
      <4>1. SUFFICES ASSUME NEW g \in Chat!Descs
                     PROVE  who'[g] # Null <=> \E k \in DOMAIN fds' : fds'[k].fd = g
        OBVIOUS
      <4>2. CASE g = f
        BY <1>t, <1>e, <3>1, <3>3, <3>4, <3>5, <4>2 DEF ChatTypes, Chat!ChatAssumption
      <4>3. CASE g # f
        BY <1>t, <1>e, <3>1, <3>4, <3>5, <4>3 DEF ChatTypes, EntriesAreOpen
      <4> QED
        BY <4>2, <4>3
    <3>9. \A k, j \in DOMAIN fds' : fds'[k].fd = fds'[j].fd => k = j
      BY <1>t, <1>e, <3>4, <3>5, <3>7 DEF EntriesAreOpen
    <3>10. EntriesWait'
      BY <1>t, <1>e, <2>1, <3>4, <3>5 DEF EntriesWait
    <3> QED
      BY <3>6, <3>8, <3>9, <3>10 DEF PollInv, EntriesAreOpen
  <2> QED
    BY <2>2, <2>3
<1>5. CASE Chat!Error \/ Chat!WriteFails \/ Chat!Nothing \/ Chat!EndOfLoop
  BY <1>t, <1>1, <1>5 DEF Chat!Error, Chat!WriteFails, Chat!Nothing, Chat!EndOfLoop, Chat!GoOn,
     Chat!room, ChatTypes
<1>6. CASE Chat!Leave
  <2> DEFINE f == fds[i].fd
             n == Chat!user_cnt
             moved == [fds EXCEPT ![i] = fds[n]]
  <2>1. /\ i \in DOMAIN fds /\ n \in DOMAIN fds /\ n = Len(fds)
        /\ i' = i /\ pc' = pc
        /\ who' = [who EXCEPT ![f] = Null]
        /\ buf' = [buf EXCEPT ![f] = buf[fds[n].fd]]
        /\ writebuf' = [writebuf EXCEPT ![f] = writebuf[fds[n].fd]]
        /\ fds' = SubSeq(moved, 1, n - 1)
    BY <1>6, <1>e DEF Chat!Leave, Chat!At, Chat!user_cnt
  <2>2. moved \in Seq(Entry) /\ Len(moved) = n
    BY <1>t, <1>e, <2>1, ExceptSeq DEF ChatTypes
  <2>3. /\ fds' \in Seq(Entry) /\ Len(fds') = n - 1 /\ DOMAIN fds' = 1 .. n - 1
        /\ \A k \in 1 .. n - 1 : fds'[k] = IF k = i THEN fds[n] ELSE fds[k]
    <3>1. /\ SubSeq(moved, 1, n - 1) \in Seq(Entry)
          /\ Len(SubSeq(moved, 1, n - 1)) = n - 1
          /\ \A k \in 1 .. n - 1 : SubSeq(moved, 1, n - 1)[k] = moved[k]
      BY <1>e, <2>1, <2>2, SubSeqProperties
    <3>2. \A k \in 1 .. n - 1 : moved[k] = IF k = i THEN fds[n] ELSE fds[k]
      BY <1>e, <2>1
    <3> QED
      BY <2>1, <3>1, <3>2, LenProperties
  <2> HIDE DEF moved
  <2>4. f \in Chat!Descs /\ fds[n].fd \in Chat!Descs
    BY <1>e, <2>1
  <2>5. ChatTypes'
    BY <1>t, <1>e, <2>1, <2>3, <2>4 DEF ChatTypes, Chat!ChatAssumption
  <2>6. \A k \in 1 .. n - 1 : fds'[k].fd # f
    BY <1>t, <1>e, <2>1, <2>3 DEF EntriesAreOpen
  <2>7. \A k, j \in 1 .. n - 1 : fds'[k].fd = fds'[j].fd => k = j
    BY <1>t, <1>e, <2>1, <2>3 DEF EntriesAreOpen
  <2>8. \A g \in Chat!Descs : who'[g] # Null <=> \E k \in DOMAIN fds' : fds'[k].fd = g
    <3>1. SUFFICES ASSUME NEW g \in Chat!Descs
                   PROVE  who'[g] # Null <=> \E k \in 1 .. n - 1 : fds'[k].fd = g
      BY <2>3
    <3>2. CASE g = f
      BY <1>t, <2>1, <2>4, <2>6, <3>2 DEF ChatTypes
    <3>3. CASE g # f
      <4>1. who'[g] # Null <=> \E k \in DOMAIN fds : fds[k].fd = g
        BY <1>t, <2>1, <3>3 DEF ChatTypes, EntriesAreOpen
      <4>2. ASSUME NEW k \in DOMAIN fds, fds[k].fd = g PROVE \E j \in 1 .. n - 1 : fds'[j].fd = g
        <5>1. k # i
          BY <3>3, <4>2
        <5>2. CASE k = n
          BY <1>e, <2>1, <2>3, <4>2, <5>1, <5>2
        <5>3. CASE k # n
          BY <1>e, <2>1, <2>3, <4>2, <5>1, <5>3
        <5> QED
          BY <5>2, <5>3
      <4>3. ASSUME NEW j \in 1 .. n - 1, fds'[j].fd = g PROVE \E k \in DOMAIN fds : fds[k].fd = g
        BY <1>e, <2>1, <2>3, <4>3
      <4> QED
        BY <4>1, <4>2, <4>3
    <3> QED
      BY <3>2, <3>3
  <2>9. EntriesWait'
    <3>1. \A k \in 1 .. n - 1 : writebuf'[fds'[k].fd] = writebuf[fds'[k].fd]
      BY <1>t, <1>e, <2>1, <2>3, <2>6 DEF ChatTypes
    <3>2. \A k \in 1 .. n - 1 : \E j \in DOMAIN fds : fds'[k] = fds[j]
      BY <1>e, <2>1, <2>3
    <3> QED
      BY <1>t, <2>3, <3>1, <3>2 DEF EntriesWait
  <2> QED
    BY <2>3, <2>5, <2>7, <2>8, <2>9 DEF PollInv, EntriesAreOpen
<1>7. CASE Chat!Read
  <2> DEFINE f == fds[i].fd
  <2>1. /\ i \in DOMAIN fds /\ i' = i + 1 /\ pc' = pc /\ who' = who
        /\ buf' = [buf EXCEPT ![f] = who[f]]
        /\ fds' = [k \in DOMAIN fds |->
                     IF k = i THEN fds[k]
                     ELSE [fds[k] EXCEPT !.events = (@ \ {"IN"}) \union {"OUT"}]]
        /\ writebuf' = [x \in Chat!Descs |-> IF \E k \in DOMAIN fds \ {i} : fds[k].fd = x
                                         THEN f ELSE writebuf[x]]
    BY <1>7 DEF Chat!Read, Chat!At, Chat!GoOn
  <2>2. f \in Chat!Descs /\ f # Null
    BY <1>e, <2>1 DEF Chat!ChatAssumption
  <2>3. \A k \in DOMAIN fds : /\ fds'[k] \in Entry /\ fds'[k].fd = fds[k].fd
                              /\ fds'[k].events = IF k = i THEN fds[k].events ELSE {"OUT"}
    <3>1. \A k \in DOMAIN fds : (fds[k].events \ {"IN"}) \union {"OUT"} = {"OUT"}
      BY <1>t DEF EntriesWait
    <3> QED
      BY <1>e, <2>1, <3>1 DEF Entry
  <2>4. fds' \in Seq(Entry) /\ Len(fds') = Len(fds) /\ DOMAIN fds' = DOMAIN fds
    <3>1. fds' = [k \in 1 .. Len(fds) |-> fds'[k]]
      BY <1>e, <2>1
    <3> QED
      BY <1>e, <2>3, <3>1, IsASeq
  <2>5. ChatTypes'
    BY <1>t, <2>1, <2>2, <2>4 DEF ChatTypes
  <2>6. EntriesAreOpen'
    BY <1>t, <2>1, <2>3, <2>4 DEF EntriesAreOpen
  <2>7. ASSUME NEW k \in DOMAIN fds
        PROVE  \/ fds'[k].events = {"IN"}
               \/ fds'[k].events = {"OUT"} /\ writebuf'[fds'[k].fd] # Null
    <3>1. CASE k = i
      <4>1. writebuf'[f] = writebuf[f]
        BY <1>t, <2>1, <2>2 DEF EntriesAreOpen
      <4> QED
        BY <1>t, <2>3, <3>1, <4>1 DEF EntriesWait
    <3>2. CASE k # i
      BY <1>e, <2>1, <2>2, <2>3, <3>2
    <3> QED
      BY <3>1, <3>2
  <2> QED
    BY <2>4, <2>5, <2>6, <2>7 DEF PollInv, EntriesWait
<1>8. CASE Chat!Write
  <2> DEFINE f == fds[i].fd
  <2>1. i \in DOMAIN fds /\ i' \in Nat /\ pc' = pc /\ who' = who /\ buf' = buf
    BY <1>t, <1>8 DEF Chat!Write, Chat!At, Chat!GoOn, Chat!room, ChatTypes
  <2>2. CASE writebuf[f] = Null
    BY <1>t, <1>1, <1>8, <2>1, <2>2 DEF Chat!Write, Chat!room, ChatTypes
  <2>3. CASE writebuf[f] # Null
    <3>1. /\ writebuf' = [writebuf EXCEPT ![f] = Null]
          /\ fds' = [fds EXCEPT ![i].events = (@ \union {"IN"}) \ {"OUT"}]
      BY <1>8, <2>3 DEF Chat!Write
    <3>2. (fds[i].events \union {"IN"}) \ {"OUT"} = {"IN"}
      BY <1>t, <2>1 DEF EntriesWait
    <3>3. /\ \A k \in DOMAIN fds : k # i => fds'[k] = fds[k]
          /\ fds'[i].fd = f /\ fds'[i].events = {"IN"} /\ fds'[i] \in Entry
      BY <1>e, <2>1, <3>1, <3>2 DEF Entry
    <3>4. fds' \in Seq(Entry) /\ Len(fds') = Len(fds) /\ DOMAIN fds' = DOMAIN fds
      <4>1. fds' = [k \in 1 .. Len(fds) |-> fds'[k]]
        BY <1>e, <3>1
      <4> QED
        BY <1>e, <3>3, <4>1, IsASeq
    <3>5. ChatTypes'
      BY <1>t, <2>1, <3>1, <3>4 DEF ChatTypes
    <3>6. EntriesAreOpen'
      BY <1>t, <2>1, <3>3, <3>4 DEF EntriesAreOpen
    <3>7. EntriesWait'
      <4>1. \A k \in DOMAIN fds : k # i => writebuf'[fds[k].fd] = writebuf[fds[k].fd]
        BY <1>t, <1>e, <2>1, <3>1 DEF EntriesAreOpen, ChatTypes
      <4> QED
        BY <1>t, <3>3, <3>4, <4>1 DEF EntriesWait
    <3> QED
      BY <3>5, <3>6, <3>7 DEF PollInv
  <2> QED
    BY <2>2, <2>3
<1>9. CASE UNCHANGED chat
  BY <1>t, <1>1, <1>9 DEF chat, Chat!room, ChatTypes
<1> QED
  BY <1>2, <1>3, <1>4, <1>5, <1>6, <1>7, <1>8, <1>9 DEF Chat!Next, Chat!ServerStep

(* What poll waits for agrees with the open descriptors (chatroom_srv.c:84- *)
(* 121): the copy of the last user over the one that left, the broadcast    *)
(* and the write leave one entry for each, and no entry deaf.               *)
LEMMA PollInvAgrees == PollInv => Chat!EntriesAgree
<1> SUFFICES ASSUME PollInv PROVE Chat!EntriesAgree
  OBVIOUS
<1>1. {fds[k].fd : k \in DOMAIN fds} = {f \in Chat!Descs : who[f] # Null}
  BY EntryTypes DEF PollInv, EntriesAreOpen
<1> QED
  BY <1>1 DEF Chat!EntriesAgree, PollInv, EntriesAreOpen, EntriesWait

-----------------------------------------------------------------------------
(* The TCP echo clients *)

Clientpc == {"fgets", "write", "readline", "select", "sock", "stdin", "stdout", "sockw",
             "shut", "pause", "over", "done", "error"}

(* The types of the variables, and the pointers of str_cli_nblk in order. *)
EchoTypes ==
    /\ kind \in Echo!Kinds
    /\ typed \in Nat /\ in \in 0 .. Lines
    /\ out \in Seq(Nat) /\ toSrv \in Seq(Nat) /\ srv \in Seq(Nat) /\ toCli \in Seq(Nat)
    /\ line \in Seq(Nat) /\ read_buf \in Seq(Nat)
    /\ fin \in BOOLEAN /\ stdineof \in BOOLEAN /\ iseof \in BOOLEAN
    /\ server \in {"up", "closed", "killed"}
    /\ client \in Clientpc
    /\ reader \in {"none", "readline", "over"}
    /\ rset \in SUBSET {"sock", "stdin"} /\ wset \in SUBSET {"sock", "stdout"}
    /\ snd \in [1 .. MaxLine -> Nat] /\ rcv \in [1 .. MaxLine -> Nat]
    /\ sndo \in 0 .. MaxLine /\ sndi \in 0 .. MaxLine /\ sndo <= sndi
    /\ rcvo \in 0 .. MaxLine /\ rcvi \in 0 .. MaxLine /\ rcvo <= rcvi

(* Who uses which of the variables, and where a client can be. *)
Shapes ==
    /\ kind # "nblk" => sndo = sndi /\ rcvo = rcvi
    /\ kind \in {"str_cli3", "nblk"} => read_buf = <<>>
    /\ client = "write" => line # <<>>
    /\ line # <<>> => client = "write" \/ server = "killed"
    /\ kind = "str_cli" => client \in {"fgets", "write", "readline", "done", "error"}
    /\ kind \in Echo!Two => client \in {"fgets", "write", "shut", "pause", "over", "done", "error"}
    /\ "sock" \in rset =>
         /\ kind = "str_cli3" /\ client = "sock" => Echo!Readable
         /\ kind = "nblk" /\ client \in {"stdin", "sock"} => Echo!Readable

(* The end of the input: once it is passed on nothing is left to send, and *)
(* only then does the server close.                                        *)
Ends ==
    /\ stdineof => in = Lines
    /\ kind \in {"str_cli", "str_cli1"} => ~fin
    /\ kind \in {"str_cli3", "nblk"} => (fin => stdineof)
    /\ fin => in = Lines /\ sndo = sndi /\ (line = <<>> \/ server = "killed")
    /\ fin => client # "write"
    /\ server = "closed" => fin /\ srv = <<>> /\ toSrv = <<>>
    /\ Len(srv) <= 1

(* s holds the lines after line a. *)
Run(s, a) == \A k \in 1 .. Len(s) : s[k] = a + k

(* How many lines are shown, read by the client, and sent by the server. *)
AtOut == Len(out)
AtBuf == AtOut + Len(read_buf)
AtRcv == AtBuf + (rcvi - rcvo)
AtCli == AtRcv + Len(toCli)
AtSrv == AtCli + Len(srv)
AtSock == AtSrv + Len(toSrv)
AtSnd == AtSock + (sndi - sndo)

(* The lines the client has to show follow each other through its buffers  *)
(* and the socket's.                                                       *)
ComesBack ==
    /\ Run(out, 0) /\ Run(read_buf, AtOut) /\ Run(toCli, AtRcv)
    /\ \A k \in rcvo + 1 .. rcvi : rcv[k] = AtBuf + k - rcvo

(* The lines read from stdin are all somewhere, in order, unless the       *)
(* server was killed.                                                      *)
GoesThere ==
    /\ Run(srv, AtCli) /\ Run(toSrv, AtSrv) /\ Run(line, AtSnd)
    /\ \A k \in sndo + 1 .. sndi : snd[k] = AtSock + k - sndo
    /\ in = AtSnd + Len(line)

(* str_cli() waits for the answer to each line before it reads another. *)
LineByLine ==
    kind = "str_cli" =>
        /\ client = "fgets" => AtOut = in
        /\ client = "write" => AtOut + 1 = in /\ Len(line) = 1
        /\ client = "readline" => AtOut + 1 = in /\ line = <<>>

(* A client that ends by itself, as OutputIsEcho says. *)
Finished ==
    client = "done" /\ server # "killed" /\ kind \notin {"str_cli1", "nblk"} => AtOut = Lines

EchoInv ==
    /\ EchoTypes /\ Shapes /\ Ends /\ ComesBack
    /\ server # "killed" => GoesThere /\ LineByLine
    /\ Finished /\ Echo!ErrorMeansKilled

-----------------------------------------------------------------------------
(* The lines after line a, made at once. *)
LEMMA RunInterval ==
    ASSUME NEW a \in Nat, NEW n \in Nat
    PROVE  Echo!InSeq(a + 1, a + n) \in Seq(Nat) /\ Len(Echo!InSeq(a + 1, a + n)) = n /\ Run(Echo!InSeq(a + 1, a + n), a)
<1> DEFINE s == [k \in 1 .. n |-> a + k]
<1>1. Echo!InSeq(a + 1, a + n) = s
  <2>1. (a + n) - (a + 1) + 1 = n /\ \A k \in 1 .. n : (a + 1) + k - 1 = a + k
    OBVIOUS
  <2> QED
    BY <2>1 DEF Echo!InSeq
<1>2. s \in Seq(Nat) /\ Len(s) = n
  BY IsASeq
<1> QED
  BY <1>1, <1>2 DEF Run

(* One line more at the end. *)
LEMMA RunAppend ==
    ASSUME NEW s \in Seq(Nat), NEW a \in Nat, Run(s, a), NEW x, x = a + Len(s) + 1
    PROVE  /\ Append(s, x) \in Seq(Nat) /\ Len(Append(s, x)) = Len(s) + 1
           /\ Run(Append(s, x), a)
BY AppendProperties, LenProperties DEF Run

(* The first line taken away. *)
LEMMA RunTail ==
    ASSUME NEW s \in Seq(Nat), NEW a \in Nat, Run(s, a), s # <<>>
    PROVE  /\ Head(s) = a + 1 /\ Tail(s) \in Seq(Nat) /\ Len(s) >= 1
           /\ Len(Tail(s)) = Len(s) - 1 /\ Run(Tail(s), a + 1)
<1>1. Len(s) \in Nat /\ Len(s) >= 1 /\ Head(s) = s[1]
  BY LenProperties, EmptySeq
<1>2. Tail(s) \in Seq(Nat) /\ Len(Tail(s)) = Len(s) - 1 /\ \A k \in 1 .. Len(s) - 1 : Tail(s)[k] = s[k + 1]
  BY <1>1, HeadTailProperties
<1> QED
  BY <1>1, <1>2 DEF Run

(* Two pieces that follow each other. *)
LEMMA RunConcat ==
    ASSUME NEW s \in Seq(Nat), NEW t \in Seq(Nat), NEW a \in Nat, Run(s, a), Run(t, a + Len(s))
    PROVE  s \o t \in Seq(Nat) /\ Len(s \o t) = Len(s) + Len(t) /\ Run(s \o t, a)
<1>1. Len(s) \in Nat /\ Len(t) \in Nat
  BY LenProperties
<1>2. /\ s \o t \in Seq(Nat) /\ Len(s \o t) = Len(s) + Len(t)
      /\ \A k \in 1 .. Len(s) + Len(t) : (s \o t)[k] = IF k <= Len(s) THEN s[k] ELSE t[k - Len(s)]
  BY ConcatProperties
<1>3. ASSUME NEW k \in 1 .. Len(s) + Len(t), k > Len(s) PROVE t[k - Len(s)] = a + k
  <2>1. k - Len(s) \in 1 .. Len(t) /\ (a + Len(s)) + (k - Len(s)) = a + k
    BY <1>1, <1>3
  <2> QED
    BY <2>1 DEF Run
<1> QED
  BY <1>1, <1>2, <1>3 DEF Run

(* A piece cut in two. *)
LEMMA RunSub ==
    ASSUME NEW s \in Seq(Nat), NEW a \in Nat, Run(s, a), NEW n \in 0 .. Len(s)
    PROVE  /\ SubSeq(s, 1, n) \in Seq(Nat) /\ Len(SubSeq(s, 1, n)) = n /\ Run(SubSeq(s, 1, n), a)
           /\ SubSeq(s, n + 1, Len(s)) \in Seq(Nat) /\ Len(SubSeq(s, n + 1, Len(s))) = Len(s) - n
           /\ Run(SubSeq(s, n + 1, Len(s)), a + n)
<1>1. Len(s) \in Nat /\ n \in Nat /\ n <= Len(s)
  BY LenProperties
<1>2. /\ SubSeq(s, 1, n) \in Seq(Nat) /\ Len(SubSeq(s, 1, n)) = n
      /\ \A k \in 1 .. n : SubSeq(s, 1, n)[k] = s[k]
  <2>1. 1 \in Int /\ n \in Int /\ (IF 1 <= n THEN n - 1 + 1 ELSE 0) = n /\ \A k \in 1 .. n : 1 + k - 1 = k
    BY <1>1
  <2>2. \A k \in 1 .. n : s[k] \in Nat
    BY <1>1, ElementOfSeq
  <2> QED
    BY <2>1, <2>2, SubSeqProperties
<1>3. /\ SubSeq(s, n + 1, Len(s)) \in Seq(Nat) /\ Len(SubSeq(s, n + 1, Len(s))) = Len(s) - n
      /\ \A k \in 1 .. Len(s) - n : SubSeq(s, n + 1, Len(s))[k] = s[n + k]
  <2>1. PICK m \in Int, l \in Int : m = n + 1 /\ l = Len(s)
    BY <1>1
  <2>2. \A k \in m .. l : s[k] \in Nat
    BY <1>1, <2>1, ElementOfSeq
  <2>3. /\ SubSeq(s, m, l) \in Seq(Nat) /\ Len(SubSeq(s, m, l)) = IF m <= l THEN l - m + 1 ELSE 0
        /\ \A k \in 1 .. l - m + 1 : SubSeq(s, m, l)[k] = s[m + k - 1]
    BY <2>2, SubSeqProperties
  <2>4. l - m + 1 = Len(s) - n /\ (IF m <= l THEN l - m + 1 ELSE 0) = Len(s) - n
    BY <1>1, <2>1
  <2>5. \A k \in 1 .. Len(s) - n : m + k - 1 = n + k
    BY <1>1, <2>1
  <2> QED
    BY <2>1, <2>3, <2>4, <2>5
<1> QED
  BY <1>1, <1>2, <1>3 DEF Run

(* What is between two pointers. *)
LEMMA Between ==
    \A a, b \in Nat : \A k \in a + 1 .. b : k \in Int /\ a + 1 <= k /\ k <= b /\ a # b
OBVIOUS

(* No line, and one. *)
LEMMA RunShort ==
    /\ \A a \in Nat : Run(<<>>, a)
    /\ \A s \in Seq(Nat) : Len(s) \in Nat /\ (s = <<>> <=> Len(s) = 0)
    /\ \A x \in Nat : <<x>> \in Seq(Nat) /\ Len(<<x>>) = 1 /\ <<x>> # <<>>
    /\ \A a \in Nat : Run(<<a + 1>>, a)
    /\ <<>> \in Seq(Nat) /\ Len(<<>>) = 0
BY EmptySeq, LenProperties DEF Run

-----------------------------------------------------------------------------
(* fgets() and read() of stdin: the next lines of the input. *)
LEMMA FgetsEffect ==
    ASSUME Echo!ClientAssumption, EchoTypes, NEW most \in Nat \ {0}, NEW next, Echo!Fgets(most, next)
    PROVE  /\ line' \in Seq(Nat) /\ line' # <<>> /\ Run(line', in)
           /\ in' \in 0 .. Lines /\ in' = in + Len(line') /\ Len(line') <= most /\ in < Lines
<1>1. PICK n \in 1 .. Echo!Least(most, Echo!Least(typed, Lines) - in) :
        line' = Echo!InSeq(in + 1, in + n) /\ in' = in + n /\ in < Lines /\ typed > in
  BY DEF Echo!Fgets, Echo!HasInput
<1>2. Lines \in Nat /\ in \in Nat /\ typed \in Nat
  BY DEF Echo!ClientAssumption, EchoTypes
<1>3. n \in Nat /\ n >= 1 /\ n <= most /\ in + n <= Lines
  BY <1>1, <1>2 DEF Echo!Least
<1>4. line' \in Seq(Nat) /\ Len(line') = n /\ Run(line', in)
  BY <1>1, <1>2, <1>3, RunInterval
<1> QED
  BY <1>1, <1>2, <1>3, <1>4, RunShort

(* readline(): one line more on stdout, one less on the way. *)
LEMMA ReadLineEffect ==
    ASSUME EchoTypes, ComesBack, rcvi = rcvo, Echo!ReadLine
    PROVE  /\ out' \in Seq(Nat) /\ read_buf' \in Seq(Nat) /\ toCli' \in Seq(Nat)
           /\ Len(out') = Len(out) + 1
           /\ Len(read_buf') + Len(toCli') + 1 = Len(read_buf) + Len(toCli)
           /\ Run(out', 0) /\ Run(read_buf', Len(out'))
           /\ Run(toCli', Len(out') + Len(read_buf'))
<1>1. /\ out \in Seq(Nat) /\ read_buf \in Seq(Nat) /\ toCli \in Seq(Nat) /\ rcvi - rcvo = 0
      /\ Len(out) \in Nat /\ Len(read_buf) \in Nat /\ Len(toCli) \in Nat
  BY RunShort DEF EchoTypes
<1>2. /\ Run(out, 0) /\ Run(read_buf, Len(out))
      /\ Run(toCli, Len(out) + Len(read_buf))
  BY <1>1 DEF ComesBack, AtOut, AtBuf, AtRcv
<1>3. CASE read_buf # <<>>
  <2>1. /\ out' = Append(out, Head(read_buf)) /\ read_buf' = Tail(read_buf) /\ toCli' = toCli
    BY <1>3 DEF Echo!ReadLine
  <2>2. /\ Head(read_buf) = Len(out) + 1 /\ read_buf' \in Seq(Nat) /\ Len(read_buf) >= 1
        /\ Len(read_buf') = Len(read_buf) - 1 /\ Run(read_buf', Len(out) + 1)
    BY <1>1, <1>2, <1>3, <2>1, RunTail
  <2>3. out' \in Seq(Nat) /\ Len(out') = Len(out) + 1 /\ Run(out', 0)
    BY <1>1, <1>2, <2>1, <2>2, RunAppend
  <2>4. Len(out') + Len(read_buf') = Len(out) + Len(read_buf)
    BY <1>1, <2>2, <2>3
  <2> QED
    BY <1>1, <1>2, <2>1, <2>2, <2>3, <2>4
<1>4. CASE read_buf = <<>>
  <2>1. /\ toCli # <<>> /\ out' = Append(out, Head(toCli)) /\ read_buf' = Tail(toCli) /\ toCli' = <<>>
        /\ Len(read_buf) = 0
    BY <1>4, RunShort DEF Echo!ReadLine
  <2>2. /\ Head(toCli) = Len(out) + 1 /\ read_buf' \in Seq(Nat) /\ Len(toCli) >= 1
        /\ Len(read_buf') = Len(toCli) - 1 /\ Run(read_buf', Len(out) + 1)
    BY <1>1, <1>2, <2>1, RunTail
  <2>3. out' \in Seq(Nat) /\ Len(out') = Len(out) + 1 /\ Run(out', 0)
    BY <1>1, <1>2, <2>1, <2>2, RunAppend
  <2>4. toCli' \in Seq(Nat) /\ Len(toCli') = 0 /\ Run(toCli', Len(out') + Len(read_buf'))
    BY <1>1, <2>1, <2>2, <2>3, RunShort
  <2> QED
    BY <1>1, <2>1, <2>2, <2>3, <2>4
<1> QED
  BY <1>3, <1>4

-----------------------------------------------------------------------------
(* Before the first line is typed. *)
LEMMA EchoInit == Echo!ClientAssumption /\ Echo!Init => EchoInv
<1> SUFFICES ASSUME Echo!ClientAssumption, Echo!Init PROVE EchoInv
  OBVIOUS
<1>a. MaxLine \in Nat /\ Lines \in Nat
  BY DEF Echo!ClientAssumption
<1>b. /\ kind \in Echo!Kinds /\ client \in Clientpc /\ reader \in {"none", "readline", "over"}
      /\ server = "up" /\ rset = {} /\ wset = {} /\ ~fin /\ ~stdineof /\ ~iseof
  BY DEF Echo!Init, Echo!Kinds, Echo!Two, Clientpc
<1>c. /\ typed = 0 /\ in = 0 /\ sndo = 0 /\ sndi = 0 /\ rcvo = 0 /\ rcvi = 0
      /\ snd \in [1 .. MaxLine -> Nat] /\ rcv \in [1 .. MaxLine -> Nat]
  BY DEF Echo!Init
<1>d. /\ out = <<>> /\ toSrv = <<>> /\ srv = <<>> /\ toCli = <<>> /\ line = <<>> /\ read_buf = <<>>
      /\ <<>> \in Seq(Nat)
  BY RunShort DEF Echo!Init
<1>e. fin \in BOOLEAN /\ stdineof \in BOOLEAN /\ iseof \in BOOLEAN
  BY DEF Echo!Init
<1>1. EchoTypes
  BY <1>a, <1>b, <1>c, <1>d, <1>e DEF EchoTypes
<1>2. Shapes /\ Ends
  BY <1>1 DEF Echo!Init, Shapes, Ends, Echo!Kinds, Echo!Two
<1>3. ComesBack /\ GoesThere
  BY <1>1, RunShort DEF Echo!Init, ComesBack, GoesThere, AtOut, AtBuf, AtRcv, AtCli, AtSrv,
     AtSock, AtSnd
<1>4. LineByLine /\ Finished /\ Echo!ErrorMeansKilled
  BY <1>1, RunShort DEF Echo!Init, LineByLine, Finished, Echo!ErrorMeansKilled, AtOut,
     Echo!Kinds, Echo!Two
<1> QED
  BY <1>1, <1>2, <1>3, <1>4 DEF EchoInv

(* The lengths that the positions are made of. *)
LEMMA Lengths ==
    ASSUME EchoTypes
    PROVE  /\ Len(out) \in Nat /\ Len(read_buf) \in Nat /\ Len(toCli) \in Nat /\ Len(srv) \in Nat
           /\ Len(toSrv) \in Nat /\ Len(line) \in Nat /\ in \in Nat
           /\ rcvo \in Nat /\ rcvi \in Nat /\ rcvo <= rcvi
           /\ sndo \in Nat /\ sndi \in Nat /\ sndo <= sndi
BY RunShort DEF EchoTypes

(* Fgets() is one step of the invariant, whatever the client. *)
LEMMA FgetsStep ==
    ASSUME Echo!ClientAssumption, EchoInv, NEW most \in Nat \ {0}, NEW next, Echo!Fgets(most, next),
           next = "write", client \in {"fgets", "stdin"}, kind # "nblk",
           kind = "str_cli" => most = 1
    PROVE  EchoInv'
<1>0. EchoTypes /\ Shapes /\ Ends /\ ComesBack /\ Finished /\ Echo!ErrorMeansKilled
  BY DEF EchoInv
<1>1. /\ line' \in Seq(Nat) /\ line' # <<>> /\ Run(line', in)
      /\ in' \in 0 .. Lines /\ in' = in + Len(line') /\ Len(line') <= most /\ in < Lines
      /\ Len(line') \in Nat /\ Len(line') > 0
  BY <1>0, FgetsEffect, RunShort
<1>2. UNCHANGED <<kind, Echo!world, out, fin, read_buf, Echo!sel, Echo!nblk, Echo!two>> /\ client' = "write"
  BY DEF Echo!Fgets
<1>3. EchoTypes'
  BY <1>0, <1>1, <1>2 DEF EchoTypes, Echo!world, Echo!sel, Echo!nblk, Echo!two, Clientpc
<1>4. ~fin
  BY <1>0, <1>1 DEF Ends, EchoTypes
<1>5. Shapes'
  BY <1>0, <1>1, <1>2 DEF Shapes, Echo!world, Echo!sel, Echo!nblk, Echo!two, EchoTypes
<1>6. Ends'
  BY <1>0, <1>1, <1>2, <1>4 DEF Ends, Echo!world, Echo!sel, Echo!nblk, Echo!two, EchoTypes
<1>7. ComesBack'
  BY <1>0, <1>2 DEF ComesBack, AtOut, AtBuf, AtRcv, Echo!world, Echo!sel, Echo!nblk, Echo!two, Run
<1>8. ASSUME server' # "killed" PROVE GoesThere' /\ LineByLine'
  <2>1. GoesThere /\ LineByLine
    BY <1>2, <1>8 DEF EchoInv, Echo!world
  <2>2. line = <<>> /\ Len(line) = 0 /\ AtSnd = in
    <3>1. line = <<>>
      BY <1>0, <1>2, <1>8 DEF Shapes, Echo!world
    <3> QED
      BY <2>1, <3>1, <1>0, Lengths, RunShort
         DEF GoesThere, AtOut, AtBuf, AtRcv, AtCli, AtSrv, AtSock, AtSnd
  <2>3. /\ AtSnd' = AtSnd /\ AtCli' = AtCli /\ AtSrv' = AtSrv /\ AtSock' = AtSock /\ AtOut' = AtOut
    BY <1>2 DEF AtOut, AtBuf, AtRcv, AtCli, AtSrv, AtSock, AtSnd, Echo!world, Echo!sel,
       Echo!nblk, Echo!two
  <2>4. GoesThere'
    BY <1>1, <1>2, <2>1, <2>2, <2>3 DEF GoesThere, Echo!world, Echo!nblk, Run
  <2>5. LineByLine'
    <3>1. AtOut \in Nat /\ in \in Nat
      BY <1>0, Lengths DEF AtOut
    <3>2. kind = "str_cli" => client = "fgets" /\ Len(line') = 1
      BY <1>0, <1>1 DEF Shapes
    <3> QED
      BY <1>1, <1>2, <2>1, <2>3, <3>1, <3>2 DEF LineByLine
  <2> QED
    BY <2>4, <2>5
<1>9. Finished' /\ Echo!ErrorMeansKilled'
  BY <1>2 DEF Finished, Echo!ErrorMeansKilled
<1> QED
  BY <1>3, <1>5, <1>6, <1>7, <1>8, <1>9 DEF EchoInv

(* A step that moves no line. *)
LEMMA NothingMoves ==
    ASSUME UNCHANGED <<out, read_buf, toCli, srv, toSrv, line, in, snd, sndo, sndi, rcv, rcvo, rcvi>>
    PROVE  /\ ComesBack => ComesBack'
           /\ GoesThere => GoesThere'
           /\ AtOut' = AtOut
BY DEF ComesBack, GoesThere, Run, AtOut, AtBuf, AtRcv, AtCli, AtSrv, AtSock, AtSnd

(* readline() moves one. *)
LEMMA ReadLineMoves ==
    ASSUME EchoTypes, ComesBack, rcvi = rcvo, Echo!ReadLine, UNCHANGED <<in, line, Echo!nblk>>
    PROVE  /\ out' \in Seq(Nat) /\ read_buf' \in Seq(Nat) /\ toCli' \in Seq(Nat)
           /\ UNCHANGED <<typed, toSrv, srv, server>>
           /\ ComesBack'
           /\ GoesThere => GoesThere'
           /\ AtOut' = AtOut + 1
<1>1. /\ out' \in Seq(Nat) /\ read_buf' \in Seq(Nat) /\ toCli' \in Seq(Nat)
      /\ Len(out') = Len(out) + 1
      /\ Len(read_buf') + Len(toCli') + 1 = Len(read_buf) + Len(toCli)
      /\ Run(out', 0) /\ Run(read_buf', Len(out'))
      /\ Run(toCli', Len(out') + Len(read_buf'))
      /\ Len(out') \in Nat /\ Len(read_buf') \in Nat /\ Len(toCli') \in Nat
  BY ReadLineEffect, RunShort
<1>2. UNCHANGED <<typed, toSrv, srv, server, in, line, snd, sndo, sndi, rcv, rcvo, rcvi>>
  BY DEF Echo!ReadLine, Echo!nblk
<1>3. /\ rcvo' \in Nat /\ rcvi' \in Nat /\ rcvi' = rcvo' /\ Len(out) \in Nat
      /\ Len(read_buf) \in Nat /\ Len(toCli) \in Nat
      /\ Len(srv) \in Nat /\ Len(toSrv) \in Nat
  BY <1>2, Lengths
<1>4. ComesBack'
  <2>1. AtOut' = Len(out') /\ AtRcv' = Len(out') + Len(read_buf')
    BY <1>1, <1>3 DEF AtOut, AtBuf, AtRcv
  <2>2. rcvo' + 1 .. rcvi' = {}
    <3>1. PICK n \in Nat : rcvi' = n /\ rcvo' = n
      BY <1>3
    <3> QED
      BY <3>1
  <2> QED
    BY <1>1, <2>1, <2>2 DEF ComesBack
<1>5. AtCli' = AtCli
  <2>1. rcvi - rcvo = 0 /\ rcvi' - rcvo' = 0
    BY <1>2, <1>3, Lengths
  <2>2. /\ AtCli = Len(out) + Len(read_buf) + 0 + Len(toCli)
        /\ AtCli' = Len(out') + Len(read_buf') + 0 + Len(toCli')
    BY <2>1 DEF AtCli, AtOut, AtBuf, AtRcv
  <2> QED
    BY <1>1, <1>3, <2>2
<1>6. GoesThere => GoesThere'
  BY <1>2, <1>5 DEF GoesThere, AtSrv, AtSock, AtSnd, Run
<1> QED
  BY <1>1, <1>2, <1>4, <1>6 DEF AtOut

(* So does write(), unless the server was killed. *)
LEMMA WriteLineMoves ==
    ASSUME EchoTypes, server # "closed", line # <<>>, sndo = sndi, Echo!Arrives(line, 1), line' = Tail(line),
           UNCHANGED <<in, out, read_buf, Echo!nblk>>
    PROVE  /\ toSrv' \in Seq(Nat) /\ line' \in Seq(Nat) /\ Len(line') = Len(line) - 1
           /\ ComesBack => ComesBack'
           /\ server = "up" /\ GoesThere => GoesThere'
           /\ AtOut' = AtOut
<1>1. UNCHANGED <<typed, srv, toCli, server, in, out, read_buf, snd, sndo, sndi, rcv, rcvo, rcvi>>
  BY DEF Echo!Arrives, Echo!nblk
<1>2. /\ line \in Seq(Nat) /\ toSrv \in Seq(Nat) /\ Len(line) \in Nat /\ 1 \in 0 .. Len(line)
      /\ Len(toSrv) \in Nat /\ Len(line) # 0
  BY RunShort DEF EchoTypes
<1>3. line' \in Seq(Nat) /\ Len(line') = Len(line) - 1
  BY <1>2, HeadTailProperties
<1>4. SubSeq(line, 1, 1) \in Seq(Nat) /\ Len(SubSeq(line, 1, 1)) = 1
  <2>1. \E a \in Int : a = 1 /\ \A k \in a .. a : line[k] \in Nat
    BY <1>2, ElementOfSeq
  <2> QED
    BY <2>1, SubSeqProperties
<1>5. toSrv' \in Seq(Nat)
  BY <1>2, <1>4, ConcatProperties DEF Echo!Arrives
<1>6. (ComesBack => ComesBack') /\ AtOut' = AtOut /\ AtSrv' = AtSrv /\ AtCli' = AtCli
  BY <1>1 DEF ComesBack, Run, AtOut, AtBuf, AtRcv, AtCli, AtSrv
<1>7. ASSUME server = "up", GoesThere PROVE GoesThere'
  <2>1. AtSrv \in Nat /\ AtSock = AtSrv + Len(toSrv) /\ AtSnd = AtSock
    BY Lengths DEF AtOut, AtBuf, AtRcv, AtCli, AtSrv, AtSock, AtSnd
  <2>2. Run(toSrv, AtSrv) /\ Run(line, AtSnd) /\ in = AtSnd + Len(line) /\ Run(srv, AtCli)
    BY <1>7 DEF GoesThere
  <2>3. toSrv' = toSrv \o SubSeq(line, 1, 1)
    BY <1>7 DEF Echo!Arrives
  <2>4. Run(SubSeq(line, 1, 1), AtSnd) /\ Run(line', AtSnd + 1)
    BY <1>2, <2>1, <2>2, RunSub, RunTail
  <2>5. Len(toSrv') = Len(toSrv) + 1 /\ Run(toSrv', AtSrv)
    BY <1>2, <1>4, <2>1, <2>2, <2>3, <2>4, RunConcat
  <2>6. AtSock' = AtSock + 1 /\ AtSnd' = AtSnd + 1
    BY <1>1, <1>2, <1>6, <2>1, <2>5, Lengths DEF AtSock, AtSnd
  <2>7. in' = AtSnd' + Len(line')
    BY <1>1, <1>2, <1>3, <2>1, <2>2, <2>6
  <2>8. \A k \in sndo' + 1 .. sndi' : FALSE
    BY <1>1, Lengths
  <2>9. Run(srv', AtCli') /\ Run(toSrv', AtSrv') /\ Run(line', AtSnd')
    BY <1>1, <1>6, <2>2, <2>4, <2>5, <2>6
  <2> QED
    BY <2>7, <2>8, <2>9 DEF GoesThere
<1> QED
  BY <1>3, <1>5, <1>6, <1>7

(* write() of a line, in every client but str_cli_nblk. *)
LEMMA WriteLineStep ==
    ASSUME EchoInv, NEW next, Echo!WriteLine(next), kind # "nblk",
           \/ next = "readline" /\ kind = "str_cli"
           \/ next = "select" /\ kind \in {"str_cli1", "str_cli3"}
           \/ next = "fgets" /\ kind \in Echo!Two
    PROVE  EchoInv'
<1>0. EchoTypes /\ Shapes /\ Ends /\ ComesBack /\ Finished /\ Echo!ErrorMeansKilled
  BY DEF EchoInv
<1>1. /\ UNCHANGED <<kind, in, out, fin, read_buf, Echo!sel, Echo!nblk, Echo!two>> /\ client = "write"
      /\ line \in Seq(Nat) /\ Len(line) \in Nat /\ line # <<>> /\ Len(line) # 0
  BY <1>0, RunShort DEF Echo!WriteLine, Shapes, EchoTypes
<1>2. /\ ~fin /\ server # "closed"
  BY <1>0, <1>1 DEF Ends
<1>3. CASE /\ Echo!Arrives(line, 1) /\ line' = Tail(line)
           /\ client' = IF Len(line) = 1 THEN next ELSE client
  <2>1. /\ toSrv' \in Seq(Nat) /\ line' \in Seq(Nat) /\ Len(line') = Len(line) - 1
        /\ ComesBack'
        /\ server = "up" /\ GoesThere => GoesThere'
        /\ AtOut' = AtOut
    BY <1>0, <1>1, <1>2, <1>3, WriteLineMoves DEF Shapes
  <2>2. UNCHANGED <<typed, srv, toCli, server>>
    BY <1>3 DEF Echo!Arrives
  <2>3. line' = <<>> <=> Len(line) = 1
    <3>1. Len(line') \in Nat /\ (line' = <<>> <=> Len(line') = 0)
      BY <2>1, RunShort
    <3> QED
      BY <1>1, <2>1, <3>1
  <2>4. (client' = next /\ line' = <<>>) \/ (client' = "write" /\ line' # <<>>)
    <3>1. CASE Len(line) = 1
      <4>1. client' = next
        BY <1>3, <3>1
      <4> QED
        BY <2>3, <3>1, <4>1
    <3>2. CASE Len(line) # 1
      BY <1>1, <1>3, <2>3, <3>2
    <3> QED
      BY <3>1, <3>2
  <2>5. EchoTypes'
    BY <1>0, <1>1, <2>1, <2>2, <2>4 DEF EchoTypes, Echo!sel, Echo!nblk, Echo!two, Clientpc
  <2>6. Shapes'
    BY <1>0, <1>1, <1>2, <2>2, <2>4 DEF Shapes, Echo!sel, Echo!nblk, Echo!two, Echo!Two, EchoTypes
  <2>7. Ends'
    BY <1>0, <1>1, <1>2, <2>2 DEF Ends, Echo!sel, Echo!nblk
  <2>8. ASSUME server' # "killed" PROVE GoesThere' /\ LineByLine'
    <3>1. server = "up" /\ GoesThere /\ LineByLine
      BY <1>0, <1>2, <2>2, <2>8 DEF EchoInv, EchoTypes
    <3> QED
      BY <1>1, <2>1, <2>4, <3>1 DEF LineByLine, Echo!Two
  <2>9. Finished' /\ Echo!ErrorMeansKilled'
    BY <2>4 DEF Finished, Echo!ErrorMeansKilled
  <2> QED
    BY <2>1, <2>5, <2>6, <2>7, <2>8, <2>9 DEF EchoInv
<1>4. CASE Echo!Fails /\ UNCHANGED <<Echo!world, line>>
  <2>1. /\ server' = "killed" /\ server = "killed" /\ client' = "error"
        /\ UNCHANGED <<typed, toSrv, srv, toCli, line>>
    BY <1>4 DEF Echo!Fails, Echo!world
  <2>2. EchoTypes'
    BY <1>0, <1>1, <2>1 DEF EchoTypes, Echo!sel, Echo!nblk, Echo!two, Clientpc
  <2>3. Shapes' /\ Ends'
    BY <1>0, <1>1, <2>1 DEF Shapes, Ends, Echo!sel, Echo!nblk
  <2>4. ComesBack'
    BY <1>0, <1>1, <2>1, NothingMoves DEF Echo!nblk
  <2> QED
    BY <2>1, <2>2, <2>3, <2>4 DEF EchoInv, Finished, Echo!ErrorMeansKilled
<1> QED
  BY <1>3, <1>4 DEF Echo!WriteLine

-----------------------------------------------------------------------------
(* The user, and the server. *)
LEMMA WorldStep == EchoInv /\ (Echo!Type \/ Echo!SrvStep \/ Echo!Killed) => EchoInv'
<1> SUFFICES ASSUME EchoInv, Echo!Type \/ Echo!SrvStep \/ Echo!Killed
             PROVE  EchoInv'
  OBVIOUS
<1>0. EchoTypes /\ Shapes /\ Ends /\ ComesBack /\ Finished /\ Echo!ErrorMeansKilled
  BY DEF EchoInv
<1>l. /\ Len(out) \in Nat /\ Len(read_buf) \in Nat /\ Len(toCli) \in Nat /\ Len(srv) \in Nat
      /\ Len(toSrv) \in Nat /\ Len(line) \in Nat /\ in \in Nat
      /\ rcvo \in Nat /\ rcvi \in Nat /\ rcvo <= rcvi
      /\ sndo \in Nat /\ sndi \in Nat /\ sndo <= sndi
  BY <1>0, Lengths
<1>n. /\ AtOut \in Nat /\ AtRcv \in Nat /\ AtCli = AtRcv + Len(toCli)
      /\ AtSrv = AtCli + Len(srv) /\ AtSock = AtSrv + Len(toSrv)
  BY <1>l DEF AtOut, AtBuf, AtRcv, AtCli, AtSrv, AtSock
<1>1. CASE Echo!Type
  <2>1. /\ UNCHANGED <<kind, toSrv, srv, toCli, server, in, out, fin, client, line, read_buf, Echo!sel, Echo!nblk, Echo!two>>
        /\ typed' = typed + 1
    BY <1>1 DEF Echo!Type
  <2>2. EchoTypes' /\ Shapes' /\ Ends' /\ Finished' /\ Echo!ErrorMeansKilled' /\ (LineByLine => LineByLine')
    BY <1>0, <2>1 DEF EchoTypes, Shapes, Ends, Finished, Echo!ErrorMeansKilled, LineByLine,
       Echo!sel, Echo!nblk, Echo!two, AtOut,
                      Echo!Readable
  <2> QED
    BY <1>0, <2>1, <2>2, NothingMoves DEF EchoInv, Echo!nblk
<1>2. CASE Echo!SrvRead
  <2>1. /\ server = "up" /\ srv = <<>> /\ toSrv # <<>> /\ srv' = <<Head(toSrv)>> /\ toSrv' = Tail(toSrv)
        /\ UNCHANGED <<kind, typed, toCli, server, in, out, fin, client, line, read_buf, Echo!sel, Echo!nblk, Echo!two>>
    BY <1>2 DEF Echo!SrvRead
  <2>2. toSrv \in Seq(Nat) /\ Head(toSrv) \in Nat /\ toSrv' \in Seq(Nat) /\ Len(toSrv') + 1 = Len(toSrv)
    <3>1. toSrv \in Seq(Nat)
      BY <1>0 DEF EchoTypes
    <3>2. Head(toSrv) \in Nat /\ Tail(toSrv) \in Seq(Nat) /\ Len(Tail(toSrv)) = Len(toSrv) - 1
      BY <2>1, <3>1, HeadTailProperties
    <3> QED
      BY <1>l, <2>1, <3>1, <3>2
  <2>3. srv' \in Seq(Nat) /\ Len(srv') = 1 /\ Len(srv) = 0
    BY <2>1, <2>2, RunShort
  <2>4. EchoTypes'
    BY <1>0, <2>1, <2>2, <2>3 DEF EchoTypes, Echo!sel, Echo!nblk, Echo!two
  <2>5. Shapes' /\ Ends' /\ Finished' /\ Echo!ErrorMeansKilled' /\ LineByLine'
    BY <1>0, <2>1 DEF EchoInv, Shapes, Ends, Finished, Echo!ErrorMeansKilled, LineByLine,
       Echo!sel, Echo!nblk, Echo!two, AtOut,
                      Echo!Readable
  <2>6. ComesBack' /\ AtCli' = AtCli
    BY <1>0, <2>1 DEF ComesBack, AtOut, AtBuf, AtRcv, AtCli, Run, Echo!nblk
  <2>7. AtSrv' = AtSrv + 1 /\ AtSock' = AtSock /\ AtSnd' = AtSnd
    <3>1. Len(toSrv') \in Nat
      BY <2>2, RunShort
    <3>2. AtSrv' = AtSrv + 1 /\ AtSock' = AtSock
      <4>1. AtCli \in Nat /\ AtSrv = AtCli + 0 /\ AtSrv' = AtCli + 1
        BY <1>l, <1>n, <2>3, <2>6 DEF AtSrv
      <4>2. AtSrv \in Nat /\ AtSrv' = AtSrv + 1
        BY <4>1
      <4>3. AtSock' = AtSrv' + Len(toSrv')
        BY DEF AtSock
      <4> QED
        BY <1>l, <1>n, <2>2, <3>1, <4>2, <4>3
    <3> QED
      BY <2>1, <3>2 DEF AtSnd, Echo!nblk
  <2>8. GoesThere'
    <3>1. GoesThere /\ AtSrv = AtCli /\ AtCli \in Nat
      BY <1>0, <1>l, <1>n, <2>1, <2>3 DEF EchoInv
    <3>2. Head(toSrv) = AtSrv + 1 /\ Run(Tail(toSrv), AtSrv + 1)
      BY <2>1, <2>2, <3>1, RunTail DEF GoesThere
    <3>3. Run(srv', AtCli') /\ Run(toSrv', AtSrv')
      BY <2>1, <2>6, <2>7, <3>1, <3>2, RunShort
    <3> QED
      BY <2>1, <2>7, <3>1, <3>3 DEF GoesThere, Echo!nblk
  <2> QED
    BY <2>4, <2>5, <2>6, <2>8 DEF EchoInv
<1>3. CASE Echo!SrvWrite
  <2>1. /\ server = "up" /\ srv # <<>> /\ srv' = <<>> /\ toCli' = Append(toCli, Head(srv))
        /\ UNCHANGED <<kind, typed, toSrv, server, in, out, fin, client, line, read_buf, Echo!sel, Echo!nblk, Echo!two>>
    BY <1>3 DEF Echo!SrvWrite
  <2>2. /\ srv \in Seq(Nat) /\ toCli \in Seq(Nat) /\ Head(srv) \in Nat
        /\ toCli' \in Seq(Nat) /\ Len(toCli') = Len(toCli) + 1
    <3>1. srv \in Seq(Nat) /\ toCli \in Seq(Nat)
      BY <1>0 DEF EchoTypes
    <3>2. Head(srv) \in Nat
      BY <2>1, <3>1, HeadTailProperties
    <3> QED
      BY <2>1, <3>1, <3>2, AppendProperties
  <2>3. srv' \in Seq(Nat) /\ Len(srv') = 0
    BY <2>1, RunShort
  <2>4. EchoTypes'
    BY <1>0, <2>1, <2>2, <2>3 DEF EchoTypes, Echo!sel, Echo!nblk, Echo!two
  <2>5. toCli' # <<>>
    BY <1>l, <2>2, <2>3, RunShort
  <2>6. Shapes' /\ Ends' /\ Finished' /\ Echo!ErrorMeansKilled' /\ LineByLine'
    BY <1>0, <2>1, <2>5 DEF EchoInv, Shapes, Ends, Finished, Echo!ErrorMeansKilled, LineByLine,
       Echo!sel, Echo!nblk, Echo!two, AtOut, Echo!Readable
  <2>7. UNCHANGED <<AtOut, AtBuf, AtRcv>>
    BY <2>1 DEF AtOut, AtBuf, AtRcv, Echo!nblk
  <2>8. /\ GoesThere /\ Run(srv, AtCli) /\ Run(toCli, AtRcv)
        /\ Run(out, 0) /\ Run(read_buf, AtOut)
        /\ \A k \in rcvo + 1 .. rcvi : rcv[k] = AtBuf + k - rcvo
    BY <1>0, <2>1 DEF EchoInv, GoesThere, ComesBack
  <2>9. /\ Len(srv) = 1 /\ Head(srv) = AtCli + 1
    <3>1. Head(srv) = AtCli + 1
      BY <1>l, <1>n, <2>1, <2>2, <2>8, RunTail
    <3>2. Len(srv) = 1
      <4>1. Len(srv) # 0
        BY <2>1, <2>2, RunShort
      <4>2. Len(srv) <= 1
        BY <1>0 DEF Ends
      <4>3. Len(srv) \in Nat /\ \A q \in Nat : q # 0 /\ q <= 1 => q = 1
        BY <1>l
      <4> QED
        BY <4>1, <4>2, <4>3
    <3> QED
      BY <3>1, <3>2
  <2>10. ComesBack'
    <3>1. Run(toCli', AtRcv)
      BY <1>n, <2>1, <2>2, <2>8, <2>9, RunAppend
    <3> QED
      BY <2>1, <2>7, <2>8, <3>1 DEF ComesBack, Echo!nblk
  <2>11. GoesThere'
    <3>1. AtCli' = AtCli + 1 /\ AtSrv' = AtSrv
      BY <1>l, <1>n, <2>2, <2>3, <2>7, <2>9 DEF AtCli, AtSrv
    <3>2. AtSock' = AtSock /\ AtSnd' = AtSnd
      BY <2>1, <3>1 DEF AtSock, AtSnd, Echo!nblk
    <3>3. Run(srv', AtCli')
      BY <1>l, <1>n, <2>1, <3>1, RunShort
    <3> QED
      BY <2>1, <2>8, <3>1, <3>2, <3>3 DEF GoesThere, Echo!nblk
  <2> QED
    BY <2>4, <2>6, <2>10, <2>11 DEF EchoInv
<1>4. CASE Echo!SrvEnd
  <2>1. /\ server = "up" /\ srv = <<>> /\ toSrv = <<>> /\ fin /\ server' = "closed"
        /\ UNCHANGED <<kind, typed, toSrv, srv, toCli, in, out, fin, client, line, read_buf, Echo!sel, Echo!nblk, Echo!two>>
    BY <1>4 DEF Echo!SrvEnd
  <2>2. EchoTypes'
    BY <1>0, <2>1 DEF EchoTypes, Echo!sel, Echo!nblk, Echo!two
  <2>3. Shapes' /\ Ends' /\ Finished' /\ Echo!ErrorMeansKilled' /\ LineByLine'
    BY <1>0, <2>1 DEF EchoInv, Shapes, Ends, Finished, Echo!ErrorMeansKilled, LineByLine,
       Echo!sel, Echo!nblk, Echo!two, AtOut,
                      Echo!Readable
  <2> QED
    BY <1>0, <2>1, <2>2, <2>3, NothingMoves DEF EchoInv, Echo!nblk
<1>5. CASE Echo!Killed
  <2>1. /\ server = "up" /\ ~Echo!Ended /\ server' = "killed" /\ srv' = <<>> /\ toSrv' = <<>>
        /\ UNCHANGED <<kind, typed, toCli, in, out, fin, client, line, read_buf, Echo!sel, Echo!nblk, Echo!two>>
    BY <1>5 DEF Echo!Killed
  <2>2. EchoTypes'
    BY <1>0, <2>1, RunShort DEF EchoTypes, Echo!sel, Echo!nblk, Echo!two
  <2>3. Shapes' /\ Ends' /\ Finished' /\ Echo!ErrorMeansKilled'
    BY <1>0, <2>1 DEF Shapes, Ends, Finished, Echo!ErrorMeansKilled, Echo!sel, Echo!nblk,
       Echo!two, Echo!Readable
  <2>4. ComesBack'
    BY <1>0, <2>1 DEF ComesBack, AtOut, AtBuf, AtRcv, Run, Echo!nblk
  <2> QED
    BY <2>1, <2>2, <2>3, <2>4 DEF EchoInv
<1> QED
  BY <1>1, <1>2, <1>3, <1>4, <1>5 DEF Echo!SrvStep

-----------------------------------------------------------------------------
(* What the steps that show no line and pass none on have in common. *)
Still == UNCHANGED <<kind, Echo!world, in, out, line, read_buf, Echo!nblk>>

(* They keep the invariant with its parts on where the client is. *)
LEMMA StillStep ==
    ASSUME EchoInv, Still, EchoTypes', Shapes', Ends', Finished', Echo!ErrorMeansKilled',
           kind = "str_cli" => client' \in {"done", "error"}
    PROVE  EchoInv'
<1>0. EchoTypes /\ ComesBack /\ (server # "killed" => GoesThere /\ LineByLine)
  BY DEF EchoInv
<1>1. UNCHANGED <<out, read_buf, toCli, srv, toSrv, line, in, snd, sndo, sndi, rcv, rcvo, rcvi, server, kind>>
  BY DEF Still, Echo!world, Echo!nblk
<1>2. ComesBack' /\ (GoesThere => GoesThere')
  BY <1>0, <1>1, NothingMoves
<1>3. LineByLine'
  BY <1>1 DEF LineByLine
<1> QED
  BY <1>0, <1>1, <1>2, <1>3 DEF EchoInv

(* At the socket's end, as readline() finds it. *)
LEMMA AtLineEof ==
    ASSUME EchoInv, Echo!LineEof
    PROVE  /\ server \in {"closed", "killed"}
           /\ server = "closed" /\ kind # "nblk" => AtOut = in
<1>0. EchoTypes /\ Shapes /\ Ends
  BY DEF EchoInv
<1>1. server # "up" /\ read_buf = <<>> /\ toCli = <<>>
  BY DEF Echo!LineEof, Echo!AtEnd
<1>2. ASSUME server = "closed", kind # "nblk" PROVE AtOut = in
  <2>1. /\ GoesThere /\ srv = <<>> /\ toSrv = <<>> /\ line = <<>> /\ sndo = sndi /\ rcvo = rcvi
    BY <1>0, <1>2 DEF EchoInv, Ends, Shapes
  <2>2. /\ Len(srv) = 0 /\ Len(toSrv) = 0 /\ Len(line) = 0 /\ Len(read_buf) = 0 /\ Len(toCli) = 0
    BY <1>1, <2>1, RunShort
  <2>3. in = AtSnd + Len(line)
    BY <2>1 DEF GoesThere
  <2> QED
    BY <1>0, <2>1, <2>2, <2>3, Lengths DEF AtOut, AtBuf, AtRcv, AtCli, AtSrv, AtSock, AtSnd
<1> QED
  BY <1>0, <1>1, <1>2 DEF EchoTypes

(* str_cli(), str_cli1(), and the readers of str_clip() and str_clit() when *)
(* readline() returns a line.                                              *)
LEMMA ReadLineStep ==
    ASSUME EchoInv, kind \in {"str_cli", "str_cli1"} \union Echo!Two, Echo!ReadLine, client # "done",
           UNCHANGED <<kind, in, fin, line, Echo!sel, Echo!nblk, Echo!two>>,
           \/ UNCHANGED client /\ kind \in Echo!Two
           \/ client = "sock" /\ client' = "stdin" /\ kind = "str_cli1"
           \/ client = "readline" /\ client' = "fgets" /\ kind = "str_cli"
    PROVE  EchoInv'
<1>0. EchoTypes /\ Shapes /\ Ends /\ ComesBack /\ Finished /\ Echo!ErrorMeansKilled
  BY DEF EchoInv
<1>1. rcvi = rcvo /\ UNCHANGED <<in, line, Echo!nblk>>
  BY <1>0 DEF Shapes, Echo!Two
<1>2. /\ out' \in Seq(Nat) /\ read_buf' \in Seq(Nat) /\ toCli' \in Seq(Nat)
      /\ UNCHANGED <<typed, toSrv, srv, server>>
      /\ ComesBack'
      /\ GoesThere => GoesThere'
      /\ AtOut' = AtOut + 1
  BY <1>0, <1>1, ReadLineMoves
<1>3. client' \in Clientpc /\ client' # "done" /\ (client' = "error" => client = "error" /\ kind \in Echo!Two)
  BY <1>0 DEF EchoTypes, Clientpc
<1>4. EchoTypes'
  BY <1>0, <1>2, <1>3 DEF EchoTypes, Echo!sel, Echo!nblk, Echo!two
<1>5. Shapes'
  BY <1>0, <1>2 DEF Shapes, Echo!sel, Echo!nblk, Echo!Two
<1>6. Ends'
  BY <1>0, <1>2 DEF Ends, Echo!sel, Echo!nblk, Echo!Two
<1>7. Finished' /\ Echo!ErrorMeansKilled'
  BY <1>0, <1>2, <1>3 DEF Finished, Echo!ErrorMeansKilled
<1>8. ASSUME server' # "killed" PROVE GoesThere' /\ LineByLine'
  <2>1. GoesThere' /\ LineByLine
    BY <1>2, <1>8 DEF EchoInv
  <2>2. LineByLine'
    BY <1>2, <2>1 DEF LineByLine, Echo!Two
  <2> QED
    BY <2>1, <2>2
<1> QED
  BY <1>2, <1>4, <1>5, <1>6, <1>7, <1>8 DEF EchoInv

(* str_cli() *)
LEMMA StrCliStep == Echo!ClientAssumption /\ EchoInv /\ Echo!StrCli => EchoInv'
<1> SUFFICES ASSUME Echo!ClientAssumption, EchoInv, Echo!StrCli
             PROVE  EchoInv'
  OBVIOUS
<1>0. /\ EchoTypes /\ Shapes /\ Ends /\ ComesBack /\ Finished /\ Echo!ErrorMeansKilled /\ kind = "str_cli"
      /\ server # "killed" => GoesThere /\ LineByLine
  BY DEF EchoInv, Echo!StrCli
<1>1. CASE client = "fgets" /\ Echo!Fgets(1, "write")
  BY <1>0, <1>1, FgetsStep
<1>2. CASE /\ Echo!Goto("fgets", "done") /\ Echo!Eof
           /\ UNCHANGED <<kind, Echo!world, in, out, fin, line, read_buf, Echo!sel, Echo!nblk, Echo!two>>
  <2>1. client = "fgets" /\ client' = "done" /\ in = Lines
    BY <1>2 DEF Echo!Goto, Echo!Eof
  <2>2. EchoTypes' /\ Shapes' /\ Ends' /\ Echo!ErrorMeansKilled'
    BY <1>0, <1>2, <2>1 DEF EchoTypes, Shapes, Ends, Echo!ErrorMeansKilled, Echo!world,
       Echo!sel, Echo!nblk, Echo!two, Clientpc
  <2>3. Finished'
    BY <1>0, <1>2, <2>1 DEF Finished, LineByLine, AtOut, Echo!world
  <2> QED
    BY <1>0, <1>2, <2>1, <2>2, <2>3, StillStep DEF Still
<1>3. CASE Echo!WriteLine("readline")
  BY <1>0, <1>3, WriteLineStep
<1>4. CASE /\ client = "readline" /\ Echo!ReadLine /\ client' = "fgets"
           /\ UNCHANGED <<kind, in, fin, line, Echo!sel, Echo!nblk, Echo!two>>
  BY <1>0, <1>4, ReadLineStep
<1>5. CASE /\ client = "readline" /\ Echo!LineEof /\ client' = "error" /\ UNCHANGED <<Echo!world, out, read_buf>>
           /\ UNCHANGED <<kind, in, fin, line, Echo!sel, Echo!nblk, Echo!two>>
  <2>1. server = "killed"
    BY <1>0, <1>5, AtLineEof DEF Ends
  <2>2. EchoTypes' /\ Shapes' /\ Ends' /\ Echo!ErrorMeansKilled' /\ Finished'
    BY <1>0, <1>5, <2>1 DEF EchoTypes, Shapes, Ends, Echo!ErrorMeansKilled, Finished,
       Echo!world, Echo!sel, Echo!nblk, Echo!two, Clientpc
  <2> QED
    BY <1>5, <2>2, StillStep DEF Still
<1> QED
  BY <1>1, <1>2, <1>3, <1>4, <1>5 DEF Echo!StrCli

(* A descriptor that is not ready is passed over. *)
LEMMA SkipStep ==
    ASSUME EchoInv, NEW from, NEW x, NEW to, Echo!Skip(from, x, to), to \in {"stdin", "select"},
           kind \in {"str_cli1", "str_cli3"}, from \in {"sock", "stdin"}
    PROVE  EchoInv'
<1>0. EchoTypes /\ Shapes /\ Ends /\ Finished /\ Echo!ErrorMeansKilled
  BY DEF EchoInv
<1>1. /\ client = from /\ client' = to /\ client \in {"sock", "stdin"} /\ client' \in {"stdin", "select"}
      /\ UNCHANGED <<kind, Echo!world, in, out, fin, line, read_buf, Echo!sel, Echo!nblk, Echo!two>>
  BY DEF Echo!Skip, Echo!Goto
<1>2. EchoTypes' /\ Shapes' /\ Ends' /\ Finished' /\ Echo!ErrorMeansKilled'
  BY <1>0, <1>1 DEF EchoTypes, Shapes, Ends, Finished, Echo!ErrorMeansKilled, Echo!world,
     Echo!sel, Echo!nblk, Echo!two, Clientpc, Echo!Two
<1> QED
  BY <1>1, <1>2, StillStep DEF Still

(* str_cli1() *)
LEMMA StrCli1Step == Echo!ClientAssumption /\ EchoInv /\ Echo!StrCli1 => EchoInv'
<1> SUFFICES ASSUME Echo!ClientAssumption, EchoInv, Echo!StrCli1
             PROVE  EchoInv'
  OBVIOUS
<1>0. EchoTypes /\ Shapes /\ Ends /\ ComesBack /\ Finished /\ Echo!ErrorMeansKilled /\ kind = "str_cli1"
  BY DEF EchoInv, Echo!StrCli1
<1>1. CASE /\ Echo!Select(TRUE, TRUE) /\ rset' # {} /\ client' = "sock"
           /\ UNCHANGED <<kind, Echo!world, in, out, fin, line, read_buf, stdineof, Echo!nblk, Echo!two>>
  <2>1. rset' \in SUBSET {"sock", "stdin"} /\ client = "select"
    BY <1>1 DEF Echo!Select
  <2>2. EchoTypes' /\ Shapes' /\ Ends' /\ Finished' /\ Echo!ErrorMeansKilled'
    BY <1>0, <1>1, <2>1 DEF EchoTypes, Shapes, Ends, Finished, Echo!ErrorMeansKilled,
       Echo!world, Echo!nblk, Echo!two, Clientpc, Echo!Two
  <2> QED
    BY <1>0, <1>1, <2>2, StillStep DEF Still
<1>2. CASE /\ client = "sock" /\ Echo!ReadLine /\ client' = "stdin"
           /\ UNCHANGED <<kind, in, fin, line, Echo!sel, Echo!nblk, Echo!two>>
  BY <1>0, <1>2, ReadLineStep
<1>3. CASE /\ client = "sock" /\ Echo!LineEof /\ client' = "error" /\ UNCHANGED <<Echo!world, out, read_buf>>
           /\ UNCHANGED <<kind, in, fin, line, Echo!sel, Echo!nblk, Echo!two>>
  <2>1. server = "killed"
    BY <1>0, <1>3, AtLineEof DEF Ends
  <2>2. EchoTypes' /\ Shapes' /\ Ends' /\ Echo!ErrorMeansKilled' /\ Finished'
    BY <1>0, <1>3, <2>1 DEF EchoTypes, Shapes, Ends, Echo!ErrorMeansKilled, Finished,
       Echo!world, Echo!sel, Echo!nblk, Echo!two, Clientpc,
                            Echo!Two
  <2> QED
    BY <1>3, <2>2, StillStep DEF Still
<1>4. CASE Echo!Skip("sock", "sock", "stdin")
  BY <1>0, <1>4, SkipStep
<1>5. CASE client = "stdin" /\ Echo!Fgets(1, "write")
  BY <1>0, <1>5, FgetsStep
<1>6. CASE Echo!Goto("stdin", "done") /\ UNCHANGED <<kind, Echo!world, in, out, fin, line, read_buf, Echo!sel, Echo!nblk, Echo!two>>
  <2>1. client = "stdin" /\ client' = "done"
    BY <1>6 DEF Echo!Goto
  <2>2. EchoTypes' /\ Shapes' /\ Ends' /\ Finished' /\ Echo!ErrorMeansKilled'
    BY <1>0, <1>6, <2>1 DEF EchoTypes, Shapes, Ends, Finished, Echo!ErrorMeansKilled,
       Echo!world, Echo!sel, Echo!nblk, Echo!two, Clientpc,
                            Echo!Two
  <2> QED
    BY <1>0, <1>6, <2>2, StillStep DEF Still
<1>7. CASE Echo!Skip("stdin", "stdin", "select")
  BY <1>0, <1>7, SkipStep
<1>8. CASE Echo!WriteLine("select")
  BY <1>0, <1>8, WriteLineStep
<1> QED
  BY <1>1, <1>2, <1>3, <1>4, <1>5, <1>6, <1>7, <1>8 DEF Echo!StrCli1

(* str_cli3() *)
LEMMA StrCli3Step == Echo!ClientAssumption /\ EchoInv /\ Echo!StrCli3 => EchoInv'
<1> SUFFICES ASSUME Echo!ClientAssumption, EchoInv, Echo!StrCli3
             PROVE  EchoInv'
  OBVIOUS
<1>0. EchoTypes /\ Shapes /\ Ends /\ ComesBack /\ Finished /\ Echo!ErrorMeansKilled /\ kind = "str_cli3"
  BY DEF EchoInv, Echo!StrCli3
<1>1. CASE /\ Echo!Select(~stdineof, TRUE) /\ rset' # {} /\ client' = "sock"
           /\ UNCHANGED <<kind, Echo!world, in, out, fin, line, read_buf, stdineof, Echo!nblk, Echo!two>>
  <2>1. rset' \in SUBSET {"sock", "stdin"} /\ client = "select" /\ ("sock" \in rset' => Echo!Readable)
    BY <1>1 DEF Echo!Select
  <2>2. Echo!Readable' <=> Echo!Readable
    BY <1>1 DEF Echo!Readable, Echo!world
  <2>3. EchoTypes'
    BY <1>0, <1>1, <2>1 DEF EchoTypes, Echo!world, Echo!nblk, Echo!two, Clientpc
  <2>4. Shapes' /\ Ends'
    BY <1>0, <1>1, <2>1, <2>2 DEF Shapes, Ends, Echo!world, Echo!nblk, Echo!two, Echo!Two
  <2>5. Finished' /\ Echo!ErrorMeansKilled'
    BY <1>0, <1>1 DEF Finished, Echo!ErrorMeansKilled
  <2> QED
    BY <1>0, <1>1, <2>3, <2>4, <2>5, StillStep DEF Still
<1>2. CASE /\ client = "sock" /\ "sock" \in rset /\ out' = out \o toCli /\ toCli' = <<>>
           /\ client' = IF toCli # <<>> THEN "stdin" ELSE IF stdineof THEN "done" ELSE "error"
           /\ UNCHANGED <<kind, typed, toSrv, srv, server, in, fin, line, read_buf, Echo!sel, Echo!nblk, Echo!two>>
  <2>1. \/ toCli # <<>> /\ client' = "stdin"
        \/ toCli = <<>> /\ stdineof /\ client' = "done"
        \/ toCli = <<>> /\ ~stdineof /\ client' = "error"
    <3>1. CASE toCli # <<>>
      BY <1>2, <3>1
    <3>2. CASE toCli = <<>> /\ stdineof
      BY <1>2, <3>2
    <3>3. CASE toCli = <<>> /\ ~stdineof
      BY <1>2, <3>3
    <3> QED
      BY <3>1, <3>2, <3>3
  <2>2. read_buf = <<>> /\ Len(read_buf) = 0 /\ rcvi = rcvo /\ Echo!Readable
    BY <1>0, <1>2, RunShort DEF Shapes
  <2>3. /\ out \in Seq(Nat) /\ toCli \in Seq(Nat) /\ Len(out) \in Nat /\ Len(toCli) \in Nat
        /\ rcvi \in Nat /\ Len(<<>>) = 0
    BY <1>0, RunShort DEF EchoTypes
  <2>4. AtOut = Len(out) /\ AtRcv = Len(out) /\ AtCli = Len(out) + Len(toCli)
    BY <2>2, <2>3 DEF AtOut, AtBuf, AtRcv, AtCli
  <2>5. out' \in Seq(Nat) /\ Len(out') = Len(out) + Len(toCli) /\ Run(out', 0)
    <3>1. Run(out, 0) /\ Run(toCli, 0 + Len(out))
      BY <1>0, <2>3, <2>4 DEF ComesBack
    <3> QED
      BY <1>2, <2>3, <3>1, RunConcat
  <2>6. toCli' = <<>> /\ toCli' \in Seq(Nat) /\ Len(toCli') = 0
    BY <1>2, RunShort
  <2>7. AtOut' = AtCli /\ AtRcv' = AtCli /\ AtCli' = AtCli
    BY <1>2, <2>2, <2>3, <2>4, <2>5, <2>6 DEF AtOut, AtBuf, AtRcv, AtCli, Echo!nblk
  <2>8. ComesBack'
    <3>1. read_buf' = <<>> /\ Run(read_buf', AtOut') /\ Run(toCli', AtRcv')
      BY <1>2, <2>2, <2>3, <2>4, <2>6, <2>7, RunShort
    <3>2. rcvo' + 1 .. rcvi' = {}
      BY <1>2, <2>2, <2>3 DEF Echo!nblk
    <3> QED
      BY <2>5, <3>1, <3>2 DEF ComesBack
  <2>9. GoesThere => GoesThere'
    BY <1>2, <2>7 DEF GoesThere, AtSrv, AtSock, AtSnd, Run, Echo!nblk
  <2>10. EchoTypes'
    BY <1>0, <1>2, <2>1, <2>5, <2>6 DEF EchoTypes, Echo!sel, Echo!nblk, Echo!two, Clientpc
  <2>11. Shapes'
    BY <1>0, <1>2, <2>1, <2>2 DEF Shapes, Echo!sel, Echo!nblk, Echo!Two
  <2>12. Ends'
    BY <1>0, <1>2 DEF Ends, Echo!sel, Echo!nblk
  <2>13. toCli = <<>> => server \in {"closed", "killed"}
    BY <1>0, <2>2 DEF Echo!Readable, EchoTypes
  <2>14. Echo!ErrorMeansKilled'
    BY <1>0, <1>2, <2>1, <2>13 DEF Echo!ErrorMeansKilled, Ends
  <2>15. Finished'
    <3>1. ASSUME client' = "done", server' # "killed" PROVE AtOut' = Lines
      <4>1. server = "closed" /\ Echo!LineEof /\ toCli = <<>> /\ stdineof
        BY <1>2, <2>1, <2>2, <2>13, <3>1 DEF Echo!LineEof, Echo!AtEnd
      <4>2. AtOut = in /\ in = Lines /\ AtOut' = AtOut
        BY <1>0, <2>3, <2>4, <2>7, <4>1, AtLineEof DEF Ends
      <4> QED
        BY <4>2
    <3> QED
      BY <3>1 DEF Finished
  <2>16. LineByLine'
    BY <1>0, <1>2 DEF LineByLine
  <2> QED
    BY <1>2, <2>8, <2>9, <2>10, <2>11, <2>12, <2>14, <2>15, <2>16 DEF EchoInv
<1>3. CASE Echo!Skip("sock", "sock", "stdin")
  BY <1>0, <1>3, SkipStep
<1>4. CASE client = "stdin" /\ Echo!Fgets(MaxLine, "write")
  <2>1. MaxLine \in Nat \ {0}
    BY DEF Echo!ClientAssumption
  <2> QED
    BY <1>0, <1>4, <2>1, FgetsStep
<1>5. CASE /\ Echo!Goto("stdin", "select") /\ Echo!Eof /\ stdineof' = TRUE /\ fin' = TRUE
           /\ UNCHANGED <<kind, Echo!world, in, out, line, read_buf, rset, Echo!nblk, Echo!two>>
  <2>1. client = "stdin" /\ client' = "select" /\ in = Lines
    BY <1>5 DEF Echo!Goto, Echo!Eof
  <2>2. EchoTypes' /\ Shapes' /\ Ends' /\ Finished' /\ Echo!ErrorMeansKilled'
    BY <1>0, <1>5, <2>1 DEF EchoTypes, Shapes, Ends, Finished, Echo!ErrorMeansKilled,
       Echo!world, Echo!nblk, Echo!two, Clientpc, Echo!Two
  <2> QED
    BY <1>0, <1>5, <2>2, StillStep DEF Still
<1>6. CASE Echo!Skip("stdin", "stdin", "select")
  BY <1>0, <1>6, SkipStep
<1>7. CASE Echo!WriteLine("select")
  BY <1>0, <1>7, WriteLineStep
<1> QED
  BY <1>1, <1>2, <1>3, <1>4, <1>5, <1>6, <1>7 DEF Echo!StrCli3

-----------------------------------------------------------------------------
(* str_clip()'s parent and str_clit()'s thread *)
LEMMA SenderStep == Echo!ClientAssumption /\ EchoInv /\ Echo!Sender => EchoInv'
<1> SUFFICES ASSUME Echo!ClientAssumption, EchoInv, Echo!Sender
             PROVE  EchoInv'
  OBVIOUS
<1>0. /\ EchoTypes /\ Shapes /\ Ends /\ ComesBack /\ Finished /\ Echo!ErrorMeansKilled /\ kind \in Echo!Two
      /\ kind \notin {"str_cli", "str_cli1", "str_cli3", "nblk"}
  BY DEF EchoInv, Echo!Sender, Echo!Two
<1>1. CASE client = "fgets" /\ Echo!Fgets(1, "write")
  BY <1>0, <1>1, FgetsStep
<1>2. CASE Echo!WriteLine("fgets")
  BY <1>0, <1>2, WriteLineStep
<1>3. CASE /\ Echo!Goto("fgets", "shut") /\ Echo!Eof /\ fin' = TRUE
           /\ UNCHANGED <<kind, Echo!world, in, out, line, read_buf, Echo!sel, Echo!nblk, Echo!two>>
  <2>1. client = "fgets" /\ client' = "shut" /\ in = Lines
    BY <1>3 DEF Echo!Goto, Echo!Eof
  <2>2. EchoTypes' /\ Shapes' /\ Ends' /\ Finished' /\ Echo!ErrorMeansKilled'
    BY <1>0, <1>3, <2>1 DEF EchoTypes, Shapes, Ends, Finished, Echo!ErrorMeansKilled,
       Echo!world, Echo!sel, Echo!nblk, Echo!two, Clientpc
  <2> QED
    BY <1>0, <1>3, <2>2, StillStep DEF Still
<1>4. CASE /\ Echo!Goto("shut", IF kind = "clip" THEN "pause" ELSE "over") /\ iseof' = (kind = "clit")
           /\ UNCHANGED <<kind, Echo!world, in, out, fin, line, read_buf, Echo!sel, Echo!nblk, reader>>
  <2>1. client = "shut" /\ client' \in {"pause", "over"}
    BY <1>4 DEF Echo!Goto
  <2>2. iseof' \in BOOLEAN
    BY <1>4
  <2>3. EchoTypes'
    BY <1>0, <1>4, <2>1, <2>2 DEF EchoTypes, Echo!world, Echo!sel, Echo!nblk, Clientpc
  <2>4. Shapes' /\ Ends' /\ Finished' /\ Echo!ErrorMeansKilled'
    BY <1>0, <1>4, <2>1 DEF Shapes, Ends, Finished, Echo!ErrorMeansKilled, Echo!world,
       Echo!sel, Echo!nblk
  <2> QED
    BY <1>0, <1>4, <2>3, <2>4, StillStep DEF Still
<1> QED
  BY <1>1, <1>2, <1>3, <1>4 DEF Echo!Sender

(* str_clip()'s child and str_clit()'s main thread *)
LEMMA ReaderStep == Echo!ClientAssumption /\ EchoInv /\ Echo!Reader => EchoInv'
<1> SUFFICES ASSUME Echo!ClientAssumption, EchoInv, Echo!Reader
             PROVE  EchoInv'
  OBVIOUS
<1>0. /\ EchoTypes /\ Shapes /\ Ends /\ ComesBack /\ Finished /\ Echo!ErrorMeansKilled /\ kind \in Echo!Two
      /\ kind \notin {"str_cli", "str_cli1", "str_cli3", "nblk"} /\ client # "done"
      /\ UNCHANGED <<kind, in, fin, line, Echo!sel, Echo!nblk, iseof>>
  BY DEF EchoInv, Echo!Reader, Echo!Two, Echo!Ended
<1>1. CASE Echo!ReadLine /\ UNCHANGED <<reader, client>>
  <2>1. UNCHANGED Echo!two
    BY <1>0, <1>1 DEF Echo!two
  <2> QED
    BY <1>0, <1>1, <2>1, ReadLineStep
<1>2. CASE /\ Echo!LineEof /\ reader' = "over"
           /\ client' = CASE kind = "clit" -> IF iseof THEN "done" ELSE "error"
                         [] kind = "clip" /\ client = "pause" -> "done"
                         [] OTHER -> client
           /\ UNCHANGED <<Echo!world, out, read_buf>>
  <2>1. /\ server \in {"closed", "killed"}
        /\ server = "closed" => AtOut = in
    BY <1>0, <1>2, AtLineEof
  <2>2. \/ kind = "clit" /\ client' \in {"done", "error"}
        \/ kind = "clip" /\ (client' = "done" \/ client' = client)
    <3>1. CASE kind = "clit"
      BY <1>2, <3>1
    <3>2. CASE kind = "clip" /\ client = "pause"
      BY <1>2, <3>2
    <3>3. CASE kind = "clip" /\ client # "pause"
      BY <1>2, <3>3
    <3> QED
      BY <1>0, <3>1, <3>2, <3>3 DEF Echo!Two
  <2>3. client' \in {"done", "error"} \/ client' = client
    BY <2>2
  <2>4. EchoTypes'
    BY <1>0, <1>2, <2>3 DEF EchoTypes, Echo!world, Echo!sel, Echo!nblk, Clientpc
  <2>5. Shapes'
    BY <1>0, <1>2, <2>1, <2>3 DEF Shapes, Ends, Echo!world, Echo!sel, Echo!nblk
  <2>6. Ends'
    BY <1>0, <1>2, <2>3 DEF Ends, Echo!world, Echo!sel, Echo!nblk
  <2>7. Echo!ErrorMeansKilled'
    BY <1>0, <1>2, <2>2 DEF Echo!ErrorMeansKilled, Echo!world
  <2>8. Finished'
    <3>1. ASSUME server' # "killed" PROVE AtOut' = Lines
      <4>1. server = "closed"
        BY <1>2, <2>1, <3>1 DEF Echo!world
      <4>2. AtOut = in /\ in = Lines /\ AtOut' = AtOut
        BY <1>0, <1>2, <2>1, <4>1 DEF Ends, AtOut
      <4> QED
        BY <4>2
    <3> QED
      BY <3>1 DEF Finished
  <2> QED
    BY <1>0, <1>2, <2>4, <2>5, <2>6, <2>7, <2>8, StillStep DEF Still
<1> QED
  BY <1>1, <1>2 DEF Echo!Reader

-----------------------------------------------------------------------------
(* Put() leaves what is before the pointer, and continues it. *)
LEMMA PutRun ==
    ASSUME MaxLine \in Nat, NEW b \in [1 .. MaxLine -> Nat], NEW from \in 0 .. MaxLine,
           NEW s \in Seq(Nat), from + Len(s) <= MaxLine
    PROVE  /\ Echo!Put(b, from, s) \in [1 .. MaxLine -> Nat]
           /\ \A k \in 1 .. from : Echo!Put(b, from, s)[k] = b[k]
           /\ \A k \in from + 1 .. from + Len(s) : Echo!Put(b, from, s)[k] = s[k - from]
<1>1. Len(s) \in Nat /\ DOMAIN s = 1 .. Len(s) /\ \A j \in 1 .. Len(s) : s[j] \in Nat
  BY LenProperties, ElementOfSeq
<1>2. Echo!Put(b, from, s) = [k \in 1 .. MaxLine |-> IF k - from \in 1 .. Len(s) THEN s[k - from] ELSE b[k]]
  BY <1>1 DEF Echo!Put
<1>3. Echo!Put(b, from, s) \in [1 .. MaxLine -> Nat]
  BY <1>1, <1>2
<1>4. ASSUME NEW k \in 1 .. from PROVE Echo!Put(b, from, s)[k] = b[k]
  <2>1. k \in 1 .. MaxLine /\ ~ (k - from \in 1 .. Len(s))
    BY <1>1
  <2> QED
    BY <1>2, <2>1
<1>5. ASSUME NEW k \in from + 1 .. from + Len(s) PROVE Echo!Put(b, from, s)[k] = s[k - from]
  <2>1. k \in 1 .. MaxLine /\ k - from \in 1 .. Len(s)
    BY <1>1
  <2> QED
    BY <1>2, <2>1
<1> QED
  BY <1>3, <1>4, <1>5

(* str_cli_nblk() from select() to the reading of stdin *)
LEMMA NbSelectStep ==
    EchoInv /\ kind = "nblk" /\ Echo!NbSelect /\ UNCHANGED <<kind, line, read_buf, Echo!two>>
      => EchoInv'
<1> SUFFICES ASSUME EchoInv, kind = "nblk", Echo!NbSelect, UNCHANGED <<kind, line, read_buf, Echo!two>>
             PROVE  EchoInv'
  OBVIOUS
<1>0. EchoTypes /\ Shapes /\ Ends /\ Echo!ErrorMeansKilled
  BY DEF EchoInv
<1>1. /\ UNCHANGED <<Echo!world, in, out, fin, stdineof, snd, sndo, sndi, rcv, rcvo, rcvi>>
      /\ rset' \in SUBSET {"sock", "stdin"} /\ wset' \in SUBSET {"sock", "stdout"}
      /\ client = "select" /\ client' = "stdin" /\ ("sock" \in rset' => Echo!Readable)
  BY DEF Echo!NbSelect, Echo!Select
<1>a. Echo!Readable' <=> Echo!Readable
  BY <1>1 DEF Echo!Readable, Echo!world
<1>b. EchoTypes'
  BY <1>0, <1>1 DEF EchoTypes, Echo!world, Echo!two, Clientpc
<1>c. Shapes' /\ Ends'
  BY <1>0, <1>1, <1>a DEF Shapes, Ends, Echo!world, Echo!two, Echo!Two
<1>2. EchoTypes' /\ Shapes' /\ Ends' /\ Finished' /\ Echo!ErrorMeansKilled'
  BY <1>1, <1>b, <1>c DEF Finished, Echo!ErrorMeansKilled
<1>3. ComesBack' /\ (GoesThere => GoesThere') /\ LineByLine'
  BY <1>1, NothingMoves DEF EchoInv, LineByLine, Echo!world
<1> QED
  BY <1>1, <1>2, <1>3 DEF EchoInv, Echo!world

(* Its reading of stdin into sndbuf *)
LEMMA NbStdinStep ==
    Echo!ClientAssumption /\ EchoInv /\ kind = "nblk" /\ Echo!NbStdin /\ UNCHANGED <<kind, line, read_buf, Echo!two>>
      => EchoInv'
<1> SUFFICES ASSUME Echo!ClientAssumption, EchoInv, kind = "nblk", Echo!NbStdin, UNCHANGED <<kind, line, read_buf, Echo!two>>
             PROVE  EchoInv'
  OBVIOUS
<1>0. EchoTypes /\ Shapes /\ Ends /\ Echo!ErrorMeansKilled /\ ComesBack
  BY DEF EchoInv
<1>1. /\ UNCHANGED <<typed, toSrv, srv, toCli, server, out, rset, sndo, rcv, rcvo, rcvi>>
      /\ UNCHANGED <<kind, line, read_buf, reader, iseof>>
      /\ client = "stdin" /\ client' = "sock"
  BY DEF Echo!NbStdin, Echo!world, Echo!two
<1>2. ComesBack' /\ Echo!Readable' = Echo!Readable /\ UNCHANGED <<AtOut, AtCli, AtSrv, AtSock>>
  BY <1>0, <1>1 DEF ComesBack, Echo!Readable, Run, AtOut, AtBuf, AtRcv, AtCli, AtSrv, AtSock
<1>3. LineByLine' /\ Finished' /\ Echo!ErrorMeansKilled'
  BY <1>1 DEF LineByLine, Finished, Echo!ErrorMeansKilled
<1>4. Shapes'
  BY <1>0, <1>1, <1>2 DEF Shapes, Echo!Two
<1>5. CASE /\ Echo!HasInput
           /\ \E n \in 1 .. Echo!Least(MaxLine - sndi, Echo!Least(typed, Lines) - in) :
                /\ snd' = Echo!Put(snd, sndi, Echo!InSeq(in + 1, in + n))
                /\ sndi' = sndi + n /\ in' = in + n
           /\ wset' = wset \union {"sock"} /\ UNCHANGED <<fin, stdineof>>
  <2>1. PICK n \in 1 .. Echo!Least(MaxLine - sndi, Echo!Least(typed, Lines) - in) :
          /\ snd' = Echo!Put(snd, sndi, Echo!InSeq(in + 1, in + n))
          /\ sndi' = sndi + n /\ in' = in + n /\ in < Lines
    BY <1>5 DEF Echo!HasInput
  <2>2. /\ Lines \in Nat /\ in \in Nat /\ typed \in Nat /\ MaxLine \in Nat /\ sndi \in 0 .. MaxLine
        /\ sndo \in Nat /\ sndo <= sndi /\ snd \in [1 .. MaxLine -> Nat] /\ Len(toSrv) \in Nat
    BY <1>0, RunShort DEF Echo!ClientAssumption, EchoTypes
  <2>3. n \in Nat /\ n >= 1 /\ in + n <= Lines /\ sndi + n <= MaxLine
    BY <2>1, <2>2 DEF Echo!Least
  <2> DEFINE s == Echo!InSeq(in + 1, in + n)
  <2>4. s \in Seq(Nat) /\ Len(s) = n /\ Run(s, in)
    BY <2>2, <2>3, RunInterval
  <2> HIDE DEF s
  <2>5. /\ snd' \in [1 .. MaxLine -> Nat]
        /\ \A k \in 1 .. sndi : snd'[k] = snd[k]
        /\ \A k \in sndi + 1 .. sndi + n : snd'[k] = s[k - sndi]
    <3>1. snd' = Echo!Put(snd, sndi, s)
      BY <2>1 DEF s
    <3>2. sndi + Len(s) <= MaxLine
      BY <2>3, <2>4
    <3>3. /\ Echo!Put(snd, sndi, s) \in [1 .. MaxLine -> Nat]
          /\ \A k \in 1 .. sndi : Echo!Put(snd, sndi, s)[k] = snd[k]
          /\ \A k \in sndi + 1 .. sndi + Len(s) : Echo!Put(snd, sndi, s)[k] = s[k - sndi]
      BY <2>2, <2>4, <3>2, PutRun
    <3> QED
      BY <2>4, <3>1, <3>3
  <2>6. in' \in 0 .. Lines /\ sndi' \in 0 .. MaxLine /\ sndo' <= sndi' /\ wset' \in SUBSET {"sock", "stdout"}
    <3>1. wset' \in SUBSET {"sock", "stdout"}
      BY <1>0, <1>5 DEF EchoTypes
    <3> QED
      BY <1>1, <2>1, <2>2, <2>3, <3>1
  <2>7. EchoTypes'
    BY <1>0, <1>1, <1>5, <2>5, <2>6 DEF EchoTypes, Clientpc
  <2>8. ~stdineof /\ ~fin /\ server # "closed"
    BY <1>0, <2>1, <2>2 DEF Ends
  <2>9. Ends'
    BY <1>0, <1>1, <1>5, <2>8 DEF Ends
  <2>10. ASSUME server' # "killed" PROVE GoesThere'
    <3>1. GoesThere /\ line = <<>> /\ Len(line) = 0
      BY <1>0, <1>1, <2>10, RunShort DEF EchoInv, Shapes
    <3>2. /\ AtSock \in Nat /\ AtSnd = AtSock + (sndi - sndo) /\ in = AtSnd
      <4>1. AtSock \in Nat
        BY <1>0, Lengths DEF AtOut, AtBuf, AtRcv, AtCli, AtSrv, AtSock
      <4> QED
        BY <2>2, <3>1, <4>1 DEF GoesThere, AtSnd
    <3>3. AtSnd' = AtSnd + n /\ in' = AtSnd' + Len(line')
      BY <1>1, <1>2, <2>1, <2>2, <2>3, <3>1, <3>2 DEF AtSnd
    <3>4. ASSUME NEW k \in sndo' + 1 .. sndi' PROVE snd'[k] = AtSock' + k - sndo'
      <4>1. CASE k <= sndi
        <5>1. k \in sndo + 1 .. sndi /\ k \in 1 .. sndi
          BY <1>1, <2>1, <2>2, <2>3, <4>1
        <5> QED
          BY <1>1, <1>2, <2>5, <3>1, <5>1 DEF GoesThere
      <4>2. CASE k > sndi
        <5>1. k \in sndi + 1 .. sndi + n /\ k - sndi \in 1 .. n
          BY <1>1, <2>1, <2>2, <2>3, <4>2
        <5>2. snd'[k] = in + (k - sndi)
          BY <2>4, <2>5, <5>1 DEF Run
        <5> QED
          BY <1>1, <1>2, <2>2, <3>2, <5>1, <5>2
      <4> QED
        BY <1>1, <2>1, <2>2, <2>3, <4>1, <4>2
    <3>5. Run(srv', AtCli') /\ Run(toSrv', AtSrv') /\ Run(line', AtSnd')
      BY <1>1, <1>2, <3>1, RunShort DEF GoesThere, Run
    <3> QED
      BY <3>3, <3>4, <3>5 DEF GoesThere
  <2> QED
    BY <1>2, <1>3, <1>4, <2>7, <2>9, <2>10 DEF EchoInv
<1>6. CASE Echo!Eof /\ stdineof' = TRUE /\ fin' = (sndo = sndi) /\ UNCHANGED <<in, wset, snd, sndi>>
  <2>1. stdineof' \in BOOLEAN /\ fin' \in BOOLEAN /\ in = Lines
    BY <1>6 DEF Echo!Eof
  <2>2. EchoTypes'
    BY <1>0, <1>1, <1>6, <2>1 DEF EchoTypes, Clientpc
  <2>3. fin => fin'
    BY <1>0, <1>6 DEF Ends
  <2>4. Ends'
    BY <1>0, <1>1, <1>6, <2>1, <2>3 DEF Ends, Shapes
  <2>5. GoesThere => GoesThere'
    BY <1>1, <1>6, NothingMoves
  <2> QED
    BY <1>1, <1>2, <1>3, <1>4, <2>2, <2>4, <2>5 DEF EchoInv
<1>7. CASE UNCHANGED <<in, fin, stdineof, wset, snd, sndi>>
  <2>1. EchoTypes' /\ Ends'
    BY <1>0, <1>1, <1>7 DEF EchoTypes, Ends, Clientpc
  <2>2. GoesThere => GoesThere'
    BY <1>1, <1>7, NothingMoves
  <2> QED
    BY <1>1, <1>2, <1>3, <1>4, <2>1, <2>2 DEF EchoInv
<1> QED
  BY <1>5, <1>6, <1>7 DEF Echo!NbStdin

(* Its reading of the socket into rcvbuf *)
LEMMA NbSockStep ==
    Echo!ClientAssumption /\ EchoInv /\ kind = "nblk" /\ Echo!NbSock /\ UNCHANGED <<kind, line, read_buf, Echo!two>>
      => EchoInv'
<1> SUFFICES ASSUME Echo!ClientAssumption, EchoInv, kind = "nblk", Echo!NbSock, UNCHANGED <<kind, line, read_buf, Echo!two>>
             PROVE  EchoInv'
  OBVIOUS
<1>0. EchoTypes /\ Shapes /\ Ends /\ Echo!ErrorMeansKilled /\ ComesBack
  BY DEF EchoInv
<1>1. /\ UNCHANGED <<typed, toSrv, srv, server, in, out, fin, rset, stdineof, snd, sndo, sndi, rcvo>>
      /\ UNCHANGED <<kind, line, read_buf, reader, iseof>>
      /\ client = "sock"
  BY DEF Echo!NbSock, Echo!sel, Echo!two
<1>2. LineByLine' /\ Finished'
  BY <1>1 DEF LineByLine, Finished
<1>3. CASE /\ toCli # <<>>
           /\ \E n \in 1 .. Echo!Least(Len(toCli), MaxLine - rcvi) :
                /\ rcv' = Echo!Put(rcv, rcvi, SubSeq(toCli, 1, n))
                /\ rcvi' = rcvi + n
                /\ toCli' = SubSeq(toCli, n + 1, Len(toCli))
           /\ wset' = wset \union {"stdout"} /\ client' = "stdout"
  <2>1. PICK n \in 1 .. Echo!Least(Len(toCli), MaxLine - rcvi) :
          /\ rcv' = Echo!Put(rcv, rcvi, SubSeq(toCli, 1, n))
          /\ rcvi' = rcvi + n
          /\ toCli' = SubSeq(toCli, n + 1, Len(toCli))
    BY <1>3
  <2>2. /\ MaxLine \in Nat /\ rcvi \in 0 .. MaxLine /\ rcvo \in Nat /\ rcvo <= rcvi /\ toCli \in Seq(Nat)
        /\ rcv \in [1 .. MaxLine -> Nat] /\ Len(toCli) \in Nat /\ Len(out) \in Nat /\ Len(read_buf) \in Nat
    BY <1>0, RunShort DEF Echo!ClientAssumption, EchoTypes
  <2>3. n \in Nat /\ n >= 1 /\ n \in 0 .. Len(toCli) /\ rcvi + n <= MaxLine
    BY <2>1, <2>2 DEF Echo!Least
  <2>4. AtBuf \in Nat /\ AtRcv = AtBuf + (rcvi - rcvo) /\ AtRcv \in Nat /\ AtCli = AtRcv + Len(toCli)
    BY <2>2 DEF AtOut, AtBuf, AtRcv, AtCli
  <2> DEFINE s == SubSeq(toCli, 1, n)
  <2>5. /\ s \in Seq(Nat) /\ Len(s) = n /\ Run(s, AtRcv)
        /\ toCli' \in Seq(Nat) /\ Len(toCli') = Len(toCli) - n /\ Run(toCli', AtRcv + n)
    <3>1. Run(toCli, AtRcv)
      BY <1>0 DEF ComesBack
    <3> QED
      BY <2>1, <2>2, <2>3, <2>4, <3>1, RunSub
  <2> HIDE DEF s
  <2>6. /\ rcv' \in [1 .. MaxLine -> Nat]
        /\ \A k \in 1 .. rcvi : rcv'[k] = rcv[k]
        /\ \A k \in rcvi + 1 .. rcvi + n : rcv'[k] = s[k - rcvi]
    <3>1. rcv' = Echo!Put(rcv, rcvi, s)
      BY <2>1 DEF s
    <3>2. rcvi + Len(s) <= MaxLine
      BY <2>3, <2>5
    <3>3. /\ Echo!Put(rcv, rcvi, s) \in [1 .. MaxLine -> Nat]
          /\ \A k \in 1 .. rcvi : Echo!Put(rcv, rcvi, s)[k] = rcv[k]
          /\ \A k \in rcvi + 1 .. rcvi + Len(s) : Echo!Put(rcv, rcvi, s)[k] = s[k - rcvi]
      BY <2>2, <2>5, <3>2, PutRun
    <3> QED
      BY <2>5, <3>1, <3>3
  <2>7. rcvi' \in 0 .. MaxLine /\ rcvo' <= rcvi' /\ wset' \in SUBSET {"sock", "stdout"}
    <3>1. wset' \in SUBSET {"sock", "stdout"}
      BY <1>0, <1>3 DEF EchoTypes
    <3> QED
      BY <1>1, <2>1, <2>2, <2>3, <3>1
  <2>8. EchoTypes'
    BY <1>0, <1>1, <1>3, <2>5, <2>6, <2>7 DEF EchoTypes, Clientpc
  <2>9. Shapes' /\ Ends' /\ Echo!ErrorMeansKilled'
    BY <1>0, <1>1, <1>3 DEF Shapes, Ends, Echo!ErrorMeansKilled, Echo!Two
  <2>10. AtOut' = AtOut /\ AtBuf' = AtBuf /\ AtRcv' = AtRcv + n
    <3>1. AtOut' = AtOut /\ AtBuf' = AtBuf
      BY <1>1 DEF AtOut, AtBuf
    <3> QED
      BY <1>1, <2>1, <2>2, <2>3, <2>4, <3>1 DEF AtRcv
  <2>11. AtCli' = AtCli
    BY <2>2, <2>3, <2>4, <2>5, <2>10 DEF AtCli
  <2>12. ComesBack'
    <3>1. ASSUME NEW k \in rcvo' + 1 .. rcvi' PROVE rcv'[k] = AtBuf' + k - rcvo'
      <4>1. CASE k <= rcvi
        <5>1. k \in rcvo + 1 .. rcvi /\ k \in 1 .. rcvi
          BY <1>1, <2>1, <2>2, <2>3, <4>1
        <5> QED
          BY <1>0, <1>1, <2>6, <2>10, <5>1 DEF ComesBack
      <4>2. CASE k > rcvi
        <5>1. k \in rcvi + 1 .. rcvi + n /\ k - rcvi \in 1 .. n
          BY <1>1, <2>1, <2>2, <2>3, <4>2
        <5>2. rcv'[k] = AtRcv + (k - rcvi)
          BY <2>5, <2>6, <5>1 DEF Run
        <5> QED
          BY <1>1, <2>2, <2>4, <2>10, <5>1, <5>2
      <4> QED
        BY <1>1, <2>1, <2>2, <2>3, <4>1, <4>2
    <3>2. Run(out', 0) /\ Run(read_buf', AtOut') /\ Run(toCli', AtRcv')
      BY <1>0, <1>1, <2>5, <2>10 DEF ComesBack
    <3> QED
      BY <3>1, <3>2 DEF ComesBack
  <2>13. GoesThere => GoesThere'
    BY <1>1, <2>11 DEF GoesThere, AtSrv, AtSock, AtSnd, Run
  <2> QED
    BY <1>1, <1>2, <2>8, <2>9, <2>12, <2>13 DEF EchoInv
<1>4. CASE /\ "sock" \in rset /\ Echo!AtEnd /\ client' = IF stdineof THEN "done" ELSE "error"
           /\ UNCHANGED <<toCli, wset, rcv, rcvi>>
  <2>1. (stdineof /\ client' = "done") \/ (~stdineof /\ client' = "error")
    BY <1>4
  <2>2. ~stdineof => server = "killed"
    BY <1>0, <1>4 DEF Ends, Echo!AtEnd, EchoTypes
  <2>3. EchoTypes'
    BY <1>0, <1>1, <1>4, <2>1 DEF EchoTypes, Clientpc
  <2>4. Shapes' /\ Ends' /\ Echo!ErrorMeansKilled'
    BY <1>0, <1>1, <2>1, <2>2 DEF Shapes, Ends, Echo!ErrorMeansKilled, Echo!Two
  <2>5. ComesBack' /\ (GoesThere => GoesThere')
    BY <1>0, <1>1, <1>4, NothingMoves
  <2> QED
    BY <1>1, <1>2, <2>3, <2>4, <2>5 DEF EchoInv
<1>5. CASE client' = "stdout" /\ UNCHANGED <<toCli, wset, rcv, rcvi>>
  <2>1. EchoTypes'
    BY <1>0, <1>1, <1>5 DEF EchoTypes, Clientpc
  <2>2. Shapes' /\ Ends' /\ Echo!ErrorMeansKilled'
    BY <1>0, <1>1, <1>5 DEF Shapes, Ends, Echo!ErrorMeansKilled, Echo!Two
  <2>3. ComesBack' /\ (GoesThere => GoesThere')
    BY <1>0, <1>1, <1>5, NothingMoves
  <2> QED
    BY <1>1, <1>2, <2>1, <2>2, <2>3 DEF EchoInv
<1> QED
  BY <1>3, <1>4, <1>5 DEF Echo!NbSock

(* Its writing of rcvbuf to stdout *)
LEMMA NbStdoutStep ==
    Echo!ClientAssumption /\ EchoInv /\ kind = "nblk" /\ Echo!NbStdout /\ UNCHANGED <<kind, line, read_buf, Echo!two>>
      => EchoInv'
<1> SUFFICES ASSUME Echo!ClientAssumption, EchoInv, kind = "nblk", Echo!NbStdout, UNCHANGED <<kind, line, read_buf, Echo!two>>
             PROVE  EchoInv'
  OBVIOUS
<1>0. EchoTypes /\ Shapes /\ Ends /\ Echo!ErrorMeansKilled /\ ComesBack
  BY DEF EchoInv
<1>1. /\ UNCHANGED <<typed, toSrv, srv, toCli, server, in, fin, rset, stdineof, wset, snd, sndo, sndi, rcv>>
      /\ UNCHANGED <<kind, line, read_buf, reader, iseof>>
      /\ client = "stdout" /\ client' = "sockw"
  BY DEF Echo!NbStdout, Echo!world, Echo!sel, Echo!two
<1>2. Shapes' /\ Ends' /\ LineByLine' /\ Finished' /\ Echo!ErrorMeansKilled'
  BY <1>0, <1>1 DEF Shapes, Ends, LineByLine, Finished, Echo!ErrorMeansKilled, Echo!Two
<1>3. CASE /\ Echo!Waiting("stdout")
           /\ \E n \in 1 .. rcvi - rcvo :
              /\ out' = out \o [k \in 1 .. n |-> rcv[rcvo + k]]
              /\ IF rcvo + n = rcvi THEN rcvo' = 0 /\ rcvi' = 0
                                    ELSE rcvo' = rcvo + n /\ UNCHANGED rcvi
  <2>1. PICK n \in 1 .. rcvi - rcvo :
              /\ out' = out \o [k \in 1 .. n |-> rcv[rcvo + k]]
              /\ IF rcvo + n = rcvi THEN rcvo' = 0 /\ rcvi' = 0
                                    ELSE rcvo' = rcvo + n /\ UNCHANGED rcvi
    BY <1>3
  <2>2. /\ rcvi \in 0 .. MaxLine /\ rcvo \in 0 .. MaxLine /\ rcvo <= rcvi /\ rcvi \in Nat /\ rcvo \in Nat
        /\ rcv \in [1 .. MaxLine -> Nat] /\ Len(toCli) \in Nat /\ Len(out) \in Nat /\ out \in Seq(Nat)
        /\ read_buf = <<>> /\ Len(read_buf) = 0 /\ MaxLine \in Nat
    BY <1>0, RunShort DEF Echo!ClientAssumption, EchoTypes, Shapes
  <2>m. n \in Nat /\ n >= 1 /\ rcvo + n <= rcvi /\ \A k \in 1 .. n : rcvo + k \in 1 .. MaxLine
    BY <2>1, <2>2
  <2>3. AtBuf = Len(out) /\ AtOut = Len(out) /\ AtRcv = Len(out) + (rcvi - rcvo)
    BY <2>2 DEF AtOut, AtBuf, AtRcv
  <2> DEFINE s == [k \in 1 .. n |-> rcv[rcvo + k]]
  <2>4. s \in Seq(Nat) /\ Len(s) = n
    BY <2>2, <2>m, IsASeq
  <2>5. Run(s, 0 + Len(out))
    <3>1. ASSUME NEW k \in 1 .. n PROVE s[k] = 0 + Len(out) + k
      <4>1. rcvo + k \in rcvo + 1 .. rcvi
        BY <2>2, <2>m
      <4>2. rcv[rcvo + k] = AtBuf + (rcvo + k) - rcvo
        BY <1>0, <4>1 DEF ComesBack
      <4> QED
        BY <2>2, <2>3, <4>2
    <3> QED
      BY <2>4, <3>1 DEF Run
  <2> HIDE DEF s
  <2>6. out' \in Seq(Nat) /\ Len(out') = Len(out) + n /\ Run(out', 0)
    <3>1. out' = out \o s /\ Run(out, 0)
      BY <1>0, <2>1 DEF ComesBack, s
    <3> QED
      BY <2>2, <2>4, <2>5, <3>1, RunConcat
  <2>7. /\ rcvi' \in 0 .. MaxLine /\ rcvo' \in 0 .. MaxLine /\ rcvo' <= rcvi' /\ rcvi' - rcvo' = rcvi - rcvo - n
        /\ (rcvi' = rcvo') \/ (rcvi' = rcvi /\ rcvo' = rcvo + n)
    <3>1. CASE rcvo + n = rcvi
      BY <2>1, <2>2, <2>m, <3>1
    <3>2. CASE rcvo + n # rcvi
      BY <2>1, <2>2, <2>m, <3>2
    <3> QED
      BY <3>1, <3>2
  <2>t. rcvo' \in Nat /\ rcvi' \in Nat
    BY <2>2, <2>7
  <2>8. EchoTypes'
    BY <1>0, <1>1, <2>6, <2>7 DEF EchoTypes, Clientpc
  <2>9. AtOut' = Len(out) + n /\ AtBuf' = Len(out) + n /\ AtRcv' = AtRcv /\ AtCli' = AtCli
    <3>1. AtOut' = Len(out) + n /\ AtBuf' = Len(out) + n
      BY <1>1, <2>2, <2>6, <2>m DEF AtOut, AtBuf
    <3>2. AtRcv' = AtRcv
      <4>1. AtRcv' = Len(out) + n + (rcvi - rcvo - n)
        BY <2>7, <3>1 DEF AtRcv
      <4> QED
        BY <2>2, <2>3, <2>m, <4>1
    <3> QED
      BY <1>1, <3>1, <3>2 DEF AtCli
  <2>10. ComesBack'
    <3>1. ASSUME NEW k \in rcvo' + 1 .. rcvi' PROVE rcv'[k] = AtBuf' + k - rcvo'
      <4>1. rcvi' # rcvo' /\ k \in Int /\ rcvo' + 1 <= k /\ k <= rcvi'
        <5>1. PICK a \in Nat, b \in Nat : a = rcvo' /\ b = rcvi' /\ k \in a + 1 .. b
          BY <2>t
        <5>2. k \in Int /\ a + 1 <= k /\ k <= b /\ a # b
          BY <5>1, Between
        <5> QED
          BY <5>1, <5>2
      <4>2. rcvi' = rcvi /\ rcvo' = rcvo + n /\ k \in rcvo + 1 .. rcvi
        <5>1. rcvi' = rcvi /\ rcvo' = rcvo + n
          BY <2>7, <4>1
        <5> QED
          BY <2>2, <2>m, <4>1, <5>1
      <4>3. rcv[k] = AtBuf + k - rcvo
        BY <1>0, <4>2 DEF ComesBack
      <4> QED
        BY <1>1, <2>2, <2>3, <2>9, <2>m, <4>1, <4>2, <4>3
    <3>2. Run(read_buf', AtOut') /\ Run(toCli', AtRcv')
      <4>1. AtOut' \in Nat
        BY <2>2, <2>9, <2>m
      <4> QED
        BY <1>0, <1>1, <2>2, <2>9, <4>1, RunShort DEF ComesBack
    <3> QED
      BY <2>6, <3>1, <3>2 DEF ComesBack
  <2>11. GoesThere => GoesThere'
    BY <1>1, <2>9 DEF GoesThere, AtSrv, AtSock, AtSnd, Run
  <2> QED
    BY <1>1, <1>2, <2>8, <2>10, <2>11 DEF EchoInv
<1>4. CASE UNCHANGED <<out, rcvo, rcvi>>
  <2>1. EchoTypes'
    BY <1>0, <1>1, <1>4 DEF EchoTypes, Clientpc
  <2>2. ComesBack' /\ (GoesThere => GoesThere')
    BY <1>0, <1>1, <1>4, NothingMoves
  <2> QED
    BY <1>1, <1>2, <2>1, <2>2 DEF EchoInv
<1> QED
  BY <1>3, <1>4 DEF Echo!NbStdout

(* Its writing of sndbuf to the socket *)
LEMMA NbSockwStep ==
    Echo!ClientAssumption /\ EchoInv /\ kind = "nblk" /\ Echo!NbSockw /\ UNCHANGED <<kind, line, read_buf, Echo!two>>
      => EchoInv'
<1> SUFFICES ASSUME Echo!ClientAssumption, EchoInv, kind = "nblk", Echo!NbSockw, UNCHANGED <<kind, line, read_buf, Echo!two>>
             PROVE  EchoInv'
  OBVIOUS
<1>0. EchoTypes /\ Shapes /\ Ends /\ Echo!ErrorMeansKilled /\ ComesBack
  BY DEF EchoInv
<1>1. /\ UNCHANGED <<in, out, rset, stdineof, wset, snd, rcv, rcvo, rcvi>>
      /\ UNCHANGED <<kind, line, read_buf, reader, iseof>>
      /\ client = "sockw"
  BY DEF Echo!NbSockw, Echo!sel, Echo!two
<1>2. CASE /\ Echo!Waiting("sock") /\ client' = "select"
           /\ \E n \in 0 .. sndi - sndo : Echo!NbWrites(n)
  <2>1. PICK n \in 0 .. sndi - sndo : Echo!NbWrites(n)
    BY <1>2
  <2>2. /\ sndi \in 0 .. MaxLine /\ sndo \in 0 .. MaxLine /\ sndo < sndi /\ sndi \in Nat /\ sndo \in Nat
        /\ snd \in [1 .. MaxLine -> Nat] /\ Len(toSrv) \in Nat /\ toSrv \in Seq(Nat) /\ MaxLine \in Nat
    <3>1. sndo < sndi
      BY <1>2 DEF Echo!Waiting
    <3> QED
      BY <1>0, <3>1, RunShort DEF Echo!ClientAssumption, EchoTypes
  <2>m. n \in Nat /\ sndo + n <= sndi /\ \A k \in 1 .. n : sndo + k \in 1 .. MaxLine
    BY <2>1, <2>2
  <2> DEFINE s == [k \in 1 .. n |-> snd[sndo + k]]
  <2>3. s \in Seq(Nat) /\ Len(s) = n
    BY <2>2, <2>m, IsASeq
  <2>4. /\ UNCHANGED <<typed, srv, toCli, server>>
        /\ server = "up" => toSrv' = toSrv \o SubSeq(s, 1, n)
        /\ server # "up" => toSrv' = toSrv
        /\ \/ /\ sndo + n = sndi
              /\ sndo' = 0 /\ sndi' = 0 /\ fin' = (fin \/ stdineof)
           \/ sndo + n # sndi /\ sndo' = sndo + n /\ sndi' = sndi /\ fin' = fin
    BY <2>1 DEF Echo!NbWrites, Echo!Arrives
  <2>5. SubSeq(s, 1, n) = s
    BY <2>3, SubSeqFull
  <2>6. ~fin /\ server # "closed"
    BY <1>0, <2>2 DEF Ends
  <2> HIDE DEF s
  <2>7. toSrv' \in Seq(Nat)
    BY <2>2, <2>3, <2>4, <2>5, ConcatProperties
  <2>8. /\ sndi' \in 0 .. MaxLine /\ sndo' \in 0 .. MaxLine /\ sndo' <= sndi' /\ sndi' - sndo' = sndi - sndo - n
        /\ (sndi' = sndo') \/ (sndi' = sndi /\ sndo' = sndo + n)
    <3>1. CASE sndo + n = sndi
      BY <2>2, <2>4, <2>m, <3>1
    <3>2. CASE sndo + n # sndi
      BY <2>2, <2>4, <2>m, <3>2
    <3> QED
      BY <3>1, <3>2
  <2>9. fin' \in BOOLEAN /\ (fin' => stdineof /\ sndi' = sndo')
    BY <1>0, <2>4, <2>6 DEF EchoTypes
  <2>t. sndo' \in Nat /\ sndi' \in Nat
    BY <2>2, <2>8
  <2>10. EchoTypes'
    <3>1. client' \in Clientpc
      BY <1>2 DEF Clientpc
    <3> QED
      BY <1>0, <1>1, <2>4, <2>7, <2>8, <2>9, <3>1 DEF EchoTypes
  <2>11. Shapes' /\ LineByLine' /\ Finished' /\ Echo!ErrorMeansKilled'
    BY <1>0, <1>1, <1>2, <2>4 DEF Shapes, LineByLine, Finished, Echo!ErrorMeansKilled, Echo!Two
  <2>12. Ends'
    BY <1>0, <1>1, <1>2, <2>4, <2>6, <2>9 DEF Ends, Shapes
  <2>13. ComesBack' /\ AtSrv' = AtSrv /\ AtCli' = AtCli
    BY <1>0, <1>1, <2>4 DEF ComesBack, Run, AtOut, AtBuf, AtRcv, AtCli, AtSrv
  <2>14. ASSUME server' # "killed" PROVE GoesThere'
    <3>1. /\ server = "up" /\ GoesThere /\ AtSrv \in Nat /\ AtSock = AtSrv + Len(toSrv)
          /\ AtSnd = AtSock + (sndi - sndo) /\ AtSock \in Nat
      <4>1. server = "up" /\ GoesThere
        BY <1>0, <2>4, <2>6, <2>14 DEF EchoInv, EchoTypes
      <4>2. AtRcv \in Nat /\ Len(toCli) \in Nat /\ Len(srv) \in Nat
        BY <1>0, Lengths DEF AtOut, AtBuf, AtRcv
      <4> QED
        BY <2>2, <4>1, <4>2 DEF AtCli, AtSrv, AtSock, AtSnd
    <3>2. Run(s, AtSrv + Len(toSrv))
      <4>1. ASSUME NEW k \in 1 .. n PROVE s[k] = AtSrv + Len(toSrv) + k
        <5>1. sndo + k \in sndo + 1 .. sndi
          BY <2>2, <2>m
        <5>2. snd[sndo + k] = AtSock + (sndo + k) - sndo
          BY <3>1, <5>1 DEF GoesThere
        <5> QED
          BY <2>2, <3>1, <5>2 DEF s
      <4> QED
        BY <2>3, <4>1 DEF Run
    <3>3. toSrv' = toSrv \o s /\ Run(toSrv, AtSrv)
      BY <2>4, <2>5, <3>1 DEF GoesThere
    <3>4. Len(toSrv') = Len(toSrv) + n /\ Run(toSrv', AtSrv)
      BY <2>2, <2>3, <3>1, <3>2, <3>3, RunConcat
    <3>5. AtSock' = AtSock + n /\ AtSnd' = AtSnd
      <4>1. AtSock' = AtSock + n
        BY <2>2, <2>13, <2>m, <3>1, <3>4 DEF AtSock
      <4>2. AtSnd' = AtSock + n + (sndi - sndo - n)
        BY <2>8, <4>1 DEF AtSnd
      <4> QED
        BY <2>2, <2>m, <3>1, <4>1, <4>2
    <3>6. ASSUME NEW k \in sndo' + 1 .. sndi' PROVE snd'[k] = AtSock' + k - sndo'
      <4>1. sndi' # sndo' /\ k \in Int /\ sndo' + 1 <= k /\ k <= sndi'
        <5>1. PICK a \in Nat, b \in Nat : a = sndo' /\ b = sndi' /\ k \in a + 1 .. b
          BY <2>t
        <5>2. k \in Int /\ a + 1 <= k /\ k <= b /\ a # b
          BY <5>1, Between
        <5> QED
          BY <5>1, <5>2
      <4>2. sndi' = sndi /\ sndo' = sndo + n /\ k \in sndo + 1 .. sndi
        <5>1. sndi' = sndi /\ sndo' = sndo + n
          BY <2>8, <4>1
        <5> QED
          BY <2>2, <2>m, <4>1, <5>1
      <4>3. snd[k] = AtSock + k - sndo
        BY <3>1, <4>2 DEF GoesThere
      <4> QED
        BY <1>1, <2>2, <2>m, <3>1, <3>5, <4>1, <4>2, <4>3
    <3>7. Run(srv', AtCli') /\ Run(toSrv', AtSrv') /\ Run(line', AtSnd') /\ in' = AtSnd' + Len(line')
      BY <1>1, <2>4, <2>13, <3>1, <3>4, <3>5 DEF GoesThere
    <3> QED
      BY <3>6, <3>7 DEF GoesThere
  <2> QED
    BY <2>10, <2>11, <2>12, <2>13, <2>14 DEF EchoInv
<1>3. CASE Echo!Fails /\ UNCHANGED <<Echo!world, sndo, sndi, fin>>
  <2>1. client' = "error" /\ server = "killed" /\ UNCHANGED <<typed, toSrv, srv, toCli, server>>
    BY <1>3 DEF Echo!Fails, Echo!world
  <2>2. EchoTypes'
    BY <1>0, <1>1, <1>3, <2>1 DEF EchoTypes, Clientpc
  <2>3. Shapes' /\ Ends' /\ Finished' /\ Echo!ErrorMeansKilled'
    BY <1>0, <1>1, <1>3, <2>1 DEF Shapes, Ends, Finished, Echo!ErrorMeansKilled, Echo!Two
  <2>4. ComesBack'
    BY <1>0, <1>1, <1>3, <2>1, NothingMoves
  <2> QED
    BY <2>1, <2>2, <2>3, <2>4 DEF EchoInv
<1>4. CASE client' = "select" /\ UNCHANGED <<Echo!world, sndo, sndi, fin>>
  <2>1. UNCHANGED <<typed, toSrv, srv, toCli, server>>
    BY <1>4 DEF Echo!world
  <2>2. EchoTypes'
    BY <1>0, <1>1, <1>4, <2>1 DEF EchoTypes, Clientpc
  <2>3. Shapes' /\ Ends' /\ Finished' /\ Echo!ErrorMeansKilled' /\ LineByLine'
    BY <1>0, <1>1, <1>4, <2>1 DEF Shapes, Ends, Finished, Echo!ErrorMeansKilled, LineByLine,
       Echo!Two
  <2>4. ComesBack' /\ (GoesThere => GoesThere')
    BY <1>0, <1>1, <1>4, <2>1, NothingMoves
  <2> QED
    BY <2>1, <2>2, <2>3, <2>4 DEF EchoInv
<1> QED
  BY <1>2, <1>3, <1>4 DEF Echo!NbSockw

-----------------------------------------------------------------------------
(* Every step of the user, the server and the client. *)
LEMMA EchoKeeps == Echo!ClientAssumption /\ EchoInv /\ [Echo!Next]_echo => EchoInv'
<1> SUFFICES ASSUME Echo!ClientAssumption, EchoInv, [Echo!Next]_echo
             PROVE  EchoInv'
  OBVIOUS
<1>1. CASE Echo!Type \/ Echo!SrvStep \/ Echo!Killed
  BY <1>1, WorldStep
<1>2. CASE Echo!StrCli
  BY <1>2, StrCliStep
<1>3. CASE Echo!StrCli1
  BY <1>3, StrCli1Step
<1>4. CASE Echo!StrCli3
  BY <1>4, StrCli3Step
<1>5. CASE Echo!StrCliNblk
  <2>1. kind = "nblk" /\ UNCHANGED <<kind, line, read_buf, Echo!two>>
    BY <1>5 DEF Echo!StrCliNblk
  <2> QED
    BY <1>5, <2>1, NbSelectStep, NbStdinStep, NbSockStep, NbStdoutStep, NbSockwStep DEF
       Echo!StrCliNblk
<1>6. CASE Echo!Sender
  BY <1>6, SenderStep
<1>7. CASE Echo!Reader
  BY <1>7, ReaderStep
<1>8. CASE UNCHANGED echo
  <2>1. /\ UNCHANGED <<kind, typed, toSrv, srv, toCli, server, in, out, fin, client, line, read_buf>>
        /\ UNCHANGED <<rset, stdineof, wset, snd, sndo, sndi, rcv, rcvo, rcvi, reader, iseof>>
    BY <1>8 DEF echo, Echo!world, Echo!sel, Echo!nblk, Echo!two
  <2>2. EchoTypes /\ Shapes /\ Ends /\ ComesBack /\ Finished /\ Echo!ErrorMeansKilled
    BY DEF EchoInv
  <2>3. EchoTypes'
    BY <2>1, <2>2 DEF EchoTypes
  <2>4. Shapes' /\ Ends' /\ Finished' /\ Echo!ErrorMeansKilled' /\ (LineByLine => LineByLine')
    BY <2>1, <2>2 DEF Shapes, Ends, Finished, Echo!ErrorMeansKilled, LineByLine, AtOut,
       Echo!Readable
  <2>5. ComesBack' /\ (GoesThere => GoesThere')
    BY <2>1, <2>2, NothingMoves
  <2> QED
    BY <2>1, <2>3, <2>4, <2>5 DEF EchoInv
<1> QED
  BY <1>1, <1>2, <1>3, <1>4, <1>5, <1>6, <1>7, <1>8 DEF Echo!Next, Echo!ClientStep

(* What the invariant is for. *)
LEMMA EchoInvShows == EchoInv => Echo!OutputIsEcho /\ Echo!ErrorMeansKilled
<1> SUFFICES ASSUME EchoInv PROVE Echo!OutputIsEcho /\ Echo!ErrorMeansKilled
  OBVIOUS
<1>1. out \in Seq(Nat) /\ Run(out, 0) /\ Finished /\ Echo!ErrorMeansKilled
  BY DEF EchoInv, EchoTypes, ComesBack
<1>2. out = Echo!InSeq(1, Len(out))
  <2>1. PICK n \in Nat : n = Len(out)
    BY <1>1, LenProperties
  <2>2. out \in [1 .. n -> Nat] /\ \A k \in 1 .. n : out[k] = 0 + k
    BY <1>1, <2>1, LenProperties DEF Run
  <2>3. Echo!InSeq(1, n) = [k \in 1 .. n |-> k]
    <3>1. n - 1 + 1 = n /\ \A k \in 1 .. n : 1 + k - 1 = k
      OBVIOUS
    <3> QED
      BY <3>1 DEF Echo!InSeq
  <2> QED
    BY <2>1, <2>2, <2>3
<1> QED
  BY <1>1, <1>2 DEF Echo!OutputIsEcho, Finished, AtOut

-----------------------------------------------------------------------------
(* The datagram clients *)

(* Among the numbers of s that are not 0, none comes after a greater one.  *)
Ascending(s) == \A j, k \in DOMAIN s : j < k /\ s[j] # 0 /\ s[k] # 0 => s[j] < s[k]

(* Those of s are less than those of t. *)
Below(s, t) == \A j \in DOMAIN s, k \in DOMAIN t : s[j] # 0 /\ t[k] # 0 => s[j] < t[k]

(* How many lines the client may be ahead of an answer it has shown.       *)
Ahead == slips + (IF dg_client \in {"fgets", "done"} THEN 0 ELSE 1)

DgTypes ==
    /\ dg_in \in Nat /\ slips \in Nat
    /\ dg_out \in Seq(Nat) /\ toClient \in Seq(Nat) /\ toServer \in Seq(Nat)
    /\ dg_client \in {"fgets", "send", "alarm", "select", "recv", "done", "error"}

(* Whatever is lost and late, what was shown comes before what is on its   *)
(* way back, and that before what is on its way to the server.             *)
InOrder ==
    /\ Ascending(dg_out) /\ Ascending(toClient) /\ Ascending(toServer)
    /\ Below(dg_out, toClient) /\ Below(dg_out, toServer) /\ Below(toClient, toServer)

(* It is all of lines that were read, and none is the line to be sent.     *)
OfLines(s) == \A k \in DOMAIN s : s[k] <= dg_in /\ (dg_client = "send" => s[k] < dg_in)

DgInv ==
    /\ DgTypes /\ InOrder
    /\ OfLines(dg_out) /\ OfLines(toClient) /\ OfLines(toServer)
    /\ \A k \in DOMAIN toServer : toServer[k] # 0
    /\ dg_kind \in {"dg_cli1", "dg_cli2"} => \A k \in DOMAIN dg_out : dg_out[k] # 0
    /\ dg_kind = "dg_cli2" => \A k \in DOMAIN toClient : toClient[k] # 0
    /\ dg_client = "send" => dg_in > 0
    /\ \/ dg_in <= Ahead
       \/ \E k \in DOMAIN dg_out : dg_out[k] # 0 /\ dg_in <= dg_out[k] + Ahead

(* u is s without its p-th number. *)
Without(u, s, p) ==
    /\ u \in Seq(Nat)
    /\ \A j \in DOMAIN u : LET k == IF j < p THEN j ELSE j + 1 IN k \in DOMAIN s /\ u[j] = s[k]

(* Without its first one: what Tail returns. *)
LEMMA TailIs ==
    ASSUME NEW s \in Seq(Nat), s # <<>>
    PROVE  Without(Tail(s), s, 1) /\ 1 \in DOMAIN s /\ Head(s) = s[1] /\ Head(s) \in Nat
<1>1. Len(s) \in Nat \ {0} /\ DOMAIN s = 1 .. Len(s)
  BY LenProperties, EmptySeq
<1>2. /\ Tail(s) \in Seq(Nat) /\ Len(Tail(s)) = Len(s) - 1
      /\ \A p \in 1 .. Len(Tail(s)) : Tail(s)[p] = s[p + 1]
  BY HeadTailProperties
<1>3. DOMAIN Tail(s) = 1 .. Len(s) - 1
  BY <1>2, LenProperties
<1>4. Head(s) = s[1] /\ s[1] \in Nat
  BY <1>1, ElementOfSeq
<1> QED
  BY <1>1, <1>2, <1>3, <1>4 DEF Without

(* Without the p-th: what RemoveAt does. *)
LEMMA RemovedIs ==
    ASSUME NEW s \in Seq(Nat), NEW p \in DOMAIN s
    PROVE  Without(Dg!RemoveAt(s, p), s, p)
<1> DEFINE n == Len(s)
           a == SubSeq(s, 1, p - 1)
           b == SubSeq(s, p + 1, n)
<1>1. n \in Nat /\ DOMAIN s = 1 .. n /\ p \in 1 .. n
  BY LenProperties
<1>2. \A k \in 1 .. n : s[k] \in Nat
  BY <1>1, ElementOfSeq
<1>3. a \in Seq(Nat) /\ Len(a) = p - 1 /\ \A k \in 1 .. p - 1 : a[k] = s[k]
  <2>1. \A k \in 1 .. p - 1 : s[k] \in Nat
    BY <1>1, <1>2
  <2> QED
    BY <1>1, <2>1, SubSeqProperties
<1>4. b \in Seq(Nat) /\ Len(b) = n - p /\ \A k \in 1 .. n - p : b[k] = s[p + k]
  <2>1. \A k \in p + 1 .. n : s[k] \in Nat
    BY <1>1, <1>2
  <2>2. /\ b \in Seq(Nat) /\ Len(b) = (IF p + 1 <= n THEN n - (p + 1) + 1 ELSE 0)
        /\ \A k \in 1 .. n - (p + 1) + 1 : b[k] = s[(p + 1) + k - 1]
    BY <1>1, <2>1, SubSeqProperties
  <2> HIDE DEF b
  <2>3. ASSUME NEW k \in 1 .. n - p PROVE b[k] = s[p + k]
    <3>1. k \in 1 .. n - (p + 1) + 1 /\ (p + 1) + k - 1 = p + k
      BY <1>1
    <3> QED
      BY <2>2, <3>1
  <2>4. Len(b) = n - p
    BY <1>1, <2>2
  <2> QED
    BY <2>2, <2>3, <2>4
<1> HIDE DEF a, b, n
<1>5. /\ a \o b \in Seq(Nat) /\ Len(a \o b) = n - 1 /\ DOMAIN (a \o b) = 1 .. n - 1
      /\ \A k \in 1 .. n - 1 : (a \o b)[k] = IF k <= p - 1 THEN a[k] ELSE b[k - (p - 1)]
  <2>1. /\ a \o b \in Seq(Nat) /\ Len(a \o b) = Len(a) + Len(b)
        /\ \A k \in 1 .. Len(a) + Len(b) : (a \o b)[k] = IF k <= Len(a) THEN a[k] ELSE b[k - Len(a)]
    BY <1>3, <1>4, ConcatProperties
  <2>2. DOMAIN (a \o b) = 1 .. Len(a \o b) /\ Len(a) + Len(b) = n - 1
    BY <1>1, <1>3, <1>4, <2>1, LenProperties
  <2> QED
    BY <1>3, <2>1, <2>2
<1>6. ASSUME NEW k \in 1 .. n - 1
      PROVE  LET m == IF k < p THEN k ELSE k + 1 IN m \in 1 .. n /\ (a \o b)[k] = s[m]
  <2>1. CASE k < p
    <3>1. k \in 1 .. p - 1
      BY <1>1, <2>1
    <3> QED
      BY <1>1, <1>3, <1>5, <2>1, <3>1
  <2>2. CASE ~(k < p)
    <3>1. k - (p - 1) \in 1 .. n - p /\ p + (k - (p - 1)) = k + 1 /\ ~(k <= p - 1) /\ k + 1 \in 1 .. n
      BY <1>1, <2>2
    <3> QED
      BY <1>4, <1>5, <2>2, <3>1
  <2> QED
    BY <2>1, <2>2
<1>7. Dg!RemoveAt(s, p) = a \o b
  BY DEF Dg!RemoveAt, a, b, n
<1> QED
  BY <1>1, <1>5, <1>6, <1>7 DEF Without

(* To leave a number out keeps an order. *)
LEMMA WithoutKeeps ==
    ASSUME NEW s \in Seq(Nat), NEW p \in DOMAIN s, NEW u, Without(u, s, p)
    PROVE  /\ \A j \in DOMAIN u : \E k \in DOMAIN s : u[j] = s[k]
           /\ Ascending(s) => Ascending(u)
           /\ \A t : (Below(s, t) => Below(u, t)) /\ (Below(t, s) => Below(t, u))
<1>1. \A j \in DOMAIN u : \E k \in DOMAIN s : u[j] = s[k]
  BY DEF Without
<1>2. ASSUME Ascending(s) PROVE Ascending(u)
  <2>1. ASSUME NEW j \in DOMAIN u, NEW k \in DOMAIN u, j < k, u[j] # 0, u[k] # 0 PROVE u[j] < u[k]
    <3> DEFINE a == IF j < p THEN j ELSE j + 1
               b == IF k < p THEN k ELSE k + 1
    <3>1. a \in DOMAIN s /\ b \in DOMAIN s /\ u[j] = s[a] /\ u[k] = s[b]
      BY DEF Without
    <3>2. a < b
      <4>1. DOMAIN u = 1 .. Len(u) /\ DOMAIN s = 1 .. Len(s) /\ Len(u) \in Nat /\ Len(s) \in Nat
        BY LenProperties DEF Without
      <4>2. j \in Nat /\ k \in Nat /\ p \in Nat
        BY <4>1
      <4> QED
        BY <2>1, <4>2
    <3> QED
      BY <1>2, <2>1, <3>1, <3>2 DEF Ascending
  <2> QED
    BY <2>1 DEF Ascending
<1> QED
  BY <1>1, <1>2 DEF Below

(* One more at the end. *)
LEMMA AppendIs ==
    ASSUME NEW s \in Seq(Nat), NEW x \in Nat
    PROVE  LET u == Append(s, x)
           IN  /\ u \in Seq(Nat) /\ DOMAIN u = DOMAIN s \union {Len(s) + 1}
               /\ Len(s) + 1 \notin DOMAIN s /\ \A k \in DOMAIN s : k < Len(s) + 1 /\ ~(Len(s) + 1 < k)
               /\ u[Len(s) + 1] = x /\ \A k \in DOMAIN s : u[k] = s[k]
<1>1. Len(s) \in Nat /\ DOMAIN s = 1 .. Len(s)
  BY LenProperties
<1>2. /\ Append(s, x) \in Seq(Nat) /\ Len(Append(s, x)) = Len(s) + 1
      /\ \A k \in 1 .. Len(s) : Append(s, x)[k] = s[k]
      /\ Append(s, x)[Len(s) + 1] = x
  BY AppendProperties
<1>3. DOMAIN Append(s, x) = 1 .. Len(s) + 1
  BY <1>2, LenProperties
<1> QED
  BY <1>1, <1>2, <1>3

(* It keeps an order, if no other is as great. *)
LEMMA AppendKeeps ==
    ASSUME NEW s \in Seq(Nat), NEW x \in Nat
    PROVE  LET u == Append(s, x)
           IN  /\ Ascending(s) /\ (\A k \in DOMAIN s : s[k] # 0 /\ x # 0 => s[k] < x) => Ascending(u)
               /\ \A t : Below(s, t) /\ (\A k \in DOMAIN t : t[k] # 0 /\ x # 0 => x < t[k]) => Below(u, t)
               /\ \A t : Below(t, s) /\ (\A k \in DOMAIN t : t[k] # 0 /\ x # 0 => t[k] < x) => Below(t, u)
<1> DEFINE u == Append(s, x)
           n == Len(s) + 1
<1>1. /\ u \in Seq(Nat) /\ DOMAIN u = DOMAIN s \union {n}
      /\ n \notin DOMAIN s /\ \A k \in DOMAIN s : k < n /\ ~(n < k)
      /\ u[n] = x /\ \A k \in DOMAIN s : u[k] = s[k]
  BY AppendIs
<1>2. ~(n < n)
  <2>1. Len(s) \in Nat
    BY LenProperties
  <2> QED
    BY <2>1
<1> HIDE DEF u, n
<1>3. /\ Ascending(s) /\ (\A k \in DOMAIN s : s[k] # 0 /\ x # 0 => s[k] < x) => Ascending(u)
      /\ \A t : Below(s, t) /\ (\A k \in DOMAIN t : t[k] # 0 /\ x # 0 => x < t[k]) => Below(u, t)
      /\ \A t : Below(t, s) /\ (\A k \in DOMAIN t : t[k] # 0 /\ x # 0 => t[k] < x) => Below(t, u)
  BY <1>1, <1>2 DEF Ascending, Below
<1> QED
  BY <1>3 DEF u

(* A datagram on its way to the server is gone, or all is as it was. *)
LEMMA LessToServer ==
    ASSUME DgInv, NEW p \in DOMAIN toServer, Without(toServer', toServer, p),
           UNCHANGED <<dg_kind, dg_in, dg_out, toClient, dg_client, slips>>
    PROVE  DgInv'
<1>1. toServer \in Seq(Nat) /\ toServer' \in Seq(Nat)
  BY DEF DgInv, DgTypes, Without
<1>2. /\ \A j \in DOMAIN toServer' : \E k \in DOMAIN toServer : toServer'[j] = toServer[k]
      /\ Ascending(toServer) => Ascending(toServer')
      /\ \A t : (Below(toServer, t) => Below(toServer', t)) /\ (Below(t, toServer) => Below(t, toServer'))
  BY <1>1, WithoutKeeps
<1>3. InOrder'
  BY <1>2 DEF DgInv, InOrder
<1>4. OfLines(toServer)' /\ \A k \in DOMAIN toServer' : toServer'[k] # 0
  BY <1>2 DEF DgInv, OfLines
<1> QED
  BY <1>1, <1>3, <1>4 DEF DgInv, DgTypes, OfLines, Ahead

(* The server answers. *)
LEMMA AnswerStep == ASSUME DgInv, Dg!Answer PROVE DgInv'
<1> DEFINE h == Head(toServer)
<1>t. DgTypes /\ InOrder /\ toServer \in Seq(Nat) /\ toClient \in Seq(Nat) /\ toServer # <<>>
  BY DEF DgInv, DgTypes, Dg!Answer
<1>1. /\ toClient' = Append(toClient, h) /\ toServer' = Tail(toServer)
      /\ UNCHANGED <<dg_kind, dg_in, dg_out, dg_client, slips>>
  BY DEF Dg!Answer
<1>2. Without(toServer', toServer, 1) /\ 1 \in DOMAIN toServer /\ h = toServer[1] /\ h \in Nat
  BY <1>t, <1>1, TailIs
<1>3. /\ toServer' \in Seq(Nat)
      /\ \A j \in DOMAIN toServer' : \E k \in DOMAIN toServer : toServer'[j] = toServer[k]
      /\ Ascending(toServer) => Ascending(toServer')
      /\ \A t : (Below(toServer, t) => Below(toServer', t)) /\ (Below(t, toServer) => Below(t, toServer'))
  BY <1>t, <1>2, WithoutKeeps DEF Without
<1>4. \A k \in DOMAIN toServer' : h < toServer'[k]
  <2>1. ASSUME NEW k \in DOMAIN toServer' PROVE h < toServer'[k]
    <3>1. k + 1 \in DOMAIN toServer /\ toServer'[k] = toServer[k + 1] /\ 1 < k + 1
      <4>1. k \in Nat /\ k >= 1
        BY <1>3, LenProperties
      <4> QED
        BY <1>2, <4>1 DEF Without
    <3>2. toServer[1] # 0 /\ toServer[k + 1] # 0
      BY <1>2, <3>1 DEF DgInv
    <3> QED
      BY <1>t, <1>2, <3>1, <3>2 DEF InOrder, Ascending
  <2> QED
    BY <2>1
<1>5. /\ h # 0 /\ h <= dg_in /\ (dg_client = "send" => h < dg_in)
      /\ \A k \in DOMAIN toClient : toClient[k] # 0 => toClient[k] < h
      /\ \A k \in DOMAIN dg_out : dg_out[k] # 0 => dg_out[k] < h
  BY <1>t, <1>2 DEF DgInv, InOrder, OfLines, Below
<1>6. /\ toClient' \in Seq(Nat) /\ DOMAIN toClient' = DOMAIN toClient \union {Len(toClient) + 1}
      /\ toClient'[Len(toClient) + 1] = h /\ \A k \in DOMAIN toClient : toClient'[k] = toClient[k]
  BY <1>t, <1>1, <1>2, AppendIs
<1>7. /\ Ascending(toClient) /\ (\A k \in DOMAIN toClient : toClient[k] # 0 /\ h # 0 => toClient[k] < h) => Ascending(toClient')
      /\ \A t : Below(toClient, t) /\ (\A k \in DOMAIN t : t[k] # 0 /\ h # 0 => h < t[k]) => Below(toClient', t)
      /\ \A t : Below(t, toClient) /\ (\A k \in DOMAIN t : t[k] # 0 /\ h # 0 => t[k] < h) => Below(t, toClient')
  BY <1>t, <1>1, <1>2, AppendKeeps
<1> HIDE DEF h
<1>8. InOrder'
  <2>1. Ascending(dg_out)' /\ Ascending(toServer)' /\ Below(dg_out, toServer)'
    BY <1>t, <1>1, <1>3 DEF InOrder
  <2>2. Below(dg_out, toClient)' /\ Ascending(toClient)'
    BY <1>t, <1>1, <1>5, <1>7 DEF InOrder
  <2>3. Below(toClient, toServer)'
    BY <1>t, <1>3, <1>4, <1>7 DEF InOrder
  <2> QED
    BY <2>1, <2>2, <2>3 DEF InOrder
<1>9. /\ OfLines(dg_out)' /\ OfLines(toClient)' /\ OfLines(toServer)'
      /\ \A k \in DOMAIN toServer' : toServer'[k] # 0
      /\ dg_kind' = "dg_cli2" => \A k \in DOMAIN toClient' : toClient'[k] # 0
  BY <1>1, <1>3, <1>5, <1>6 DEF DgInv, OfLines
<1>10. DgTypes'
  BY <1>t, <1>1, <1>3, <1>6 DEF DgTypes
<1> QED
  BY <1>1, <1>8, <1>9, <1>10 DEF DgInv, Ahead

(* A datagram on its way to the server is lost, or refused. *)
LEMMA LossStep == ASSUME DgInv, Dg!Lose \/ Dg!Unreachable PROVE DgInv'
<1>1. toServer \in Seq(Nat)
  BY DEF DgInv, DgTypes
<1>2. CASE Dg!Lose
  <2>1. PICK p \in DOMAIN toServer : toServer' = Dg!RemoveAt(toServer, p)
    BY <1>2 DEF Dg!Lose
  <2> QED
    BY <1>1, <1>2, <2>1, RemovedIs, LessToServer DEF Dg!Lose
<1>3. CASE Dg!Unreachable
  BY <1>1, <1>3, TailIs, LessToServer DEF Dg!Unreachable
<1> QED
  BY <1>2, <1>3

(* A stranger sends. *)
LEMMA StrayStep == ASSUME DgInv, Dg!Stray PROVE DgInv'
<1>t. DgTypes /\ InOrder /\ toClient \in Seq(Nat)
  BY DEF DgInv, DgTypes
<1>1. /\ toClient' = Append(toClient, 0) /\ dg_kind # "dg_cli2" /\ dg_in > 0
      /\ UNCHANGED <<dg_kind, dg_in, dg_out, toServer, dg_client, slips>>
  BY DEF Dg!Stray
<1>2. /\ toClient' \in Seq(Nat) /\ DOMAIN toClient' = DOMAIN toClient \union {Len(toClient) + 1}
      /\ toClient'[Len(toClient) + 1] = 0 /\ \A k \in DOMAIN toClient : toClient'[k] = toClient[k]
  BY <1>t, <1>1, AppendIs
<1>3. /\ Ascending(toClient) => Ascending(toClient')
      /\ \A t : (Below(toClient, t) => Below(toClient', t)) /\ (Below(t, toClient) => Below(t, toClient'))
  <2>1. /\ Ascending(toClient) /\ (\A k \in DOMAIN toClient : toClient[k] # 0 /\ 0 # 0 => toClient[k] < 0) => Ascending(toClient')
        /\ \A t : Below(toClient, t) /\ (\A k \in DOMAIN t : t[k] # 0 /\ 0 # 0 => 0 < t[k]) => Below(toClient', t)
        /\ \A t : Below(t, toClient) /\ (\A k \in DOMAIN t : t[k] # 0 /\ 0 # 0 => t[k] < 0) => Below(t, toClient')
    BY <1>t, <1>1, AppendKeeps
  <2> QED
    BY <2>1
<1>4. InOrder'
  BY <1>t, <1>1, <1>3 DEF InOrder
<1>5. OfLines(dg_out)' /\ OfLines(toClient)' /\ OfLines(toServer)'
  BY <1>t, <1>1, <1>2 DEF DgInv, DgTypes, OfLines
<1> QED
  BY <1>t, <1>1, <1>2, <1>4, <1>5 DEF DgInv, DgTypes, Ahead

(* A line is read, or the end of the input. *)
LEMMA DgFgetsStep == ASSUME DgInv, Dg!Fgets PROVE DgInv'
<1>t. DgTypes /\ dg_out \in Seq(Nat) /\ toServer \in Seq(Nat) /\ toClient \in Seq(Nat) /\ dg_in \in Nat /\ slips \in Nat
  BY DEF DgInv, DgTypes
<1>1. /\ dg_client = "fgets"
      /\ \/ dg_client' = "send" /\ dg_in' = dg_in + 1
         \/ dg_client' = "done" /\ dg_in' = dg_in
      /\ UNCHANGED <<dg_kind, dg_out, toServer, toClient, slips>>
  <2>1. CASE dg_in < Datagrams
    BY <1>t, <2>1 DEF Dg!Fgets, Dg!Goto, Dg!net
  <2>2. CASE ~(dg_in < Datagrams)
    BY <2>2 DEF Dg!Fgets, Dg!Goto, Dg!net
  <2> QED
    BY <2>1, <2>2
<1>2. DgTypes' /\ InOrder'
  BY <1>t, <1>1 DEF DgInv, DgTypes, InOrder
<1>3. ASSUME NEW s \in Seq(Nat), OfLines(s)
      PROVE  \A k \in DOMAIN s : s[k] <= dg_in' /\ (dg_client' = "send" => s[k] < dg_in')
  <2>1. \A k \in DOMAIN s : s[k] \in Nat /\ s[k] <= dg_in
    BY <1>3, LenProperties, ElementOfSeq DEF OfLines
  <2> QED
    BY <1>t, <1>1, <2>1
<1>4. OfLines(dg_out)' /\ OfLines(toClient)' /\ OfLines(toServer)'
  BY <1>t, <1>1, <1>3 DEF DgInv, OfLines
<1>5. Ahead = slips /\ (dg_client' = "send" => Ahead' = slips + 1) /\ (dg_client' = "done" => Ahead' = slips)
  BY <1>t, <1>1 DEF Ahead
<1>6. \A k \in DOMAIN dg_out : dg_out[k] \in Nat
  BY <1>t, LenProperties, ElementOfSeq
<1>7. \/ dg_in' <= Ahead'
      \/ \E k \in DOMAIN dg_out' : dg_out'[k] # 0 /\ dg_in' <= dg_out'[k] + Ahead'
  BY <1>t, <1>1, <1>5, <1>6 DEF DgInv
<1> QED
  BY <1>t, <1>1, <1>2, <1>4, <1>7 DEF DgInv

(* A line is sent. *)
LEMMA SendStep == ASSUME DgInv, NEW to \in {"recv", "alarm", "select"}, Dg!Send(to) PROVE DgInv'
<1>t. /\ DgTypes /\ InOrder /\ toServer \in Seq(Nat) /\ dg_in \in Nat
      /\ OfLines(dg_out) /\ OfLines(toClient) /\ OfLines(toServer)
  BY DEF DgInv, DgTypes
<1>1. /\ dg_client = "send" /\ dg_client' = to /\ toServer' = Append(toServer, dg_in)
      /\ UNCHANGED <<dg_kind, dg_in, dg_out, toClient, slips>>
  BY DEF Dg!Send, Dg!Goto
<1>2. /\ toServer' \in Seq(Nat) /\ DOMAIN toServer' = DOMAIN toServer \union {Len(toServer) + 1}
      /\ toServer'[Len(toServer) + 1] = dg_in /\ \A k \in DOMAIN toServer : toServer'[k] = toServer[k]
  BY <1>t, <1>1, AppendIs
<1>3. /\ Ascending(toServer) /\ (\A k \in DOMAIN toServer : toServer[k] # 0 /\ dg_in # 0 => toServer[k] < dg_in) => Ascending(toServer')
      /\ \A t : Below(t, toServer) /\ (\A k \in DOMAIN t : t[k] # 0 /\ dg_in # 0 => t[k] < dg_in) => Below(t, toServer')
  BY <1>t, <1>1, AppendKeeps
<1>4. InOrder'
  BY <1>t, <1>1, <1>3 DEF InOrder, OfLines
<1>5. OfLines(dg_out)' /\ OfLines(toClient)' /\ OfLines(toServer)'
  BY <1>t, <1>1, <1>2 DEF OfLines
<1>6. DgTypes' /\ Ahead' = Ahead /\ dg_in > 0
  BY <1>t, <1>1, <1>2 DEF DgInv, DgTypes, Ahead
<1> QED
  BY <1>t, <1>1, <1>2, <1>4, <1>5, <1>6 DEF DgInv

(* recvfrom() returns a datagram, which is shown, ... *)
LEMMA RecvStep ==
    ASSUME DgInv, Dg!Recv, dg_kind = "dg_cli1" => Head(toClient) # 0
    PROVE  DgInv'
<1> DEFINE h == Head(toClient)
           n == Len(dg_out) + 1
<1>t. /\ DgTypes /\ InOrder /\ toClient \in Seq(Nat) /\ dg_out \in Seq(Nat) /\ toClient # <<>>
      /\ dg_in \in Nat /\ slips \in Nat /\ OfLines(dg_out) /\ OfLines(toClient) /\ OfLines(toServer)
  BY DEF DgInv, DgTypes, Dg!Recv
<1>1. /\ dg_client = "recv" /\ dg_client' = "fgets" /\ dg_out' = Append(dg_out, h)
      /\ toClient' = Tail(toClient) /\ slips' = slips + (IF h = 0 THEN 1 ELSE 0)
      /\ UNCHANGED <<dg_kind, dg_in, toServer>>
  BY DEF Dg!Recv, Dg!Goto
<1>2. Without(toClient', toClient, 1) /\ 1 \in DOMAIN toClient /\ h = toClient[1] /\ h \in Nat
  BY <1>t, <1>1, TailIs
<1>3. /\ toClient' \in Seq(Nat)
      /\ \A j \in DOMAIN toClient' : \E k \in DOMAIN toClient : toClient'[j] = toClient[k]
      /\ Ascending(toClient) => Ascending(toClient')
      /\ \A t : (Below(toClient, t) => Below(toClient', t)) /\ (Below(t, toClient) => Below(t, toClient'))
  BY <1>t, <1>2, WithoutKeeps DEF Without
<1>4. \A k \in DOMAIN toClient' : toClient'[k] # 0 /\ h # 0 => h < toClient'[k]
  <2>1. ASSUME NEW k \in DOMAIN toClient', toClient'[k] # 0, h # 0 PROVE h < toClient'[k]
    <3>1. k + 1 \in DOMAIN toClient /\ toClient'[k] = toClient[k + 1] /\ 1 < k + 1
      <4>1. k \in Nat /\ k >= 1
        BY <1>3, LenProperties
      <4> QED
        BY <1>2, <4>1 DEF Without
    <3> QED
      BY <1>t, <1>2, <2>1, <3>1 DEF InOrder, Ascending
  <2> QED
    BY <2>1
<1>5. /\ h <= dg_in
      /\ \A k \in DOMAIN toServer : toServer[k] # 0 /\ h # 0 => h < toServer[k]
      /\ \A k \in DOMAIN dg_out : dg_out[k] # 0 /\ h # 0 => dg_out[k] < h
      /\ dg_kind \in {"dg_cli1", "dg_cli2"} => h # 0
  BY <1>t, <1>2 DEF DgInv, InOrder, OfLines, Below
<1>6. /\ dg_out' \in Seq(Nat) /\ DOMAIN dg_out' = DOMAIN dg_out \union {n}
      /\ dg_out'[n] = h /\ \A k \in DOMAIN dg_out : dg_out'[k] = dg_out[k]
  BY <1>t, <1>1, <1>2, AppendIs
<1>7. /\ Ascending(dg_out) /\ (\A k \in DOMAIN dg_out : dg_out[k] # 0 /\ h # 0 => dg_out[k] < h) => Ascending(dg_out')
      /\ \A t : Below(dg_out, t) /\ (\A k \in DOMAIN t : t[k] # 0 /\ h # 0 => h < t[k]) => Below(dg_out', t)
  BY <1>t, <1>1, <1>2, AppendKeeps
<1>8. \A k \in DOMAIN dg_out : dg_out[k] \in Nat
  BY <1>t, LenProperties, ElementOfSeq
<1> HIDE DEF h, n
<1>9. InOrder'
  <2>1. Ascending(toServer)' /\ Ascending(toClient)' /\ Below(toClient, toServer)'
    BY <1>t, <1>1, <1>3 DEF InOrder
  <2>2. Ascending(dg_out)' /\ Below(dg_out, toServer)'
    BY <1>t, <1>1, <1>5, <1>7 DEF InOrder
  <2>3. Below(dg_out, toClient)'
    BY <1>t, <1>3, <1>4, <1>7 DEF InOrder
  <2> QED
    BY <2>1, <2>2, <2>3 DEF InOrder
<1>10. OfLines(dg_out)' /\ OfLines(toClient)' /\ OfLines(toServer)'
  BY <1>t, <1>1, <1>3, <1>5, <1>6 DEF OfLines
<1>11. DgTypes'
  BY <1>t, <1>1, <1>3, <1>6 DEF DgTypes
<1>12. \/ dg_in' <= Ahead'
       \/ \E k \in DOMAIN dg_out' : dg_out'[k] # 0 /\ dg_in' <= dg_out'[k] + Ahead'
  <2>1. Ahead = slips + 1 /\ Ahead' = slips'
    BY <1>1 DEF Ahead
  <2>2. CASE h = 0
    <3>1. Ahead' = Ahead
      BY <1>1, <2>1, <2>2
    <3> QED
      BY <1>1, <1>6, <3>1 DEF DgInv
  <2>3. CASE h # 0 /\ dg_in <= Ahead
    <3>1. dg_in <= h + slips
      BY <1>t, <1>2, <2>1, <2>3
    <3> QED
      BY <1>t, <1>1, <1>6, <2>1, <2>3, <3>1
  <2>4. ASSUME h # 0, NEW k \in DOMAIN dg_out, dg_out[k] # 0, dg_in <= dg_out[k] + Ahead
        PROVE  \E j \in DOMAIN dg_out' : dg_out'[j] # 0 /\ dg_in' <= dg_out'[j] + Ahead'
    <3>1. dg_in <= h + slips
      BY <1>t, <1>2, <1>5, <1>8, <2>1, <2>4
    <3> QED
      BY <1>t, <1>1, <1>6, <2>1, <2>4, <3>1
  <2> QED
    BY <2>2, <2>3, <2>4 DEF DgInv
<1>13. /\ \A k \in DOMAIN toServer' : toServer'[k] # 0
       /\ dg_kind' \in {"dg_cli1", "dg_cli2"} => \A k \in DOMAIN dg_out' : dg_out'[k] # 0
       /\ dg_kind' = "dg_cli2" => \A k \in DOMAIN toClient' : toClient'[k] # 0
  BY <1>1, <1>3, <1>5, <1>6 DEF DgInv
<1> QED
  BY <1>1, <1>9, <1>10, <1>11, <1>12, <1>13 DEF DgInv

(* ... or, if it is a stranger's and dg_cli1() looks, is not; or there is  *)
(* none in time.  A line is given up.                                      *)
LEMMA GivenUp ==
    ASSUME DgInv, dg_client' = "fgets", slips' = slips + 1,
           toClient' = toClient \/ (toClient # <<>> /\ toClient' = Tail(toClient)),
           UNCHANGED <<dg_kind, dg_in, dg_out, toServer>>
    PROVE  DgInv'
<1>t. DgTypes /\ InOrder /\ toClient \in Seq(Nat) /\ dg_out \in Seq(Nat) /\ dg_in \in Nat /\ slips \in Nat
  BY DEF DgInv, DgTypes
<1>1. /\ toClient' \in Seq(Nat)
      /\ \A j \in DOMAIN toClient' : \E k \in DOMAIN toClient : toClient'[j] = toClient[k]
      /\ Ascending(toClient')
      /\ \A t : (Below(toClient, t) => Below(toClient', t)) /\ (Below(t, toClient) => Below(t, toClient'))
  <2>1. CASE toClient' = toClient
    BY <1>t, <2>1 DEF InOrder
  <2>2. CASE toClient # <<>> /\ toClient' = Tail(toClient)
    <3>1. Without(toClient', toClient, 1) /\ 1 \in DOMAIN toClient
      BY <1>t, <2>2, TailIs
    <3> QED
      BY <1>t, <3>1, WithoutKeeps DEF InOrder, Without
  <2> QED
    BY <2>1, <2>2
<1>2. InOrder'
  BY <1>t, <1>1 DEF InOrder
<1>3. OfLines(dg_out)' /\ OfLines(toClient)' /\ OfLines(toServer)'
  BY <1>1 DEF DgInv, OfLines
<1>4. \A k \in DOMAIN dg_out : dg_out[k] \in Nat
  BY <1>t, LenProperties, ElementOfSeq
<1>5. Ahead' = slips + 1 /\ Ahead <= slips + 1 /\ Ahead \in Nat
  BY <1>t DEF Ahead
<1>6. \/ dg_in' <= Ahead'
      \/ \E k \in DOMAIN dg_out' : dg_out'[k] # 0 /\ dg_in' <= dg_out'[k] + Ahead'
  BY <1>t, <1>4, <1>5 DEF DgInv
<1>7. DgTypes'
  BY <1>t, <1>1 DEF DgTypes
<1> QED
  BY <1>1, <1>2, <1>3, <1>6, <1>7 DEF DgInv

(* The client goes on to wait, or stops with an error. *)
LEMMA MoveStep ==
    ASSUME DgInv, dg_client \notin {"fgets", "done"} \/ dg_client' = dg_client,
           dg_client' \in {"recv", "error"} \/ dg_client' = dg_client,
           UNCHANGED <<dg_kind, dg_in, dg_out, toServer, toClient, slips>>
    PROVE  DgInv'
<1>1. Ahead' = Ahead /\ DgTypes' /\ InOrder'
  BY DEF DgInv, DgTypes, InOrder, Ahead
<1>2. OfLines(dg_out)' /\ OfLines(toClient)' /\ OfLines(toServer)'
  BY DEF DgInv, OfLines
<1> QED
  BY <1>1, <1>2 DEF DgInv

(* Every step of the datagram clients and what is around them.             *)
LEMMA DgKeeps == DgInv /\ [Dg!Next]_dg => DgInv'
<1> SUFFICES ASSUME DgInv, [Dg!Next]_dg PROVE DgInv'
  OBVIOUS
<1>1. CASE Dg!Answer \/ Dg!Lose \/ Dg!Unreachable \/ Dg!Stray
  BY <1>1, AnswerStep, LossStep, StrayStep
<1>2. CASE Dg!SigAlrmTooEarly \/ UNCHANGED dg
  BY <1>2, MoveStep DEF Dg!SigAlrmTooEarly, Dg!net, dg
<1>3. ASSUME Dg!Timeout("recv") \/ Dg!Timeout("select") PROVE DgInv'
  BY <1>3, GivenUp DEF Dg!Timeout, Dg!Goto, Dg!net
<1>4. CASE Dg!DgCli
  BY <1>4, DgFgetsStep, SendStep, RecvStep DEF Dg!DgCli
<1>5. CASE Dg!DgClit0
  <2>1. CASE Dg!Fgets \/ Dg!Send("alarm") \/ Dg!Recv \/ Dg!Timeout("recv")
    BY <1>3, <1>5, <2>1, DgFgetsStep, SendStep, RecvStep DEF Dg!DgClit0
  <2>2. CASE Dg!Goto("alarm", "recv") /\ UNCHANGED <<dg_kind, dg_in, dg_out, toServer, toClient, slips>>
    BY <2>2, MoveStep DEF Dg!Goto
  <2> QED
    BY <1>5, <2>1, <2>2 DEF Dg!DgClit0, Dg!net
<1>6. CASE Dg!DgClit1
  <2>1. CASE Dg!Fgets \/ Dg!Send("select") \/ Dg!Recv \/ Dg!Timeout("select")
    BY <1>3, <1>6, <2>1, DgFgetsStep, SendStep, RecvStep DEF Dg!DgClit1
  <2>2. CASE Dg!Goto("select", "recv") /\ UNCHANGED <<dg_kind, dg_in, dg_out, toServer, toClient, slips>>
    BY <2>2, MoveStep DEF Dg!Goto
  <2> QED
    BY <1>6, <2>1, <2>2 DEF Dg!DgClit1, Dg!net
<1>7. CASE Dg!DgClit2
  BY <1>3, <1>7, DgFgetsStep, SendStep, RecvStep DEF Dg!DgClit2
<1>8. CASE Dg!DgCli1
  <2>1. CASE Dg!Fgets \/ Dg!Send("recv") \/ (Dg!Recv /\ Head(toClient) # 0)
    BY <1>8, <2>1, DgFgetsStep, SendStep, RecvStep DEF Dg!DgCli1
  <2>2. CASE /\ Dg!Goto("recv", "fgets") /\ toClient # <<>> /\ toClient' = Tail(toClient)
             /\ slips' = slips + 1 /\ UNCHANGED <<dg_kind, dg_in, dg_out, toServer>>
    BY <2>2, GivenUp DEF Dg!Goto
  <2> QED
    BY <1>8, <2>1, <2>2 DEF Dg!DgCli1
<1>9. CASE Dg!DgCli2
  <2>1. CASE Dg!Fgets \/ Dg!Send("recv") \/ Dg!Recv
    BY <1>9, <2>1, DgFgetsStep, SendStep, RecvStep DEF Dg!DgCli2
  <2>2. CASE /\ dg_client \in {"send", "recv"} /\ dg_client' = "error"
             /\ UNCHANGED <<dg_kind, dg_in, dg_out, toServer, toClient, slips>>
    BY <2>2, MoveStep
  <2> QED
    BY <1>9, <2>1, <2>2 DEF Dg!DgCli2, Dg!net
<1> QED
  BY <1>1, <1>2, <1>4, <1>5, <1>6, <1>7, <1>8, <1>9 DEF Dg!Next, Dg!ClientStep

(* The client starts with nothing read, shown or under way.               *)
LEMMA DgInit == Dg!Init => DgInv
<1> SUFFICES ASSUME Dg!Init PROVE DgInv
  OBVIOUS
<1>1. /\ dg_in = 0 /\ slips = 0 /\ dg_client = "fgets"
      /\ dg_out = <<>> /\ toClient = <<>> /\ toServer = <<>>
  BY DEF Dg!Init
<1>2. <<>> \in Seq(Nat) /\ DOMAIN <<>> = {}
  BY EmptySeq
<1>3. Ahead = 0
  BY <1>1 DEF Ahead
<1> QED
  BY <1>1, <1>2, <1>3 DEF DgInv, DgTypes, InOrder, Ascending, Below, OfLines

(* What the invariant is for. *)
LEMMA DgInvShows == DgInv => Dg!AnswersInStep
<1> SUFFICES ASSUME DgInv PROVE Dg!AnswersInStep
  OBVIOUS
<1>1. dg_client \in {"fgets", "done"} => Ahead = slips
  BY DEF DgInv, DgTypes, Ahead
<1> QED
  BY <1>1 DEF DgInv, InOrder, Ascending, OfLines, Dg!AnswersInStep

-----------------------------------------------------------------------------
(* The containers.  swim() and sink() are loops, recursive functions in    *)
(* Containers.tla, and first have to be shown to exist.                    *)

(* A run of a loop from x: its states, until one at which it stops. *)
LoopRun(X, Stop, Nx, x, n, r) ==
    /\ n \in Nat /\ r \in [0 .. n -> X] /\ r[0] = x /\ r[n] \in Stop
    /\ \A k \in 0 .. n - 1 : r[k] \notin Stop /\ r[k + 1] = Nx[r[k]]

LoopEnds(X, Y, Stop, Nx, Out, x) ==
    {y \in Y : \E n \in Nat, r \in UNION {[0 .. m -> X] : m \in Nat} : LoopRun(X, Stop, Nx, x, n, r) /\ y = Out[r[n]]}

PickOne(S) == CHOOSE y : y \in S

(* There is a function that calls itself last, on the next state of a loop. *)
Looping(X, Stop, Nx, Out) ==
    \E g : g = [x \in X |-> IF x \in Stop THEN Out[x] ELSE g[Nx[x]]]

(* Such a function there is for every loop, even one that does not end. *)
LEMMA LoopFunction ==
    ASSUME NEW X, NEW Y, NEW Stop \in SUBSET X, NEW Nx \in [X -> X], NEW Out \in [X -> Y]
    PROVE  Looping(X, Stop, Nx, Out)
<1> DEFINE Stops(x) == LoopEnds(X, Y, Stop, Nx, Out, x)
           Runs == UNION {[0 .. m -> X] : m \in Nat}
<1>1. ASSUME NEW x \in X, x \in Stop PROVE Stops(x) = {Out[x]}
  <2>1. ASSUME NEW n \in Nat, NEW r, LoopRun(X, Stop, Nx, x, n, r) PROVE r[n] = x
    <3>1. n = 0
      <4>1. SUFFICES ASSUME n # 0 PROVE FALSE
        OBVIOUS
      <4>2. 0 \in 0 .. n - 1
        BY <4>1
      <4> QED
        BY <1>1, <2>1, <4>2 DEF LoopRun
    <3> QED
      BY <2>1, <3>1 DEF LoopRun
  <2> DEFINE r == [k \in 0 .. 0 |-> x]
  <2>2. r \in [0 .. 0 -> X] /\ r[0] = x
    BY <1>1
  <2>3. r \in Runs
    BY <2>2
  <2> HIDE DEF r
  <2>4. LoopRun(X, Stop, Nx, x, 0, r)
    BY <1>1, <2>2 DEF LoopRun
  <2>5. Out[x] \in Stops(x)
    BY <1>1, <2>2, <2>3, <2>4 DEF LoopEnds
  <2>6. \A y \in Stops(x) : y = Out[x]
    BY <2>1 DEF LoopEnds
  <2> QED
    BY <2>5, <2>6
<1>2. ASSUME NEW x \in X, x \notin Stop PROVE Stops(x) = Stops(Nx[x])
  <2>1. ASSUME NEW y \in Stops(x) PROVE y \in Stops(Nx[x])
    <3>1. PICK n \in Nat, r \in Runs : LoopRun(X, Stop, Nx, x, n, r) /\ y = Out[r[n]]
      BY DEF LoopEnds
    <3>2. n # 0 /\ n - 1 \in Nat
      BY <1>2, <3>1 DEF LoopRun
    <3> DEFINE s == [k \in 0 .. n - 1 |-> r[k + 1]]
    <3>3. s \in [0 .. n - 1 -> X]
      BY <3>1, <3>2 DEF LoopRun
    <3>4. s[0] = Nx[x] /\ s[n - 1] = r[n]
      BY <3>1, <3>2 DEF LoopRun
    <3>5. \A k \in 0 .. n - 2 : s[k] \notin Stop /\ s[k + 1] = Nx[s[k]]
      <4>1. SUFFICES ASSUME NEW k \in 0 .. n - 2 PROVE s[k] \notin Stop /\ s[k + 1] = Nx[s[k]]
        OBVIOUS
      <4>2. k \in 0 .. n - 1 /\ k + 1 \in 0 .. n - 1
        BY <3>2
      <4>3. s[k] = r[k + 1] /\ s[k + 1] = r[k + 1 + 1]
        BY <4>2
      <4> QED
        BY <3>1, <4>2, <4>3 DEF LoopRun
    <3> HIDE DEF s
    <3>6. LoopRun(X, Stop, Nx, Nx[x], n - 1, s)
      BY <3>1, <3>2, <3>3, <3>4, <3>5 DEF LoopRun
    <3>7. s \in Runs
      BY <3>2, <3>3
    <3> QED
      BY <3>1, <3>2, <3>4, <3>6, <3>7 DEF LoopEnds
  <2>2. ASSUME NEW y \in Stops(Nx[x]) PROVE y \in Stops(x)
    <3>1. PICK n \in Nat, r \in Runs : LoopRun(X, Stop, Nx, Nx[x], n, r) /\ y = Out[r[n]]
      BY DEF LoopEnds
    <3> DEFINE s == [k \in 0 .. n + 1 |-> IF k = 0 THEN x ELSE r[k - 1]]
    <3>3. s \in [0 .. n + 1 -> X]
      BY <3>1 DEF LoopRun
    <3>4. s[0] = x /\ s[n + 1] = r[n] /\ n + 1 \in Nat
      <4>1. n + 1 # 0 /\ n + 1 - 1 = n /\ 0 \in 0 .. n + 1 /\ n + 1 \in 0 .. n + 1
        OBVIOUS
      <4> QED
        BY <4>1
    <3>5. \A k \in 0 .. n : s[k] \notin Stop /\ s[k + 1] = Nx[s[k]]
      <4>1. SUFFICES ASSUME NEW k \in 0 .. n PROVE s[k] \notin Stop /\ s[k + 1] = Nx[s[k]]
        OBVIOUS
      <4>2. CASE k = 0
        BY <1>2, <3>1, <4>2 DEF LoopRun
      <4>3. CASE k # 0
        <5>1. k - 1 \in 0 .. n - 1 /\ s[k] = r[k - 1] /\ s[k + 1] = r[k - 1 + 1]
          BY <4>3
        <5> QED
          BY <3>1, <5>1 DEF LoopRun
      <4> QED
        BY <4>2, <4>3
    <3> HIDE DEF s
    <3>6. LoopRun(X, Stop, Nx, x, n + 1, s)
      BY <3>1, <3>3, <3>4, <3>5 DEF LoopRun
    <3>7. s \in Runs
      BY <3>4, <3>3
    <3> QED
      BY <3>1, <3>4, <3>6, <3>7 DEF LoopEnds
  <2> QED
    BY <2>1, <2>2
<1> DEFINE g == [x \in X |-> PickOne(Stops(x))]
<1> HIDE DEF Stops
<1>3. ASSUME NEW x \in X PROVE g[x] = IF x \in Stop THEN Out[x] ELSE g[Nx[x]]
  <2>1. CASE x \in Stop
    BY <1>1, <2>1 DEF PickOne
  <2>2. CASE x \notin Stop
    <3>1. g[x] = PickOne(Stops(x)) /\ g[Nx[x]] = PickOne(Stops(Nx[x]))
      OBVIOUS
    <3> QED
      BY <1>2, <2>2, <3>1
  <2> QED
    BY <2>1, <2>2
<1>4. g = [x \in X |-> g[x]]
  OBVIOUS
<1> HIDE DEF g
<1>5. g = [x \in X |-> IF x \in Stop THEN Out[x] ELSE g[Nx[x]]]
  BY <1>3, <1>4
<1> QED
  BY <1>5 DEF Looping

-----------------------------------------------------------------------------
(* u is s with v put in behind b values. *)
Placed(u, s, v, b) ==
    /\ u \in Seq(Values) /\ Len(u) = Len(s) + 1
    /\ \A k \in 1 .. b : u[k] = s[k]
    /\ u[b + 1] = v
    /\ \A k \in b + 1 .. Len(s) : u[k + 1] = s[k]

(* That is what Insert makes from two pieces. *)
LEMMA InsertIs ==
    ASSUME NEW s \in Seq(Values), NEW v \in Values, NEW b \in 0 .. Len(s)
    PROVE  Placed(SubSeq(s, 1, b) \o <<v>> \o SubSeq(s, b + 1, Len(s)), s, v, b)
<1> DEFINE p == SubSeq(s, 1, b)
           q == SubSeq(s, b + 1, Len(s))
<1>1. Len(s) \in Nat /\ b \in Nat /\ b <= Len(s) /\ \A k \in 1 .. Len(s) : s[k] \in Values
  BY LenProperties, ElementOfSeq
<1>2. p \in Seq(Values) /\ Len(p) = b /\ \A k \in 1 .. b : p[k] = s[k]
  <2>1. 1 \in Int /\ b \in Int /\ (IF 1 <= b THEN b - 1 + 1 ELSE 0) = b /\ \A k \in 1 .. b : 1 + k - 1 = k
    BY <1>1
  <2>2. \A k \in 1 .. b : s[k] \in Values
    BY <1>1
  <2> QED
    BY <2>1, <2>2, SubSeqProperties
<1>3. q \in Seq(Values) /\ Len(q) = Len(s) - b /\ \A k \in 1 .. Len(s) - b : q[k] = s[b + k]
  <2>1. PICK m \in Int, l \in Int : m = b + 1 /\ l = Len(s)
    BY <1>1
  <2>2. \A k \in m .. l : s[k] \in Values
    BY <1>1, <2>1
  <2>3. /\ SubSeq(s, m, l) \in Seq(Values) /\ Len(SubSeq(s, m, l)) = IF m <= l THEN l - m + 1 ELSE 0
        /\ \A k \in 1 .. l - m + 1 : SubSeq(s, m, l)[k] = s[m + k - 1]
    BY <2>2, SubSeqProperties
  <2>4. l - m + 1 = Len(s) - b /\ (IF m <= l THEN l - m + 1 ELSE 0) = Len(s) - b
    BY <1>1, <2>1
  <2>5. \A k \in 1 .. Len(s) - b : m + k - 1 = b + k
    BY <1>1, <2>1
  <2> QED
    BY <2>1, <2>3, <2>4, <2>5
<1> HIDE DEF p, q
<1>4. <<v>> \in Seq(Values) /\ Len(<<v>>) = 1 /\ <<v>>[1] = v
  OBVIOUS
<1>5. PICK w : w = <<v>>
  OBVIOUS
<1>6. /\ p \o w \in Seq(Values) /\ Len(p \o w) = b + 1
      /\ \A k \in 1 .. b + 1 : (p \o w)[k] = IF k <= b THEN p[k] ELSE w[k - b]
  BY <1>2, <1>4, <1>5, ConcatProperties
<1>7. PICK x : x = p \o w
  OBVIOUS
<1>8. x \in Seq(Values) /\ Len(x) = b + 1 /\ (\A k \in 1 .. b : x[k] = s[k]) /\ x[b + 1] = v
  BY <1>1, <1>2, <1>4, <1>5, <1>6, <1>7
<1>9. /\ x \o q \in Seq(Values) /\ Len(x \o q) = Len(s) + 1
      /\ \A k \in 1 .. Len(s) + 1 : (x \o q)[k] = IF k <= b + 1 THEN x[k] ELSE q[k - (b + 1)]
  <2>1. Len(x) + Len(q) = Len(s) + 1
    BY <1>1, <1>3, <1>8
  <2>2. /\ x \o q \in Seq(Values) /\ Len(x \o q) = Len(x) + Len(q)
        /\ \A k \in 1 .. Len(x) + Len(q) : (x \o q)[k] = IF k <= Len(x) THEN x[k] ELSE q[k - Len(x)]
    BY <1>3, <1>8, ConcatProperties
  <2> QED
    BY <1>8, <2>1, <2>2
<1>10. /\ \A k \in 1 .. b : (x \o q)[k] = s[k]
       /\ (x \o q)[b + 1] = v
       /\ \A k \in b + 1 .. Len(s) : (x \o q)[k + 1] = s[k]
  <2>1. ASSUME NEW k \in b + 1 .. Len(s) PROVE (x \o q)[k + 1] = s[k]
    <3>1. k + 1 \in 1 .. Len(s) + 1 /\ ~(k + 1 <= b + 1) /\ k - b \in 1 .. Len(s) - b
          /\ (k + 1) - (b + 1) = k - b /\ b + (k - b) = k
      BY <1>1
    <3> QED
      BY <1>3, <1>9, <3>1
  <2> QED
    BY <1>1, <1>8, <1>9, <2>1
<1> QED
  BY <1>5, <1>7, <1>9, <1>10 DEF p, q, Placed

(* The first value taken away. *)
LEMMA TailOfValues ==
    ASSUME NEW s \in Seq(Values), s # <<>>
    PROVE  /\ Tail(s) \in Seq(Values) /\ Len(s) \in Nat \ {0} /\ Len(Tail(s)) = Len(s) - 1
           /\ Head(s) = s[1] /\ s[1] \in Values
           /\ \A k \in 1 .. Len(s) - 1 : Tail(s)[k] = s[k + 1]
<1>1. Len(s) \in Nat \ {0} /\ DOMAIN s = 1 .. Len(s)
  BY LenProperties, EmptySeq
<1>2. /\ Tail(s) \in Seq(Values) /\ Len(Tail(s)) = Len(s) - 1
      /\ \A p \in 1 .. Len(Tail(s)) : Tail(s)[p] = s[p + 1]
  BY HeadTailProperties
<1>3. s[1] \in Values /\ Head(s) = s[1]
  BY <1>1, ElementOfSeq
<1> QED
  BY <1>1, <1>2, <1>3

(* An empty sequence has length 0, and no other. *)
LEMMA EmptyIs == \A s \in Seq(Values) : Len(s) \in Nat /\ (s = <<>> <=> Len(s) = 0)
BY EmptySeq, LenProperties

(* One turn of a ring, or none. *)
LEMMA ModIs ==
    ASSUME NEW n \in Nat \ {0}, NEW x \in 0 .. 2 * n - 1
    PROVE  x % n = IF x < n THEN x ELSE x - n
<1> DEFINE d == x \div n
           r == x % n
<1>1. d \in Int /\ r \in 0 .. n - 1 /\ x = n * d + r
  OBVIOUS
<1> HIDE DEF d, r
<1>2. d = 0 \/ d = 1
  <2>1. CASE d >= 2
    <3>1. n * d >= n * 2
      BY <1>1, <2>1
    <3> QED
      BY <1>1, <3>1
  <2>2. CASE d <= -1
    <3>1. n * d <= n * (-1)
      BY <1>1, <2>2
    <3> QED
      BY <1>1, <3>1
  <2> QED
    BY <1>1, <2>1, <2>2
<1> QED
  BY <1>1, <1>2 DEF r

-----------------------------------------------------------------------------
(* Where the k-th value of the ring is. *)
RingAt(k) == LET p == c.iget + k - 1 IN IF p < c.nmem THEN p ELSE p - c.nmem

(* The ring holds the contents from iget on, and its size tells how many. *)
RingInv ==
    /\ c \in [arr : [0 .. InitialSize -> Cont!Elements], iput : 0 .. InitialSize, iget : 0 .. InitialSize,
              nmem : {InitialSize + 1}]
    /\ Len(contents) = Cont!ArrqSize(c)
    /\ \A k \in 1 .. Len(contents) : c.arr[RingAt(k)] = contents[k]

Arrays == UNION {[0 .. n - 1 -> Cont!Elements] : n \in Nat}

(* The stack has its values below iput, the first to leave on top. *)
StackInv ==
    /\ c \in [arr : Arrays, iget : Int, iput : Nat, nmem : Nat \ {0}]
    /\ DOMAIN c.arr = 0 .. c.nmem - 1
    /\ c.iput = Len(contents) /\ c.iget = c.iput - 1 /\ c.iput <= c.nmem
    /\ \A k \in 1 .. Len(contents) : c.arr[c.iput - k] = contents[k]

(* What the call shows agrees. *)
Answers == ret = should /\ contents \in Seq(Values)

(* A queue takes a value in behind the others. *)
LEMMA InsertLast ==
    ASSUME contents \in Seq(Values), NEW v \in Values, container \in {"array_queue", "list_queue"}
    PROVE  Placed(Cont!Insert(v), contents, v, Len(contents))
<1>1. Len(contents) \in 0 .. Len(contents)
  BY LenProperties
<1> QED
  BY <1>1, InsertIs DEF Cont!Insert

(* A stack takes it in before the others. *)
LEMMA InsertFirst ==
    ASSUME contents \in Seq(Values), NEW v \in Values, container = "array_stack"
    PROVE  Placed(Cont!Insert(v), contents, v, 0)
<1>1. 0 \in 0 .. Len(contents)
  BY LenProperties
<1> QED
  BY <1>1, InsertIs DEF Cont!Insert

(* The ring is full or empty when the sequence is. *)
LEMMA RingSize ==
    ASSUME Cont!ContainerAssumption, RingInv, Answers
    PROVE  /\ Cont!ArrqFull(c) <=> Len(contents) = InitialSize
           /\ Cont!ArrqEmpty(c) <=> contents = <<>>
           /\ (c.iput + 1) % c.nmem = IF c.iput = InitialSize THEN 0 ELSE c.iput + 1
           /\ (c.iget + 1) % c.nmem = IF c.iget = InitialSize THEN 0 ELSE c.iget + 1
           /\ Len(contents) \in 0 .. InitialSize
           /\ c.iput = RingAt(Len(contents) + 1)
<1>1. /\ InitialSize \in Nat \ {0} /\ c.iput \in 0 .. InitialSize /\ c.iget \in 0 .. InitialSize
      /\ c.nmem = InitialSize + 1
  BY DEF Cont!ContainerAssumption, RingInv
<1>2. /\ (c.iput + 1) % c.nmem = IF c.iput = InitialSize THEN 0 ELSE c.iput + 1
      /\ (c.iget + 1) % c.nmem = IF c.iget = InitialSize THEN 0 ELSE c.iget + 1
  <2>1. ASSUME NEW p \in 0 .. InitialSize
        PROVE  (p + 1) % (InitialSize + 1) = IF p = InitialSize THEN 0 ELSE p + 1
    <3>1. InitialSize + 1 \in Nat \ {0} /\ p + 1 \in 0 .. 2 * (InitialSize + 1) - 1
      BY <1>1
    <3>2. (p + 1) % (InitialSize + 1) = IF p + 1 < InitialSize + 1 THEN p + 1 ELSE p + 1 - (InitialSize + 1)
      BY <3>1, ModIs
    <3> QED
      BY <1>1, <3>2
  <2> QED
    BY <1>1, <2>1
<1>3. Len(contents) = IF c.iput >= c.iget THEN c.iput - c.iget ELSE c.nmem - (c.iget - c.iput)
  BY DEF RingInv, Cont!ArrqSize
<1>4. Len(contents) \in Nat /\ (contents = <<>> <=> Len(contents) = 0)
  BY EmptyIs DEF Answers
<1>5. PICK p \in 0 .. InitialSize, g \in 0 .. InitialSize, n \in Nat :
          p = c.iput /\ g = c.iget /\ n = Len(contents)
  BY <1>1, <1>4
<1>6. n = (IF p >= g THEN p - g ELSE InitialSize + 1 - (g - p)) /\ InitialSize \in Nat \ {0}
  <2>1. n = IF p >= g THEN p - g ELSE c.nmem - (g - p)
    BY <1>3, <1>5, Zenon
  <2>2. PICK N \in Nat : N = c.nmem /\ N = InitialSize + 1 /\ InitialSize \in Nat \ {0}
    BY <1>1
  <2>3. n = IF p >= g THEN p - g ELSE N - (g - p)
    BY <2>1, <2>2, Zenon
  <2> QED
    BY <2>2, <2>3
<1>7. /\ (IF p = InitialSize THEN 0 ELSE p + 1) = g <=> n = InitialSize
      /\ g = p <=> n = 0
      /\ n \in 0 .. InitialSize
      /\ p = IF g + (n + 1) - 1 < InitialSize + 1 THEN g + (n + 1) - 1 ELSE g + (n + 1) - 1 - (InitialSize + 1)
  BY <1>6
<1>8. Cont!ArrqFull(c) <=> Len(contents) = InitialSize
  BY <1>2, <1>5, <1>7 DEF Cont!ArrqFull
<1>9. c.iput = RingAt(Len(contents) + 1)
  BY <1>1, <1>5, <1>7 DEF RingAt
<1> QED
  BY <1>2, <1>4, <1>5, <1>7, <1>8, <1>9 DEF Cont!ArrqEmpty

(* arrq_enqueue(): the value goes to iput, or there is no room. *)
LEMMA RingPush ==
    ASSUME Cont!ContainerAssumption, RingInv, Answers, NEW v \in Values, container = "array_queue",
           Cont!Push(v)
    PROVE  RingInv' /\ Answers'
<1>1. /\ Len(contents) = InitialSize => c' = c /\ ret' = Failed /\ should' = Failed /\ contents' = contents
      /\ Len(contents) # InitialSize =>
             /\ c' = [c EXCEPT !.arr[c.iput] = v, !.iput = (@ + 1) % c.nmem]
             /\ ret' = Null /\ should' = Null /\ Placed(contents', contents, v, Len(contents))
      /\ InitialSize' = InitialSize
  <2>1. Cont!Call(Cont!ArrqEnqueue(c, v))
    BY DEF Cont!Push, Cont!PushTo
  <2> QED
    BY <2>1, RingSize, InsertLast
    DEF Cont!Push, Cont!Call, Cont!ArrqEnqueue, Cont!Done, Cont!Full, Answers
<1>2. CASE Len(contents) = InitialSize
  BY <1>1, <1>2 DEF RingInv, Answers, RingAt
<1>3. CASE Len(contents) # InitialSize
  <2> DEFINE n == Len(contents)
  <2>1. /\ InitialSize \in Nat \ {0} /\ c.iput \in 0 .. InitialSize /\ c.iget \in 0 .. InitialSize
        /\ c.nmem = InitialSize + 1 /\ n \in 0 .. InitialSize - 1 /\ v \in Cont!Elements
        /\ c.arr \in [0 .. InitialSize -> Cont!Elements]
    BY <1>3, RingSize DEF Cont!ContainerAssumption, RingInv, Cont!Elements
  <2>2. /\ c'.iput = IF c.iput = InitialSize THEN 0 ELSE c.iput + 1
        /\ c'.iget = c.iget /\ c'.nmem = c.nmem
        /\ c'.arr = [c.arr EXCEPT ![c.iput] = v]
        /\ c' = [arr |-> c'.arr, iput |-> c'.iput, iget |-> c'.iget, nmem |-> c'.nmem]
    BY <1>1, <1>3, RingSize DEF RingInv
  <2>3. c' \in [arr : [0 .. InitialSize -> Cont!Elements], iput : 0 .. InitialSize, iget : 0 .. InitialSize,
                nmem : {InitialSize + 1}]
    BY <2>1, <2>2
  <2>4. Len(contents') = Cont!ArrqSize(c')
    <3>1. Len(contents') = n + 1
      BY <1>1, <1>3 DEF Placed
    <3>2. n = IF c.iput >= c.iget THEN c.iput - c.iget ELSE c.nmem - (c.iget - c.iput)
      BY DEF RingInv, Cont!ArrqSize
    <3>3. PICK p \in 0 .. InitialSize, g \in 0 .. InitialSize, l \in 0 .. InitialSize - 1 :
              p = c.iput /\ g = c.iget /\ l = n
      BY <2>1
    <3>4. l = IF p >= g THEN p - g ELSE InitialSize + 1 - (g - p)
      <4>1. PICK N \in Nat : N = c.nmem /\ N = InitialSize + 1
        BY <2>1
      <4>2. l = IF p >= g THEN p - g ELSE N - (g - p)
        BY <3>2, <3>3, <4>1, Zenon
      <4>3. c.nmem = InitialSize + 1 /\ n = Len(contents)
        BY <2>1
      <4> QED
        BY <2>1, <4>1, <4>2
    <3>5. LET q == IF p = InitialSize THEN 0 ELSE p + 1
          IN  l + 1 = IF q >= g THEN q - g ELSE InitialSize + 1 - (g - q)
      BY <2>1, <3>4
    <3> QED
      BY <2>1, <2>2, <3>1, <3>3, <3>5 DEF Cont!ArrqSize
  <2>5. ASSUME NEW k \in 1 .. n + 1 PROVE c'.arr[RingAt(k)'] = contents'[k]
    <3>1. RingAt(k)' = RingAt(k) /\ RingAt(k) \in 0 .. InitialSize
      BY <2>1, <2>2 DEF RingAt
    <3>2. CASE k = n + 1
      BY <1>1, <1>3, <2>1, <2>2, <3>1, <3>2, RingSize DEF Placed
    <3>3. CASE k \in 1 .. n
      <4>1. RingAt(k) # c.iput
        <5>1. c.iput = RingAt(n + 1)
          BY RingSize
        <5> QED
          BY <2>1, <3>3, <5>1 DEF RingAt
      <4>2. c.arr[RingAt(k)] = contents[k] /\ contents'[k] = contents[k]
        BY <1>1, <1>3, <3>3 DEF RingInv, Placed
      <4> QED
        BY <2>1, <2>2, <3>1, <4>1, <4>2
    <3> QED
      BY <2>1, <3>2, <3>3
  <2> QED
    BY <1>1, <1>3, <2>3, <2>4, <2>5 DEF RingInv, Answers, Placed
<1> QED
  BY <1>2, <1>3

(* arrq_dequeue(): the value at iget leaves. *)
LEMMA RingPop ==
    ASSUME Cont!ContainerAssumption, RingInv, Answers, container = "array_queue", Cont!Pop
    PROVE  RingInv' /\ Answers'
<1> DEFINE n == Len(contents)
<1>1. /\ contents = <<>> => c' = c /\ ret' = Failed /\ should' = Failed /\ contents' = contents
      /\ contents # <<>> =>
             /\ c' = [c EXCEPT !.iget = (@ + 1) % c.nmem]
             /\ ret' = c.arr[c.iget] /\ should' = Head(contents) /\ contents' = Tail(contents)
  <2>1. Cont!Call(Cont!ArrqDequeue(c))
    BY DEF Cont!Pop, Cont!PopFrom
  <2> QED
    BY <2>1, RingSize DEF Cont!Pop, Cont!Call, Cont!ArrqDequeue, Cont!Done
<1>2. CASE contents = <<>>
  BY <1>1, <1>2 DEF RingInv, Answers, RingAt
<1>3. CASE contents # <<>>
  <2>0. /\ contents' \in Seq(Values) /\ n \in Nat \ {0} /\ Len(contents') = n - 1
        /\ Head(contents) = contents[1] /\ \A k \in 1 .. n - 1 : contents'[k] = contents[k + 1]
    BY <1>1, <1>3, TailOfValues DEF Answers
  <2>1. /\ InitialSize \in Nat \ {0} /\ c.iput \in 0 .. InitialSize /\ c.iget \in 0 .. InitialSize
        /\ c.nmem = InitialSize + 1 /\ n \in 1 .. InitialSize
        /\ c.arr \in [0 .. InitialSize -> Cont!Elements]
    BY <2>0, RingSize DEF Cont!ContainerAssumption, RingInv
  <2>2. /\ c'.iget = IF c.iget = InitialSize THEN 0 ELSE c.iget + 1
        /\ c'.iput = c.iput /\ c'.nmem = c.nmem /\ c'.arr = c.arr
        /\ c' = [arr |-> c'.arr, iput |-> c'.iput, iget |-> c'.iget, nmem |-> c'.nmem]
    BY <1>1, <1>3, RingSize DEF RingInv
  <2>3. c' \in [arr : [0 .. InitialSize -> Cont!Elements], iput : 0 .. InitialSize, iget : 0 .. InitialSize,
                nmem : {InitialSize + 1}]
    BY <2>1, <2>2
  <2>4. Len(contents') = Cont!ArrqSize(c')
    <3>2. n = IF c.iput >= c.iget THEN c.iput - c.iget ELSE c.nmem - (c.iget - c.iput)
      BY DEF RingInv, Cont!ArrqSize
    <3> QED
      BY <2>0, <2>1, <2>2, <3>2 DEF Cont!ArrqSize
  <2>5. ASSUME NEW k \in 1 .. n - 1 PROVE c'.arr[RingAt(k)'] = contents'[k]
    <3>1. RingAt(k)' = RingAt(k + 1)
      BY <2>1, <2>2 DEF RingAt
    <3>2. k + 1 \in 1 .. n
      BY <2>1
    <3> QED
      BY <2>0, <2>2, <3>1, <3>2 DEF RingInv
  <2>6. ret' = should'
    <3>1. RingAt(1) = c.iget /\ 1 \in 1 .. n
      BY <2>1 DEF RingAt
    <3> QED
      BY <1>1, <1>3, <2>0, <3>1 DEF RingInv
  <2> QED
    BY <2>0, <2>3, <2>4, <2>5, <2>6 DEF RingInv, Answers
<1> QED
  BY <1>2, <1>3

-----------------------------------------------------------------------------
(* The stack: what realloc() keeps. *)
LEMMA ResizeIs ==
    ASSUME NEW s, NEW n \in Nat, NEW m \in Nat \ {0},
           s.arr \in [0 .. n - 1 -> Cont!Elements], s = [arr |-> s.arr, iget |-> s.iget, iput |-> s.iput, nmem |-> s.nmem]
    PROVE  LET r == Cont!Resize(s, m)
           IN  /\ r.arr \in [0 .. m - 1 -> Cont!Elements] /\ r.iget = s.iget /\ r.iput = s.iput /\ r.nmem = m
               /\ r = [arr |-> r.arr, iget |-> r.iget, iput |-> r.iput, nmem |-> r.nmem]
               /\ \A k \in 0 .. m - 1 : k <= n - 1 => r.arr[k] = s.arr[k]
<1>1. Garbage \in Cont!Elements
  BY DEF Cont!Elements
<1> DEFINE a == [k \in 0 .. m - 1 |-> IF k \in DOMAIN s.arr THEN s.arr[k] ELSE Garbage]
<1>2. a \in [0 .. m - 1 -> Cont!Elements] /\ \A k \in 0 .. m - 1 : k <= n - 1 => a[k] = s.arr[k]
  BY <1>1
<1> HIDE DEF a
<1>3. Cont!Resize(s, m) = [s EXCEPT !.arr = a, !.nmem = m]
  BY DEF Cont!Resize, a
<1>4. Cont!Resize(s, m) = [arr |-> a, iget |-> s.iget, iput |-> s.iput, nmem |-> m]
  BY <1>3
<1> QED
  BY <1>2, <1>4

(* What the stack's record is. *)
LEMMA StackFields ==
    ASSUME StackInv, Answers
    PROVE  /\ c.nmem \in Nat \ {0} /\ c.iput \in Nat /\ c.iput <= c.nmem /\ c.iget = c.iput - 1
           /\ Len(contents) = c.iput
           /\ c.arr \in [0 .. c.nmem - 1 -> Cont!Elements]
           /\ c = [arr |-> c.arr, iget |-> c.iget, iput |-> c.iput, nmem |-> c.nmem]
           /\ contents = <<>> <=> c.iput = 0
<1>1. PICK n \in Nat : c.arr \in [0 .. n - 1 -> Cont!Elements]
  BY DEF StackInv, Arrays
<1>2. c.arr \in [0 .. c.nmem - 1 -> Cont!Elements]
  BY <1>1 DEF StackInv
<1>3. contents = <<>> <=> Len(contents) = 0
  BY EmptyIs DEF Answers
<1> QED
  BY <1>2, <1>3 DEF StackInv

(* arrstack_push(), with twice the memory when it is full. *)
LEMMA StackPush ==
    ASSUME Cont!ContainerAssumption, StackInv, Answers, NEW v \in Values, container = "array_stack",
           Cont!Push(v)
    PROVE  StackInv' /\ Answers'
<1> DEFINE room == IF c.iput >= c.nmem THEN Cont!Resize(c, c.nmem * 2) ELSE c
           n == c.iput
<1>1. /\ c' = [room EXCEPT !.arr[c.iput] = v, !.iput = @ + 1, !.iget = @ + 1]
      /\ ret' = Null /\ should' = Null /\ Placed(contents', contents, v, 0)
  <2>1. Cont!Call(Cont!ArrstackPush(c, v)) /\ ~Cont!Full
    BY DEF Cont!Push, Cont!PushTo
  <2> QED
    BY <2>1, InsertFirst DEF Cont!Push, Cont!Call, Cont!ArrstackPush, Cont!ArrstackSize, Cont!Done, Answers
<1>2. PICK m \in Nat : m > n /\ m >= c.nmem /\ room.arr \in [0 .. m - 1 -> Cont!Elements] /\ room.nmem = m
      /\ room.iget = n - 1 /\ room.iput = n
      /\ room = [arr |-> room.arr, iget |-> room.iget, iput |-> room.iput, nmem |-> room.nmem]
      /\ \A k \in 0 .. n - 1 : room.arr[k] = c.arr[k]
  <2>1. CASE c.iput >= c.nmem
    <3>1. c.nmem * 2 \in Nat \ {0} /\ c.nmem * 2 > n /\ c.nmem * 2 >= c.nmem /\ n = c.nmem
      BY <2>1, StackFields
    <3> DEFINE m == c.nmem * 2
               r == Cont!Resize(c, m)
    <3>2. /\ r.arr \in [0 .. m - 1 -> Cont!Elements] /\ r.iget = c.iget /\ r.iput = c.iput /\ r.nmem = m
          /\ r = [arr |-> r.arr, iget |-> r.iget, iput |-> r.iput, nmem |-> r.nmem]
          /\ \A k \in 0 .. m - 1 : k <= c.nmem - 1 => r.arr[k] = c.arr[k]
      BY <3>1, StackFields, ResizeIs
    <3>3. \A k \in 0 .. n - 1 : k \in 0 .. m - 1 /\ k <= c.nmem - 1
      BY <3>1, StackFields
    <3>4. room = r
      BY <2>1
    <3> HIDE DEF m, r, room
    <3> QED
      BY <3>1, <3>2, <3>3, <3>4, StackFields DEF m
  <2>2. CASE ~(c.iput >= c.nmem)
    BY <2>2, StackFields
  <2> QED
    BY <2>1, <2>2
<1> HIDE DEF room
<1>3. /\ c'.iput = n + 1 /\ c'.iget = n /\ c'.nmem = m /\ c'.arr = [room.arr EXCEPT ![n] = v]
      /\ c' = [arr |-> c'.arr, iget |-> c'.iget, iput |-> c'.iput, nmem |-> c'.nmem]
  <2>1. n \in Nat /\ n - 1 + 1 = n
    BY StackFields
  <2> QED
    BY <1>1, <1>2, <2>1
<1>4. n \in Nat /\ n \in 0 .. m - 1 /\ m \in Nat \ {0} /\ v \in Cont!Elements /\ Len(contents) = n
      /\ n + 1 - 1 = n /\ n + 1 <= m
  BY <1>2, StackFields DEF Cont!Elements
<1>5. c'.arr \in [0 .. m - 1 -> Cont!Elements]
  BY <1>2, <1>3, <1>4
<1>6. c' \in [arr : Arrays, iget : Int, iput : Nat, nmem : Nat \ {0}]
  <2>1. c'.arr \in Arrays
    BY <1>5 DEF Arrays
  <2> QED
    BY <1>3, <1>4, <2>1
<1>7. Len(contents') = n + 1
  BY <1>1, <1>4 DEF Placed
<1>8. ASSUME NEW k \in 1 .. n + 1 PROVE c'.arr[n + 1 - k] = contents'[k]
  <2>1. CASE k = 1
    BY <1>1, <1>2, <1>3, <1>4, <2>1 DEF Placed
  <2>2. CASE k # 1
    <3>1. k - 1 \in 1 .. n /\ k - 1 \in 0 + 1 .. n /\ k - 1 + 1 = k /\ n + 1 - k = n - (k - 1) /\ n + 1 - k # n
          /\ n + 1 - k \in 0 .. n - 1
      BY <1>4, <2>2
    <3>2. contents'[k] = contents[k - 1]
      BY <1>1, <1>4, <3>1 DEF Placed
    <3>3. c.arr[n - (k - 1)] = contents[k - 1]
      BY <1>4, <3>1 DEF StackInv
    <3> QED
      BY <1>2, <1>3, <1>4, <3>1, <3>2, <3>3
  <2> QED
    BY <2>1, <2>2
<1> HIDE DEF n
<1> QED
  BY <1>1, <1>3, <1>4, <1>5, <1>6, <1>7, <1>8 DEF StackInv, Answers, Placed

(* arrstack_pop(), with half the memory when little of it is used. *)
LEMMA StackPop ==
    ASSUME Cont!ContainerAssumption, StackInv, Answers, container = "array_stack", Cont!Pop
    PROVE  StackInv' /\ Answers'
<1> DEFINE n == c.iput
           less == [c EXCEPT !.iget = @ - 1, !.iput = @ - 1]
           half == c.nmem \div 2
<1>1. /\ contents = <<>> => c' = c /\ ret' = Failed /\ should' = Failed /\ contents' = contents
      /\ contents # <<>> =>
             /\ c' = IF Cont!ArrstackSize(less) < half /\ c.nmem > LowWater THEN Cont!Resize(less, half) ELSE less
             /\ ret' = c.arr[c.iget] /\ should' = Head(contents) /\ contents' = Tail(contents)
  <2>1. Cont!Call(Cont!ArrstackPop(c, LowWater))
    BY DEF Cont!Pop, Cont!PopFrom
  <2>2. Cont!ArrstackPop(c, LowWater) =
            IF c.iput = 0 THEN Cont!Done(c, Failed)
            ELSE Cont!Done(IF Cont!ArrstackSize(less) < half /\ c.nmem > LowWater THEN Cont!Resize(less, half) ELSE less,
                           c.arr[c.iget])
    BY DEF Cont!ArrstackPop
  <2> HIDE DEF less, half
  <2>3. contents = <<>> <=> c.iput = 0
    BY StackFields
  <2> QED
    BY <2>1, <2>2, <2>3 DEF Cont!Pop, Cont!Call, Cont!Done
<1>2. CASE contents = <<>>
  BY <1>1, <1>2 DEF StackInv, Answers
<1>3. CASE contents # <<>>
  <2>0. /\ contents' \in Seq(Values) /\ n \in Nat \ {0} /\ Len(contents') = n - 1 /\ Len(contents) = n
        /\ Head(contents) = contents[1] /\ \A k \in 1 .. n - 1 : contents'[k] = contents[k + 1]
    BY <1>1, <1>3, TailOfValues, StackFields DEF Answers
  <2>1. /\ less = [arr |-> less.arr, iget |-> less.iget, iput |-> less.iput, nmem |-> less.nmem]
        /\ less.arr = c.arr /\ less.iget = n - 2 /\ less.iput = n - 1 /\ less.nmem = c.nmem
    <3>1. c.iget - 1 = n - 2 /\ c = [arr |-> c.arr, iget |-> c.iget, iput |-> c.iput, nmem |-> c.nmem]
      BY <2>0, StackFields
    <3>2. PICK a, g, p, m : c = [arr |-> a, iget |-> g, iput |-> p, nmem |-> m]
      BY <3>1
    <3>5. PICK x, y : x = c.iget - 1 /\ y = c.iput - 1
      OBVIOUS
    <3>6. less = [c EXCEPT !.iget = x, !.iput = y]
      BY <3>5
    <3> HIDE DEF less
    <3>7. less = [arr |-> a, iget |-> x, iput |-> y, nmem |-> m]
      BY <3>2, <3>6
    <3>3. less = [arr |-> a, iget |-> g - 1, iput |-> p - 1, nmem |-> m]
      BY <3>2, <3>5, <3>7
    <3>4. c.arr = a /\ c.iget = g /\ c.iput = p /\ c.nmem = m
      BY <3>2
    <3> QED
      BY <3>1, <3>3, <3>4
  <2> HIDE DEF less
  <2>2. PICK m \in Nat \ {0} : /\ n - 1 <= m /\ c'.arr \in [0 .. m - 1 -> Cont!Elements] /\ c'.nmem = m
        /\ c'.iget = n - 2 /\ c'.iput = n - 1
        /\ c' = [arr |-> c'.arr, iget |-> c'.iget, iput |-> c'.iput, nmem |-> c'.nmem]
        /\ \A k \in 0 .. n - 2 : c'.arr[k] = c.arr[k]
    <3>1. CASE Cont!ArrstackSize(less) < half /\ c.nmem > LowWater
      <4>1. half \in Nat \ {0} /\ n - 1 < half /\ half <= c.nmem /\ c.nmem \in Nat \ {0}
        <5>1. c.nmem \in Nat \ {0}
          BY StackFields
        <5>2. half \in Nat /\ half <= c.nmem
          BY <5>1
        <5> HIDE DEF half
        <5> QED
          BY <2>0, <2>1, <3>1, <5>1, <5>2 DEF Cont!ArrstackSize
      <4> HIDE DEF half
      <4> DEFINE r == Cont!Resize(less, half)
      <4>2. less.arr \in [0 .. c.nmem - 1 -> Cont!Elements]
        BY <2>1, StackFields
      <4>3. /\ r.arr \in [0 .. half - 1 -> Cont!Elements] /\ r.iget = less.iget /\ r.iput = less.iput /\ r.nmem = half
            /\ r = [arr |-> r.arr, iget |-> r.iget, iput |-> r.iput, nmem |-> r.nmem]
            /\ \A k \in 0 .. half - 1 : k <= c.nmem - 1 => r.arr[k] = less.arr[k]
        BY <2>1, <4>1, <4>2, ResizeIs
      <4>4. \A k \in 0 .. n - 2 : k \in 0 .. half - 1 /\ k <= c.nmem - 1
        BY <2>0, <4>1
      <4>5. c' = r
        BY <1>1, <1>3, <3>1
      <4> HIDE DEF r
      <4> QED
        BY <2>0, <2>1, <4>1, <4>3, <4>4, <4>5
    <3>2. CASE ~(Cont!ArrstackSize(less) < half /\ c.nmem > LowWater)
      <4>1. c' = less
        BY <1>1, <1>3, <3>2
      <4> QED
        BY <2>0, <2>1, <4>1, StackFields
    <3> QED
      BY <3>1, <3>2
  <2>3. c' \in [arr : Arrays, iget : Int, iput : Nat, nmem : Nat \ {0}]
    <3>1. c'.arr \in Arrays
      BY <2>2 DEF Arrays
    <3>2. n - 2 \in Int /\ n - 1 \in Nat
      BY <2>0
    <3> QED
      BY <2>2, <3>1, <3>2
  <2>4. ASSUME NEW k \in 1 .. n - 1 PROVE c'.arr[n - 1 - k] = contents'[k]
    <3>1. k + 1 \in 1 .. n /\ n - 1 - k \in 0 .. n - 2 /\ n - (k + 1) = n - 1 - k
      BY <2>0
    <3>2. c.arr[n - (k + 1)] = contents[k + 1]
      BY <2>0, <3>1 DEF StackInv
    <3> QED
      BY <2>0, <2>2, <3>1, <3>2
  <2>5. ret' = should'
    <3>1. 1 \in 1 .. n /\ n - 1 = c.iget
      BY <2>0, StackFields
    <3> QED
      BY <1>1, <1>3, <2>0, <3>1 DEF StackInv
  <2> HIDE DEF n
  <2>6. n - 2 = (n - 1) - 1
    BY <2>0
  <2> QED
    BY <2>0, <2>2, <2>3, <2>4, <2>5, <2>6 DEF StackInv, Answers
<1> QED
  BY <1>2, <1>3

(* The top of the stack is the first to leave. *)
LEMMA StackTop ==
    ASSUME StackInv, Answers
    PROVE  Cont!ArrstackTop(c) = IF contents = <<>> THEN Failed ELSE Head(contents)
<1>1. CASE contents = <<>>
  BY <1>1, StackFields DEF Cont!ArrstackTop
<1>2. CASE contents # <<>>
  <2>1. Head(contents) = contents[1] /\ 1 \in 1 .. Len(contents) /\ c.iput - 1 = c.iget /\ c.iput # 0
    BY <1>2, TailOfValues, StackFields DEF Answers
  <2> QED
    BY <1>2, <2>1 DEF Cont!ArrstackTop, StackInv
<1> QED
  BY <1>1, <1>2

-----------------------------------------------------------------------------
(* The list's nodes, from the head node on. *)
Threaded(at) ==
    /\ at[0] = c.front /\ at[c.size] = c.back
    /\ \A k, j \in 0 .. c.size : at[k] = at[j] => k = j
    /\ c.used = {at[k] : k \in 0 .. c.size}
    /\ \A k \in 1 .. c.size : c.mem[at[k - 1]].next = at[k] /\ c.mem[at[k]].val = contents[k]
    /\ c.mem[c.back].next = Null

ListNodes == [next : Nodes \union {Null}, val : Cont!Elements]

(* They are the memory in use, and hold the contents. *)
ListInv ==
    /\ c \in [mem : [Nodes -> ListNodes], used : SUBSET Nodes, front : Nodes, back : Nodes, size : Nat]
    /\ c.size = Len(contents)
    /\ \E at \in [0 .. c.size -> Nodes] : Threaded(at)

(* listq_enqueue(): a new node behind back carries on the thread. *)
LEMMA ListPush ==
    ASSUME Cont!ContainerAssumption, ListInv, Answers, NEW v \in Values, container = "list_queue",
           Cont!Push(v)
    PROVE  ListInv' /\ Answers'
<1>1. PICK n \in Nodes \ c.used : Cont!Call(Cont!ListqEnqueue(c, v, n))
  BY DEF Cont!Push, Cont!PushTo
<1> DEFINE mem == [c.mem EXCEPT ![n] = [next |-> Null, val |-> v], ![c.back].next = n]
<1>2. /\ c' = [c EXCEPT !.mem = mem, !.used = @ \union {n}, !.back = n, !.size = @ + 1]
      /\ ret' = Null /\ should' = Null /\ Placed(contents', contents, v, Len(contents))
  <2>1. n # Null /\ ~Cont!Full
    BY DEF Cont!ContainerAssumption, Cont!Push
  <2> QED
    BY <1>1, <2>1, InsertLast DEF Cont!Push, Cont!Call, Cont!ListqEnqueue, Cont!Done, Answers
<1>3. PICK at \in [0 .. c.size -> Nodes] : Threaded(at)
  BY DEF ListInv
<1>4. /\ c.mem \in [Nodes -> ListNodes] /\ c.used \in SUBSET Nodes /\ c.front \in Nodes /\ c.back \in Nodes
      /\ c.size \in Nat /\ c.size = Len(contents) /\ v \in Cont!Elements
      /\ c = [mem |-> c.mem, used |-> c.used, front |-> c.front, back |-> c.back, size |-> c.size]
  BY DEF ListInv, Cont!Elements
<1> DEFINE N == c.size
<1>5. \A k \in 0 .. N : at[k] \in c.used /\ at[k] \in Nodes
  BY <1>3 DEF Threaded
<1>6. c.back \in c.used /\ c.back # n
  <2>1. N \in 0 .. N
    BY <1>4
  <2> QED
    BY <1>3, <1>5, <2>1 DEF Threaded
<1>7. /\ mem \in [Nodes -> ListNodes]
      /\ mem[n].next = Null /\ mem[n].val = v
      /\ mem[c.back].next = n /\ mem[c.back].val = c.mem[c.back].val
      /\ \A x \in Nodes : x # n /\ x # c.back => mem[x] = c.mem[x]
  <2> DEFINE one == [c.mem EXCEPT ![n] = [next |-> Null, val |-> v]]
  <2>1. one \in [Nodes -> ListNodes]
    BY <1>4 DEF ListNodes
  <2>2. one[n] = [next |-> Null, val |-> v] /\ \A x \in Nodes : x # n => one[x] = c.mem[x]
    BY <1>4
  <2>3. mem = [one EXCEPT ![c.back].next = n]
    OBVIOUS
  <2> HIDE DEF one, mem
  <2>4. [one[c.back] EXCEPT !.next = n] \in ListNodes
    BY <1>4, <2>1 DEF ListNodes
  <2>5. [one[c.back] EXCEPT !.next = n].next = n /\ [one[c.back] EXCEPT !.next = n].val = one[c.back].val
    BY <1>4, <2>1 DEF ListNodes
  <2>6. /\ mem \in [Nodes -> ListNodes] /\ mem[c.back] = [one[c.back] EXCEPT !.next = n]
        /\ \A x \in Nodes : x # c.back => mem[x] = one[x]
    BY <1>4, <2>1, <2>3, <2>4
  <2> QED
    BY <1>4, <1>6, <2>2, <2>5, <2>6
<1> HIDE DEF mem
<1>8. /\ c'.mem = mem /\ c'.used = c.used \union {n} /\ c'.front = c.front /\ c'.back = n /\ c'.size = N + 1
      /\ c' = [mem |-> c'.mem, used |-> c'.used, front |-> c'.front, back |-> c'.back, size |-> c'.size]
  BY <1>2, <1>4
<1>9. PICK to \in [0 .. N + 1 -> Nodes] : to[N + 1] = n /\ \A k \in 0 .. N : to[k] = at[k]
  <2> DEFINE g == [k \in 0 .. N + 1 |-> IF k = N + 1 THEN n ELSE at[k]]
  <2>1. g \in [0 .. N + 1 -> Nodes] /\ g[N + 1] = n /\ \A k \in 0 .. N : g[k] = at[k]
    BY <1>3, <1>4
  <2> QED
    BY <2>1
<1>10. Len(contents') = N + 1 /\ contents'[N + 1] = v /\ \A k \in 1 .. N : contents'[k] = contents[k]
  BY <1>2, <1>4 DEF Placed
<1>11. /\ to[0] = c'.front /\ to[N + 1] = c'.back /\ mem[n].next = Null
       /\ \A k, j \in 0 .. N + 1 : to[k] = to[j] => k = j
       /\ c'.used = {to[k] : k \in 0 .. N + 1}
  <2>1. at[0] = c.front /\ (\A k, j \in 0 .. N : at[k] = at[j] => k = j) /\ c.used = {at[k] : k \in 0 .. N}
    BY <1>3 DEF Threaded
  <2>2. \A k \in 0 .. N + 1 : k = N + 1 \/ k \in 0 .. N
    BY <1>4
  <2>3. 0 \in 0 .. N /\ N + 1 \in 0 .. N + 1 /\ \A k \in 0 .. N : k \in 0 .. N + 1
    BY <1>4
  <2>4. \A k \in 0 .. N : to[k] # n
    BY <1>5, <1>9
  <2> HIDE DEF N
  <2>5. \A k, j \in 0 .. N + 1 : to[k] = to[j] => k = j
    BY <1>9, <2>1, <2>2, <2>4
  <2>6. c'.used = {to[k] : k \in 0 .. N + 1}
    BY <1>8, <1>9, <2>1, <2>2, <2>3
  <2> QED
    BY <1>7, <1>8, <1>9, <2>1, <2>3, <2>5, <2>6
<1>12. ASSUME NEW k \in 1 .. N + 1 PROVE mem[to[k - 1]].next = to[k] /\ mem[to[k]].val = contents'[k]
  <2>1. CASE k = N + 1
    <3>1. to[k] = n /\ to[k - 1] = c.back
      <4>1. k - 1 = N /\ N \in 0 .. N
        BY <1>4, <2>1
      <4>2. at[N] = c.back
        BY <1>3 DEF Threaded
      <4> QED
        BY <1>9, <2>1, <4>1, <4>2
    <3> QED
      BY <1>7, <1>10, <2>1, <3>1
  <2>2. CASE k \in 1 .. N
    <3>1. k \in 0 .. N /\ k - 1 \in 0 .. N /\ N \in 0 .. N
      BY <1>4, <2>2
    <3>2. to[k] = at[k] /\ to[k - 1] = at[k - 1] /\ at[k] # n /\ at[k - 1] # n
      BY <1>5, <1>9, <3>1
    <3>3. c.mem[at[k - 1]].next = at[k] /\ c.mem[at[k]].val = contents[k]
      BY <1>3, <2>2 DEF Threaded
    <3>4. at[k - 1] # c.back
      <4>1. k - 1 # N /\ at[N] = c.back
        BY <1>3, <1>4, <2>2 DEF Threaded
      <4> QED
        BY <1>3, <3>1, <4>1 DEF Threaded
    <3>5. mem[at[k - 1]] = c.mem[at[k - 1]] /\ mem[at[k]].val = c.mem[at[k]].val
      BY <1>5, <1>7, <3>1, <3>2, <3>4
    <3> QED
      BY <1>10, <2>2, <3>2, <3>3, <3>5
  <2> QED
    BY <1>4, <2>1, <2>2
<1>13. c' \in [mem : [Nodes -> ListNodes], used : SUBSET Nodes, front : Nodes, back : Nodes, size : Nat]
  BY <1>4, <1>7, <1>8
<1>14. Threaded(to)'
  <2>1. c'.size = N + 1 /\ c'.mem = mem /\ c'.back = n
    BY <1>8
  <2> HIDE DEF N
  <2> QED
    BY <2>1, <1>11, <1>12 DEF Threaded
<1>15. to \in [0 .. c'.size -> Nodes] /\ c'.size = Len(contents')
  BY <1>8, <1>9, <1>10
<1>16. ListInv'
  BY <1>13, <1>14, <1>15 DEF ListInv, ListNodes
<1> QED
  BY <1>2, <1>16 DEF Answers, Placed

(* malloc() fails: nothing changes. *)
LEMMA ListOutOfMemory ==
    ASSUME ListInv, Answers, NEW v \in Values, Cont!OutOfMemory(v)
    PROVE  ListInv' /\ Answers'
<1>1. c' = c /\ ret' = Failed /\ should' = Failed /\ contents' = contents
  BY DEF Cont!OutOfMemory, Cont!Call, Cont!ListqEnqueue, Cont!Done
<1> QED
  BY <1>1 DEF ListInv, Answers, Threaded, ListNodes

(* listq_dequeue(): the thread goes on without its second node. *)
LEMMA ListPop ==
    ASSUME Cont!ContainerAssumption, ListInv, Answers, container = "list_queue", Cont!Pop
    PROVE  ListInv' /\ Answers'
<1> DEFINE todelete == c.mem[c.front].next
           mem == [c.mem EXCEPT ![c.front].next = c.mem[todelete].next, ![todelete] = Cont!NoNode]
<1>0. /\ c.mem \in [Nodes -> ListNodes] /\ c.used \in SUBSET Nodes /\ c.front \in Nodes /\ c.back \in Nodes
      /\ c.size \in Nat /\ c.size = Len(contents)
      /\ c = [mem |-> c.mem, used |-> c.used, front |-> c.front, back |-> c.back, size |-> c.size]
      /\ contents = <<>> <=> c.size = 0
  BY EmptyIs DEF ListInv, Answers
<1>1. /\ contents = <<>> => c' = c /\ ret' = Failed /\ should' = Failed /\ contents' = contents
      /\ contents # <<>> =>
             /\ c' = [c EXCEPT !.mem = mem, !.used = @ \ {todelete}, !.size = @ - 1,
                                !.back = IF c.size = 1 THEN c.front ELSE @]
             /\ ret' = c.mem[todelete].val /\ should' = Head(contents) /\ contents' = Tail(contents)
  <2>1. Cont!Call(Cont!ListqDequeue(c))
    BY DEF Cont!Pop, Cont!PopFrom
  <2> QED
    BY <1>0, <2>1 DEF Cont!Pop, Cont!Call, Cont!ListqDequeue, Cont!ListqEmpty, Cont!Done
<1>2. CASE contents = <<>>
  <2>1. c' = c /\ ret' = Failed /\ should' = Failed /\ contents' = contents
    BY <1>1, <1>2
  <2> QED
    BY <2>1 DEF ListInv, Answers, Threaded, ListNodes
<1>3. CASE contents # <<>>
  <2>1. PICK N \in Nat \ {0} : N = c.size
    BY <1>0, <1>3
  <2>2. /\ contents' \in Seq(Values) /\ Len(contents') = N - 1 /\ N = Len(contents)
        /\ Head(contents) = contents[1] /\ \A k \in 1 .. N - 1 : contents'[k] = contents[k + 1]
    BY <1>0, <1>1, <1>3, <2>1, TailOfValues DEF Answers
  <2>3. PICK at \in [0 .. N -> Nodes] : Threaded(at)
    BY <2>1 DEF ListInv
  <2>4. /\ at[0] = c.front /\ at[N] = c.back
        /\ \A k, j \in 0 .. N : at[k] = at[j] => k = j
        /\ c.used = {at[k] : k \in 0 .. N}
        /\ \A k \in 1 .. N : c.mem[at[k - 1]].next = at[k] /\ c.mem[at[k]].val = contents[k]
        /\ c.mem[at[N]].next = Null
    BY <2>1, <2>3 DEF Threaded
  <2>5. todelete = at[1] /\ at[1] \in Nodes /\ at[1] # c.front /\ ret' = contents[1]
    <3>1. 1 \in 1 .. N /\ 1 - 1 = 0 /\ 0 \in 0 .. N /\ 1 \in 0 .. N
      BY <2>1
    <3> QED
      BY <1>1, <1>3, <2>4, <3>1
  <2>6. c.mem[at[1]].next = IF N = 1 THEN Null ELSE at[2]
    <3>1. CASE N = 1
      BY <2>4, <3>1
    <3>2. CASE N # 1
      <4>1. 2 \in 1 .. N /\ 2 - 1 = 1
        BY <2>1, <3>2
      <4> QED
        BY <2>4, <3>2, <4>1
    <3> QED
      BY <3>1, <3>2
  <2>7. PICK next \in Nodes \union {Null} : next = c.mem[at[1]].next
    BY <1>0, <2>5 DEF ListNodes
  <2>8. PICK m \in [Nodes -> ListNodes] :
            /\ m = mem /\ m[c.front].next = next
            /\ \A x \in Nodes : x # at[1] => m[x].val = c.mem[x].val
            /\ \A x \in Nodes : x # at[1] /\ x # c.front => m[x].next = c.mem[x].next
    <3> DEFINE one == [c.mem EXCEPT ![c.front].next = next]
    <3>1. [c.mem[c.front] EXCEPT !.next = next] \in ListNodes
      BY <1>0 DEF ListNodes
    <3>2. [c.mem[c.front] EXCEPT !.next = next].next = next /\ [c.mem[c.front] EXCEPT !.next = next].val = c.mem[c.front].val
      BY <1>0 DEF ListNodes
    <3>3. /\ one \in [Nodes -> ListNodes] /\ one[c.front] = [c.mem[c.front] EXCEPT !.next = next]
          /\ \A x \in Nodes : x # c.front => one[x] = c.mem[x]
      BY <1>0, <3>1
    <3>4. mem = [one EXCEPT ![at[1]] = Cont!NoNode]
      BY <2>5, <2>7
    <3>5. Cont!NoNode \in ListNodes
      BY DEF Cont!NoNode, ListNodes, Cont!Elements
    <3> HIDE DEF one, mem
    <3>6. mem \in [Nodes -> ListNodes] /\ \A x \in Nodes : x # at[1] => mem[x] = one[x]
      BY <2>5, <3>3, <3>4, <3>5
    <3>7. /\ mem[c.front].next = next
          /\ \A x \in Nodes : x # at[1] => mem[x].val = c.mem[x].val
          /\ \A x \in Nodes : x # at[1] /\ x # c.front => mem[x].next = c.mem[x].next
      BY <1>0, <2>5, <3>2, <3>3, <3>6
    <3> QED
      BY <3>6, <3>7
  <2>9. /\ c'.mem = m /\ c'.used = c.used \ {at[1]} /\ c'.front = c.front /\ c'.size = N - 1
        /\ c'.back = IF N = 1 THEN c.front ELSE c.back
        /\ c' = [mem |-> c'.mem, used |-> c'.used, front |-> c'.front, back |-> c'.back, size |-> c'.size]
    <3>1. PICK b : b = IF c.size = 1 THEN c.front ELSE c.back
      OBVIOUS
    <3>2. PICK u, l : u = c.used \ {at[1]} /\ l = N - 1
      OBVIOUS
    <3>3. c' = [c EXCEPT !.mem = m, !.used = u, !.size = l, !.back = b]
      BY <1>1, <1>3, <2>1, <2>5, <2>8, <3>1, <3>2
    <3>4. c' = [mem |-> m, used |-> u, front |-> c.front, back |-> b, size |-> l]
      BY <1>0, <3>3
    <3> QED
      BY <2>1, <3>1, <3>2, <3>4
  <2> HIDE DEF todelete, mem
  <2>10. PICK to \in [0 .. N - 1 -> Nodes] : to[0] = at[0] /\ \A k \in 1 .. N - 1 : to[k] = at[k + 1]
    <3> DEFINE g == [k \in 0 .. N - 1 |-> IF k = 0 THEN at[0] ELSE at[k + 1]]
    <3>1. g \in [0 .. N - 1 -> Nodes] /\ g[0] = at[0] /\ \A k \in 1 .. N - 1 : g[k] = at[k + 1]
      BY <2>1, <2>3
    <3> QED
      BY <3>1
  <2>11. to[N - 1] = c'.back
    <3>1. CASE N = 1
      BY <2>4, <2>9, <2>10, <3>1
    <3>2. CASE N # 1
      <4>1. N - 1 \in 1 .. N - 1 /\ N - 1 + 1 = N
        BY <2>1, <3>2
      <4> QED
        BY <2>4, <2>9, <2>10, <3>2, <4>1
    <3> QED
      BY <3>1, <3>2
  <2>12. \A k \in 0 .. N - 1 : k = 0 \/ (k \in 1 .. N - 1 /\ k + 1 \in 2 .. N)
    BY <2>1
  <2>13. \A k, j \in 0 .. N - 1 : to[k] = to[j] => k = j
    <3>1. ASSUME NEW k \in 0 .. N - 1, NEW j \in 0 .. N - 1, to[k] = to[j] PROVE k = j
      <4>1. PICK a \in 0 .. N, b \in 0 .. N :
                /\ a = IF k = 0 THEN 0 ELSE k + 1
                /\ b = IF j = 0 THEN 0 ELSE j + 1
        BY <2>1
      <4>2. to[k] = at[a] /\ to[j] = at[b]
        BY <2>10, <2>12, <4>1
      <4>3. a = b
        BY <2>4, <3>1, <4>2
      <4> QED
        BY <4>1, <4>3
    <3> QED
      BY <3>1
  <2>14. c'.used = {to[k] : k \in 0 .. N - 1}
    <3>1. ASSUME NEW x \in c'.used PROVE \E k \in 0 .. N - 1 : to[k] = x
      <4>1. PICK k \in 0 .. N : at[k] = x /\ k # 1
        BY <2>4, <2>9
      <4>2. CASE k = 0
        <5>1. 0 \in 0 .. N - 1
          BY <2>1
        <5> QED
          BY <2>10, <4>1, <4>2, <5>1
      <4>3. CASE k # 0
        <5>1. k - 1 \in 1 .. N - 1 /\ k - 1 \in 0 .. N - 1 /\ k - 1 + 1 = k
          BY <2>1, <4>1, <4>3
        <5> QED
          BY <2>10, <4>1, <5>1
      <4> QED
        BY <4>2, <4>3
    <3>2. ASSUME NEW k \in 0 .. N - 1 PROVE to[k] \in c'.used
      <4>1. PICK a \in 0 .. N : a = (IF k = 0 THEN 0 ELSE k + 1) /\ a # 1 /\ 1 \in 0 .. N
        BY <2>1
      <4>2. to[k] = at[a]
        BY <2>10, <2>12, <4>1
      <4>3. at[a] # at[1]
        BY <2>4, <4>1
      <4> QED
        BY <2>4, <2>9, <4>1, <4>2, <4>3
    <3> QED
      BY <3>1, <3>2
  <2>15. ASSUME NEW k \in 1 .. N - 1 PROVE m[to[k - 1]].next = to[k] /\ m[to[k]].val = contents'[k]
    <3>1. k + 1 \in 1 .. N /\ k + 1 \in 0 .. N /\ k \in 0 .. N /\ 1 \in 0 .. N /\ k + 1 # 1 /\ (k + 1) - 1 = k
          /\ 0 \in 0 .. N /\ k # 0
      BY <2>1
    <3>2. to[k] = at[k + 1] /\ at[k + 1] # at[1] /\ at[k + 1] \in Nodes /\ c.mem[at[k]].next = at[k + 1]
          /\ c.mem[at[k + 1]].val = contents[k + 1] /\ contents'[k] = contents[k + 1]
      BY <2>2, <2>3, <2>4, <2>10, <3>1
    <3>3. CASE k = 1
      BY <2>1, <2>4, <2>6, <2>7, <2>8, <2>10, <3>2, <3>3
    <3>4. CASE k # 1
      <4>1. k - 1 \in 1 .. N - 1 /\ k - 1 + 1 = k
        BY <2>1, <3>4
      <4>2. to[k - 1] = at[k] /\ at[k] # at[1] /\ at[k] # at[0] /\ at[k] \in Nodes
        BY <2>3, <2>4, <2>10, <3>1, <3>4, <4>1
      <4> QED
        BY <2>4, <2>8, <3>2, <4>2
    <3> QED
      BY <3>3, <3>4
  <2>16. m[c'.back].next = Null
    <3>1. CASE N = 1
      BY <2>6, <2>7, <2>8, <2>9, <3>1
    <3>2. CASE N # 1
      <4>1. N \in 0 .. N /\ 1 \in 0 .. N /\ 0 \in 0 .. N /\ N # 0
        BY <2>1
      <4>2. at[N] # at[1] /\ at[N] # at[0] /\ at[N] \in Nodes
        BY <2>3, <2>4, <3>2, <4>1
      <4> QED
        BY <2>4, <2>8, <2>9, <3>2, <4>2
    <3> QED
      BY <3>1, <3>2
  <2>17. Threaded(to)'
    BY <2>4, <2>9, <2>10, <2>11, <2>13, <2>14, <2>15, <2>16 DEF Threaded
  <2>18. c' \in [mem : [Nodes -> ListNodes], used : SUBSET Nodes, front : Nodes, back : Nodes, size : Nat]
    <3>1. c'.back \in Nodes /\ c'.used \in SUBSET Nodes /\ c'.size \in Nat
      BY <1>0, <2>1, <2>9
    <3> QED
      BY <1>0, <2>8, <2>9, <3>1
  <2>19. to \in [0 .. c'.size -> Nodes] /\ c'.size = Len(contents')
    BY <2>2, <2>9
  <2>20. ListInv'
    BY <2>17, <2>18, <2>19 DEF ListInv, ListNodes
  <2> QED
    BY <1>1, <1>3, <2>2, <2>5, <2>20 DEF Answers
<1> QED
  BY <1>2, <1>3

(* Cardinality is the same in the instance of the containers. *)
LEMMA ContCardinality == ASSUME NEW S PROVE Cont!Cardinality(S) = Cardinality(S)
BY Zenon DEF Cont!Cardinality, Cardinality

(* The list shows what it holds. *)
LEMMA ListShows ==
    ASSUME ListInv, Answers
    PROVE  /\ c.size = Len(contents) /\ Cardinality(c.used) = c.size + 1
           /\ Cont!ListqContents(c) = contents
           /\ {c.front, c.back} \subseteq c.used /\ c.mem[c.back].next = Null
<1>1. PICK N \in Nat : N = c.size /\ N = Len(contents)
  BY DEF ListInv
<1>2. PICK at \in [0 .. N -> Nodes] : Threaded(at)
  BY <1>1 DEF ListInv
<1>3. /\ at[0] = c.front /\ at[N] = c.back
      /\ \A k, j \in 0 .. N : at[k] = at[j] => k = j
      /\ c.used = {at[k] : k \in 0 .. N}
      /\ \A k \in 1 .. N : c.mem[at[k - 1]].next = at[k] /\ c.mem[at[k]].val = contents[k]
      /\ c.mem[c.back].next = Null
  BY <1>1, <1>2 DEF Threaded
<1>4. Cardinality(c.used) = N + 1
  <2>1. at \in Bijection(0 .. N, c.used)
    BY <1>2, <1>3 DEF Bijection, Injection, Surjection, IsInjective
  <2>2. IsFiniteSet(0 .. N) /\ Cardinality(0 .. N) = N + 1
    <3>1. 0 \in Int /\ N \in Int /\ (IF 0 > N THEN 0 ELSE N - 0 + 1) = N + 1
      OBVIOUS
    <3> QED
      BY <3>1, FS_Interval
  <2> QED
    BY <2>1, <2>2, FS_Bijection DEF ExistsBijection
<1> DEFINE Fits(g) == g = [k \in 0 .. N |-> IF k = 0 THEN c.front ELSE c.mem[g[k - 1]].next]
           f == CHOOSE g : Fits(g)
<1>5. Cont!ListqContents(c) = [k \in 1 .. N |-> c.mem[f[k]].val]
  BY <1>1 DEF Cont!ListqContents
<1>6. Fits(at)
  <2>1. ASSUME NEW k \in 0 .. N PROVE at[k] = IF k = 0 THEN c.front ELSE c.mem[at[k - 1]].next
    <3>1. k = 0 \/ k \in 1 .. N
      OBVIOUS
    <3> QED
      BY <1>3, <3>1
  <2>2. at = [k \in 0 .. N |-> at[k]]
    BY <1>2
  <2> QED
    BY <2>1, <2>2
<1> HIDE DEF Fits
<1>7. Fits(f)
  BY <1>6, Zenon
<1> HIDE DEF f
<1>8. \A k \in 0 .. N : f[k] = IF k = 0 THEN c.front ELSE c.mem[f[k - 1]].next
  BY <1>7 DEF Fits
<1>9. \A k \in 0 .. N : f[k] = at[k]
  <2> DEFINE Bad == {k \in 0 .. N : f[k] # at[k]}
  <2>1. SUFFICES ASSUME Bad # {} PROVE FALSE
    OBVIOUS
  <2>2. Bad \in SUBSET Nat
    OBVIOUS
  <2>3. PICK k \in Bad : \A j \in Bad : k <= j
    BY <2>1, <2>2, LeastElement
  <2>4. k # 0
    BY <1>3, <1>8, <2>3
  <2>5. k - 1 \in 0 .. N /\ ~(k <= k - 1) /\ k \in 1 .. N
    BY <2>3, <2>4
  <2>6. f[k - 1] = at[k - 1]
    BY <2>3, <2>5
  <2> QED
    BY <1>3, <1>8, <2>3, <2>4, <2>5, <2>6
<1>10. Cont!ListqContents(c) = contents
  <2>1. contents = [k \in 1 .. N |-> contents[k]]
    BY <1>1, LenProperties DEF Answers
  <2>2. \A k \in 1 .. N : c.mem[f[k]].val = contents[k]
    BY <1>3, <1>9
  <2> QED
    BY <1>5, <2>1, <2>2
<1>11. {c.front, c.back} \subseteq c.used
  <2>1. 0 \in 0 .. N /\ N \in 0 .. N
    OBVIOUS
  <2> QED
    BY <1>3, <2>1
<1> QED
  BY <1>1, <1>3, <1>4, <1>10, <1>11

(* The ring shows what it holds. *)
LEMMA RingShows ==
    ASSUME Cont!ContainerAssumption, RingInv, Answers
    PROVE  Cont!ArrqSize(c) = Len(contents) /\ Cont!ArrqContents(c) = contents
<1>1. PICK n \in 0 .. InitialSize : n = Len(contents) /\ n = Cont!ArrqSize(c)
  BY RingSize DEF RingInv
<1>2. \A k \in 1 .. n : (c.iget + k - 1) % c.nmem = RingAt(k)
  <2>1. SUFFICES ASSUME NEW k \in 1 .. n PROVE (c.iget + k - 1) % c.nmem = RingAt(k)
    OBVIOUS
  <2>2. c.nmem \in Nat \ {0} /\ c.iget + k - 1 \in 0 .. 2 * c.nmem - 1
    BY DEF RingInv, Cont!ContainerAssumption
  <2> QED
    BY <2>2, ModIs DEF RingAt
<1>3. Cont!ArrqContents(c) = [k \in 1 .. n |-> c.arr[(c.iget + k - 1) % c.nmem]]
  BY <1>1 DEF Cont!ArrqContents
<1>4. \A k \in 1 .. n : c.arr[(c.iget + k - 1) % c.nmem] = contents[k]
  BY <1>1, <1>2 DEF RingInv
<1>5. contents = [k \in 1 .. n |-> contents[k]]
  BY <1>1, LenProperties DEF Answers
<1> QED
  BY <1>1, <1>3, <1>4, <1>5

-----------------------------------------------------------------------------
(* The priority queue: a place's parent. *)
Up(k) == IF k = 0 THEN 0 ELSE (k - 1) \div 2

(* The parent is before its children, which are the places 2k + 1 and 2k + 2. *)
LEMMA UpIs ==
    /\ Up(0) = 0
    /\ \A k \in Nat \ {0} : Up(k) \in Nat /\ Up(k) < k /\ (k = 2 * Up(k) + 1 \/ k = 2 * Up(k) + 2)
    /\ \A j \in Nat, k \in Nat \ {0} : Up(k) = j <=> k = 2 * j + 1 \/ k = 2 * j + 2
BY DEF Up

(* Two elements change places. *)
LEMMA SwapIs ==
    ASSUME NEW D, NEW a \in [D -> Cont!Elements], NEW h \in D, NEW j \in D
    PROVE  LET b == Cont!Swap(a, h, j)
           IN  b \in [D -> Cont!Elements] /\ b[h] = a[j] /\ b[j] = a[h] /\ \A k \in D : k # h /\ k # j => b[k] = a[k]
BY DEF Cont!Swap

(* The same of an array. *)
LEMMA SwapPlaces ==
    ASSUME NEW M \in Nat, NEW a \in [0 .. M - 1 -> Cont!Elements], NEW h \in 0 .. M - 1, NEW j \in 0 .. M - 1
    PROVE  LET b == Cont!Swap(a, h, j)
           IN  /\ b \in [0 .. M - 1 -> Cont!Elements] /\ b[h] = a[j] /\ b[j] = a[h]
               /\ \A k \in 0 .. M - 1 : k # h /\ k # j => b[k] = a[k]
<1> DEFINE D == 0 .. M - 1
<1>1. a \in [D -> Cont!Elements] /\ h \in D /\ j \in D
  OBVIOUS
<1> HIDE DEF D
<1>2. PICK b : b = Cont!Swap(a, h, j)
  OBVIOUS
<1>3. b \in [D -> Cont!Elements] /\ b[h] = a[j] /\ b[j] = a[h] /\ \A k \in D : k # h /\ k # j => b[k] = a[k]
  BY <1>1, <1>2 DEF Cont!Swap
<1> QED
  BY <1>2, <1>3 DEF D

(* swim() goes on from the parent, if that is less. *)
LEMMA SwimStep ==
    ASSUME NEW M \in Nat, NEW a \in [0 .. M - 1 -> Cont!Elements], NEW h \in 0 .. M - 1
    PROVE  Cont!Swim(a, h) =
               IF a[Up(h)] >= a[h] THEN a ELSE Cont!Swim(Cont!Swap(a, h, Up(h)), Up(h))
<1> DEFINE D == 0 .. M - 1
           Y == [D -> Cont!Elements]
           X == Y \X D
           Stop == {x \in X : x[1][Up(x[2])] >= x[1][x[2]]}
           Nx == [x \in X |-> <<Cont!Swap(x[1], x[2], Up(x[2])), Up(x[2])>>]
           Out == [x \in X |-> x[1]]
           Fits(g) == g = [x \in X |-> IF x[1][Up(x[2])] >= x[1][x[2]] THEN x[1]
                                       ELSE g[<<Cont!Swap(x[1], x[2], Up(x[2])), Up(x[2])>>]]
           up == CHOOSE g : Fits(g)
<1>1. \A k \in D : Up(k) \in D
  BY UpIs
<1>2. ASSUME NEW b \in Y, NEW k \in D PROVE Cont!Swim(b, k) = up[<<b, k>>]
  <2>1. DOMAIN b = D
    OBVIOUS
  <2> QED
    BY <2>1 DEF Cont!Swim, Up
<1>3. Nx \in [X -> X]
  <2>1. ASSUME NEW x \in X PROVE <<Cont!Swap(x[1], x[2], Up(x[2])), Up(x[2])>> \in X
    <3>1. x[1] \in Y /\ x[2] \in D /\ Up(x[2]) \in D
      BY <1>1
    <3> HIDE DEF D
    <3>2. Cont!Swap(x[1], x[2], Up(x[2])) \in Y
      BY <3>1, SwapIs
    <3> QED
      BY <3>1, <3>2
  <2> QED
    BY <2>1
<1>4. Out \in [X -> Y] /\ Stop \in SUBSET X
  OBVIOUS
<1>5. PICK g : g = [x \in X |-> IF x \in Stop THEN Out[x] ELSE g[Nx[x]]]
  <2> HIDE DEF X, Y, Stop, Nx, Out
  <2>1. Looping(X, Stop, Nx, Out)
    BY <1>3, <1>4, LoopFunction
  <2> QED
    BY <2>1 DEF Looping
<1>6. Fits(g)
  <2>1. ASSUME NEW x \in X
        PROVE  g[x] = IF x[1][Up(x[2])] >= x[1][x[2]] THEN x[1]
                      ELSE g[<<Cont!Swap(x[1], x[2], Up(x[2])), Up(x[2])>>]
    <3>1. g[x] = IF x \in Stop THEN Out[x] ELSE g[Nx[x]]
      BY <1>5
    <3>2. Out[x] = x[1] /\ Nx[x] = <<Cont!Swap(x[1], x[2], Up(x[2])), Up(x[2])>>
      OBVIOUS
    <3>3. x \in Stop <=> x[1][Up(x[2])] >= x[1][x[2]]
      OBVIOUS
    <3> HIDE DEF Stop, Nx, Out, X
    <3> QED
      BY <3>1, <3>2, <3>3
  <2>2. g = [x \in X |-> g[x]]
    BY <1>5
  <2> HIDE DEF X
  <2> QED
    BY <2>1, <2>2
<1> HIDE DEF Fits
<1>7. Fits(up)
  BY <1>6, Zenon
<1> HIDE DEF up
<1> DEFINE j == Up(h)
           b == Cont!Swap(a, h, j)
<1>8. j \in D /\ b \in Y
  BY <1>1, SwapIs
<1>9. up[<<a, h>>] = IF a[j] >= a[h] THEN a ELSE up[<<b, j>>]
  <2>1. \A x \in X : up[x] = IF x[1][Up(x[2])] >= x[1][x[2]] THEN x[1]
                             ELSE up[<<Cont!Swap(x[1], x[2], Up(x[2])), Up(x[2])>>]
    BY <1>7 DEF Fits
  <2>2. <<a, h>> \in X
    OBVIOUS
  <2> HIDE DEF X
  <2> QED
    BY <2>1, <2>2
<1> QED
  BY <1>2, <1>8, <1>9

(* The first n places hold values; each is at most its parent; together     *)
(* they hold what the sequence s holds, each once.                          *)
Inside(a, n) == \A k \in 0 .. n - 1 : a[k] \in Values
Heaped(a, n) == \A k \in 1 .. n - 1 : a[Up(k)] >= a[k]
Places(p, n) ==
    /\ p \in [1 .. n -> 0 .. n - 1]
    /\ \A k, j \in 1 .. n : p[k] = p[j] => k = j
    /\ \A h \in 0 .. n - 1 : \E k \in 1 .. n : p[k] = h
Holds(a, n, s) == \E p \in [1 .. n -> 0 .. n - 1] : Places(p, n) /\ \A k \in 1 .. n : s[k] = a[p[k]]

(* Changing places keeps what is held. *)
LEMMA SwapHolds ==
    ASSUME NEW M \in Nat, NEW n \in 0 .. M, NEW a \in [0 .. M - 1 -> Cont!Elements], NEW s,
           NEW h \in 0 .. n - 1, NEW j \in 0 .. n - 1, Holds(a, n, s), Inside(a, n)
    PROVE  Holds(Cont!Swap(a, h, j), n, s) /\ Inside(Cont!Swap(a, h, j), n)
<1> DEFINE b == Cont!Swap(a, h, j)
<1>1. /\ b[h] = a[j] /\ b[j] = a[h] /\ \A k \in 0 .. M - 1 : k # h /\ k # j => b[k] = a[k]
      /\ \A k \in 0 .. n - 1 : k \in 0 .. M - 1
  <2>1. h \in 0 .. M - 1 /\ j \in 0 .. M - 1 /\ \A k \in 0 .. n - 1 : k \in 0 .. M - 1
    OBVIOUS
  <2> QED
    BY <2>1, SwapPlaces
<1> HIDE DEF b
<1>2. PICK p \in [1 .. n -> 0 .. n - 1] : Places(p, n) /\ \A k \in 1 .. n : s[k] = a[p[k]]
  BY DEF Holds
<1> DEFINE r == [k \in 1 .. n |-> IF p[k] = h THEN j ELSE IF p[k] = j THEN h ELSE p[k]]
<1>3. r \in [1 .. n -> 0 .. n - 1] /\ \A k \in 1 .. n : r[k] = IF p[k] = h THEN j ELSE IF p[k] = j THEN h ELSE p[k]
  BY <1>2
<1> HIDE DEF r
<1>4. \A k, l \in 1 .. n : r[k] = r[l] => k = l
  <2>1. SUFFICES ASSUME NEW k \in 1 .. n, NEW l \in 1 .. n, r[k] = r[l] PROVE k = l
    OBVIOUS
  <2>2. PICK x, y : x = p[k] /\ y = p[l]
    OBVIOUS
  <2>3. /\ r[k] = IF x = h THEN j ELSE IF x = j THEN h ELSE x
        /\ r[l] = IF y = h THEN j ELSE IF y = j THEN h ELSE y
    BY <1>3, <2>2
  <2>4. x = y
    BY <2>1, <2>3, Zenon
  <2> QED
    BY <1>2, <2>2, <2>4 DEF Places
<1>5. \A g \in 0 .. n - 1 : \E k \in 1 .. n : r[k] = g
  <2>1. SUFFICES ASSUME NEW g \in 0 .. n - 1 PROVE \E k \in 1 .. n : r[k] = g
    OBVIOUS
  <2>2. PICK f \in 0 .. n - 1 : f = IF g = h THEN j ELSE IF g = j THEN h ELSE g
    OBVIOUS
  <2>3. PICK k \in 1 .. n : p[k] = f
    BY <1>2 DEF Places
  <2> QED
    BY <1>3, <2>2, <2>3
<1>6. \A k \in 1 .. n : s[k] = b[r[k]]
  BY <1>1, <1>2, <1>3
<1>7. Inside(b, n)
  BY <1>1 DEF Inside
<1> QED
  BY <1>3, <1>4, <1>5, <1>6, <1>7 DEF Holds, Places, b

(* What swim() and sink() make. *)
HeapMade(b, M, n, s) ==
    b \in [0 .. M - 1 -> Cont!Elements] /\ Inside(b, n) /\ Heaped(b, n) /\ Holds(b, n, s)

(* A heap but for the value at h, which may be more than its parent. *)
Rising(a, n, h) ==
    /\ \A k \in 1 .. n - 1 : k # h => a[Up(k)] >= a[k]
    /\ \A k \in 1 .. n - 1 : h # 0 /\ Up(k) = h => a[Up(h)] >= a[k]

(* swim() makes the heap whole again when only h is above its parent. *)
LEMMA SwimIs ==
    ASSUME Cont!ContainerAssumption, NEW M \in Nat, NEW n \in 0 .. M, NEW s,
           NEW a \in [0 .. M - 1 -> Cont!Elements], NEW h \in 0 .. n - 1,
           Inside(a, n), Holds(a, n, s), Rising(a, n, h)
    PROVE  HeapMade(Cont!Swim(a, h), M, n, s)
<1> DEFINE A == [0 .. M - 1 -> Cont!Elements]
           Ready(b, k) == Inside(b, n) /\ Holds(b, n, s) /\ Rising(b, n, k)
           Bad == {k \in 0 .. n - 1 : \E b \in A : Ready(b, k) /\ ~HeapMade(Cont!Swim(b, k), M, n, s)}
<1>1. SUFFICES ASSUME Bad # {} PROVE FALSE
  OBVIOUS
<1>2. Bad \in SUBSET Nat
  OBVIOUS
<1> HIDE DEF Bad
<1>3. PICK e \in Bad : \A k \in Bad : e <= k
  BY <1>1, <1>2, LeastElement
<1> USE DEF Bad
<1>4. PICK b \in A : Ready(b, e) /\ ~HeapMade(Cont!Swim(b, e), M, n, s)
  BY <1>3
<1> DEFINE j == Up(e)
<1>5. /\ e \in 0 .. n - 1 /\ e \in 0 .. M - 1 /\ j \in 0 .. n - 1 /\ j \in 0 .. M - 1
      /\ (e = 0 => j = 0) /\ (e # 0 => j < e) /\ \A k \in 0 .. n - 1 : k \in 0 .. M - 1
  BY <1>3, UpIs
<1>6. \A k \in 0 .. n - 1 : b[k] \in Int
  BY <1>4 DEF Inside, Cont!ContainerAssumption
<1>7. Cont!Swim(b, e) = IF b[j] >= b[e] THEN b ELSE Cont!Swim(Cont!Swap(b, e, j), j)
  BY <1>4, <1>5, SwimStep
<1>8. CASE b[j] >= b[e]
  <2>1. Heaped(b, n)
    BY <1>4, <1>8 DEF Rising, Heaped
  <2> QED
    BY <1>4, <1>7, <1>8, <2>1 DEF HeapMade
<1>9. CASE ~(b[j] >= b[e])
  <2> DEFINE d == Cont!Swap(b, e, j)
  <2>1. e # 0 /\ j < e
    BY <1>5, <1>6, <1>9
  <2>2. d \in A /\ d[e] = b[j] /\ d[j] = b[e] /\ \A k \in 0 .. M - 1 : k # e /\ k # j => d[k] = b[k]
    BY <1>4, <1>5, SwapPlaces
  <2>3. Holds(d, n, s) /\ Inside(d, n)
    BY <1>4, <1>5, SwapHolds
  <2> HIDE DEF d
  <2>4. Rising(d, n, j)
    <3>1. ASSUME NEW k \in 1 .. n - 1, k # j PROVE d[Up(k)] >= d[k]
      <4>1. Up(k) \in 0 .. n - 1 /\ Up(k) # k /\ k \in 0 .. n - 1
        BY UpIs
      <4>2. CASE k = e
        BY <1>5, <1>6, <1>9, <2>2, <4>2
      <4>3. CASE k # e /\ Up(k) = j
        <5>1. b[j] >= b[k] /\ d[k] = b[k] /\ d[Up(k)] = b[e]
          BY <1>4, <1>5, <2>2, <3>1, <4>1, <4>3 DEF Rising
        <5> QED
          BY <1>5, <1>6, <1>9, <4>1, <5>1
      <4>4. CASE k # e /\ Up(k) = e
        <5>1. b[j] >= b[k] /\ d[k] = b[k] /\ d[Up(k)] = b[j]
          BY <1>4, <1>5, <2>1, <2>2, <3>1, <4>1, <4>4 DEF Rising
        <5> QED
          BY <5>1
      <4>5. CASE k # e /\ Up(k) # e /\ Up(k) # j
        <5>1. b[Up(k)] >= b[k] /\ d[k] = b[k] /\ d[Up(k)] = b[Up(k)]
          BY <1>4, <1>5, <2>2, <3>1, <4>1, <4>5 DEF Rising
        <5> QED
          BY <5>1
      <4> QED
        BY <4>2, <4>3, <4>4, <4>5
    <3>2. ASSUME NEW k \in 1 .. n - 1, j # 0, Up(k) = j PROVE d[Up(j)] >= d[k]
      <4>1. Up(j) \in 0 .. n - 1 /\ Up(j) < j /\ k # j /\ k \in 0 .. n - 1 /\ j \in 1 .. n - 1 /\ j # e
        BY <1>5, <2>1, <3>2, UpIs
      <4>2. d[Up(j)] = b[Up(j)] /\ b[Up(j)] >= b[j]
        BY <1>4, <1>5, <2>1, <2>2, <4>1 DEF Rising
      <4>3. d[k] = b[j] \/ (d[k] = b[k] /\ b[j] >= b[k])
        <5>1. CASE k = e
          BY <2>2, <5>1
        <5>2. CASE k # e
          BY <1>4, <1>5, <2>2, <3>2, <4>1, <5>2 DEF Rising
        <5> QED
          BY <5>1, <5>2
      <4> QED
        BY <1>5, <1>6, <4>1, <4>2, <4>3
    <3> QED
      BY <3>1, <3>2 DEF Rising
  <2>5. j \notin Bad /\ j \in 0 .. n - 1
    BY <1>3, <1>5, <2>1
  <2>6. HeapMade(Cont!Swim(d, j), M, n, s)
    BY <2>2, <2>3, <2>4, <2>5
  <2> QED
    BY <1>4, <1>7, <1>9, <2>6 DEF d
<1> QED
  BY <1>8, <1>9

(* The larger of two children, or the left one. *)
Child(b, h, n) ==
    LET left == 2 * h + 1
    IN  IF left < n - 1 /\ ~(b[left] >= b[left + 1]) THEN left + 1 ELSE left

(* sink() goes on from that child, if it is more. *)
LEMMA SinkStep ==
    ASSUME NEW M \in Nat, NEW n \in 0 .. M, NEW a \in [0 .. M - 1 -> Cont!Elements], NEW h \in Nat
    PROVE  LET j == Child(a, h, n)
           IN  Cont!Sink(a, h, n) =
                   IF 2 * h + 1 >= n \/ a[h] >= a[j] THEN a ELSE Cont!Sink(Cont!Swap(a, h, j), j, n)
<1> DEFINE D == 0 .. M - 1
           Y == [D -> Cont!Elements]
           X == Y \X Nat
           Stops(b, k) == 2 * k + 1 >= n \/ b[k] >= b[Child(b, k, n)]
           Goes(b, k) == <<Cont!Swap(b, k, Child(b, k, n)), Child(b, k, n)>>
           Stop == {x \in X : Stops(x[1], x[2])}
           Nx == [x \in X |-> IF x \in Stop THEN x ELSE Goes(x[1], x[2])]
           Out == [x \in X |-> x[1]]
           Fits(g) == g = [x \in X |-> IF Stops(x[1], x[2]) THEN x[1] ELSE g[Goes(x[1], x[2])]]
           down == CHOOSE g : Fits(g)
<1>1. ASSUME NEW b \in Y, NEW k \in Nat, ~(2 * k + 1 >= n)
      PROVE  Child(b, k, n) \in 0 .. n - 1 /\ k \in D /\ Child(b, k, n) \in D
  BY <1>1 DEF Child
<1>2. ASSUME NEW b \in Y, NEW k \in Nat PROVE Cont!Sink(b, k, n) = down[<<b, k>>]
  <2>1. DOMAIN b = D
    OBVIOUS
  <2> QED
    BY <2>1 DEF Cont!Sink, Child
<1>3. Nx \in [X -> X]
  <2>1. ASSUME NEW x \in X, x \notin Stop PROVE Goes(x[1], x[2]) \in X
    <3>1. x[1] \in Y /\ x[2] \in Nat /\ ~(2 * x[2] + 1 >= n)
      BY <2>1
    <3>2. x[2] \in D /\ Child(x[1], x[2], n) \in D /\ Child(x[1], x[2], n) \in Nat
      BY <1>1, <3>1
    <3> HIDE DEF D
    <3>3. Cont!Swap(x[1], x[2], Child(x[1], x[2], n)) \in Y
      BY <3>1, <3>2, SwapIs
    <3> QED
      BY <3>2, <3>3
  <2> HIDE DEF X, Stop, Goes
  <2> QED
    BY <2>1
<1>4. Out \in [X -> Y] /\ Stop \in SUBSET X
  OBVIOUS
<1>5. PICK g : g = [x \in X |-> IF x \in Stop THEN Out[x] ELSE g[Nx[x]]]
  <2> HIDE DEF X, Y, Stop, Nx, Out
  <2>1. Looping(X, Stop, Nx, Out)
    BY <1>3, <1>4, LoopFunction
  <2> QED
    BY <2>1 DEF Looping
<1>6. Fits(g)
  <2>1. ASSUME NEW x \in X
        PROVE  g[x] = IF Stops(x[1], x[2]) THEN x[1] ELSE g[Goes(x[1], x[2])]
    <3>1. g[x] = IF x \in Stop THEN Out[x] ELSE g[Nx[x]]
      BY <1>5
    <3> HIDE DEF Goes, Stops
    <3>2. Out[x] = x[1] /\ (x \notin Stop => Nx[x] = Goes(x[1], x[2]))
      OBVIOUS
    <3>3. x \in Stop <=> Stops(x[1], x[2])
      OBVIOUS
    <3> HIDE DEF Stop, Nx, Out, X
    <3> QED
      BY <3>1, <3>2, <3>3
  <2>2. g = [x \in X |-> g[x]]
    BY <1>5
  <2> HIDE DEF X, Stops, Goes
  <2> QED
    BY <2>1, <2>2
<1> HIDE DEF Fits
<1>7. Fits(down)
  BY <1>6, Zenon
<1> HIDE DEF down
<1> DEFINE j == Child(a, h, n)
           b == Cont!Swap(a, h, j)
<1>8. down[<<a, h>>] = IF Stops(a, h) THEN a ELSE down[Goes(a, h)]
  <2>1. \A x \in X : down[x] = IF Stops(x[1], x[2]) THEN x[1] ELSE down[Goes(x[1], x[2])]
    <3> HIDE DEF X, Stops, Goes
    <3> QED
      BY <1>7 DEF Fits
  <2>2. <<a, h>> \in X /\ <<a, h>>[1] = a /\ <<a, h>>[2] = h
    OBVIOUS
  <2> HIDE DEF X, Stops, Goes
  <2>3. PICK x \in X : x = <<a, h>> /\ x[1] = a /\ x[2] = h
    BY <2>2
  <2> QED
    BY <2>1, <2>3
<1>9. CASE Stops(a, h)
  BY <1>2, <1>8, <1>9
<1>10. CASE ~Stops(a, h)
  <2>1. j \in D /\ h \in D /\ j \in Nat
    BY <1>1, <1>10
  <2>2. b \in Y
    <3>1. a \in [D -> Cont!Elements]
      OBVIOUS
    <3> HIDE DEF D, j
    <3> QED
      BY <2>1, <3>1, SwapIs
  <2>3. Cont!Sink(b, j, n) = down[<<b, j>>]
    BY <1>2, <2>1, <2>2
  <2> QED
    BY <1>2, <1>8, <1>10, <2>3
<1> QED
  BY <1>9, <1>10

(* A heap but for the value at h, which may be less than its children. *)
Sinking(a, n, h) ==
    /\ \A k \in 1 .. n - 1 : Up(k) # h => a[Up(k)] >= a[k]
    /\ \A k \in 1 .. n - 1 : h # 0 /\ Up(k) = h => a[Up(h)] >= a[k]

(* sink() makes the heap whole again when only h is below a child. *)
LEMMA SinkIs ==
    ASSUME Cont!ContainerAssumption, NEW M \in Nat, NEW n \in 0 .. M, NEW s,
           NEW a \in [0 .. M - 1 -> Cont!Elements], NEW h \in 0 .. n,
           Inside(a, n), Holds(a, n, s), Sinking(a, n, h)
    PROVE  HeapMade(Cont!Sink(a, h, n), M, n, s)
<1> DEFINE A == [0 .. M - 1 -> Cont!Elements]
           Ready(b, k) == Inside(b, n) /\ Holds(b, n, s) /\ Sinking(b, n, k)
           Bad == {l \in 0 .. n : \E b \in A : Ready(b, n - l) /\ ~HeapMade(Cont!Sink(b, n - l, n), M, n, s)}
<1>1. SUFFICES ASSUME Bad # {} PROVE FALSE
  <2>1. n - h \in 0 .. n /\ n - (n - h) = h
    OBVIOUS
  <2> QED
    BY <1>1, <2>1
<1>2. Bad \in SUBSET Nat
  OBVIOUS
<1> HIDE DEF Bad
<1>3. PICK l \in Bad : \A k \in Bad : l <= k
  BY <1>1, <1>2, LeastElement
<1> USE DEF Bad
<1>4. PICK e \in 0 .. n : e = n - l
  BY <1>3
<1>5. PICK b \in A : Ready(b, e) /\ ~HeapMade(Cont!Sink(b, e, n), M, n, s)
  BY <1>3, <1>4
<1> DEFINE left == 2 * e + 1
           j == Child(b, e, n)
<1>6. \A k \in 0 .. n - 1 : b[k] \in Int /\ k \in 0 .. M - 1
  <2>1. \A k \in 0 .. n - 1 : b[k] \in Int
    BY <1>5 DEF Inside, Cont!ContainerAssumption
  <2>2. \A k \in 0 .. n - 1 : k \in 0 .. M - 1
    OBVIOUS
  <2> QED
    BY <2>1, <2>2
<1>7. Cont!Sink(b, e, n) = IF left >= n \/ b[e] >= b[j] THEN b ELSE Cont!Sink(Cont!Swap(b, e, j), j, n)
  BY <1>4, <1>5, SinkStep
<1>8. \A k \in 1 .. n - 1 : Up(k) = e => k = left \/ k = left + 1
  BY <1>4, UpIs
<1>9. CASE left >= n
  <2>1. Heaped(b, n)
    BY <1>4, <1>5, <1>8, <1>9 DEF Sinking, Heaped
  <2> QED
    BY <1>5, <1>7, <1>9, <2>1 DEF HeapMade
<1>10. CASE ~(left >= n)
  <2>1. /\ j \in 1 .. n - 1 /\ j \in 0 .. n - 1 /\ Up(j) = e /\ e < j /\ e \in 0 .. n - 1
        /\ \A k \in 1 .. n - 1 : Up(k) = e => b[j] >= b[k]
    <3>1. left \in 1 .. n - 1 /\ e \in 0 .. n - 1 /\ e < left
      BY <1>4, <1>10
    <3>2. CASE left < n - 1 /\ ~(b[left] >= b[left + 1])
      <4>1. j = left + 1 /\ left + 1 \in 1 .. n - 1 /\ Up(left + 1) = e
        BY <1>4, <3>1, <3>2, UpIs DEF Child
      <4>2. b[left] \in Int /\ b[left + 1] \in Int
        BY <1>6, <3>1, <4>1
      <4> QED
        BY <1>4, <1>8, <3>1, <3>2, <4>1, <4>2
    <3>3. CASE ~(left < n - 1 /\ ~(b[left] >= b[left + 1]))
      <4>1. j = left /\ Up(left) = e
        BY <1>4, <3>1, <3>3, UpIs DEF Child
      <4>2. b[left] \in Int
        BY <1>6, <3>1
      <4>3. ASSUME NEW k \in 1 .. n - 1, Up(k) = e PROVE b[j] >= b[k]
        <5>1. CASE k = left
          BY <4>1, <4>2, <5>1
        <5>2. CASE k = left + 1
          BY <3>1, <3>3, <4>1, <5>2
        <5> QED
          BY <1>8, <4>3, <5>1, <5>2
      <4> QED
        BY <3>1, <4>1, <4>3
    <3> QED
      BY <3>2, <3>3
  <2> HIDE DEF j, left
  <2>2. CASE b[e] >= b[j]
    <3>1. ASSUME NEW k \in 1 .. n - 1 PROVE b[Up(k)] >= b[k]
      <4>1. CASE Up(k) = e
        <5>1. b[j] >= b[k] /\ b[j] \in Int /\ b[k] \in Int /\ b[e] \in Int
          BY <1>6, <2>1, <4>1
        <5> QED
          BY <2>2, <4>1, <5>1
      <4>2. CASE Up(k) # e
        BY <1>5, <4>2 DEF Sinking
      <4> QED
        BY <4>1, <4>2
    <3>2. Heaped(b, n)
      BY <3>1 DEF Heaped
    <3> QED
      BY <1>5, <1>7, <2>2, <3>2 DEF HeapMade
  <2>3. CASE ~(b[e] >= b[j])
    <3> DEFINE d == Cont!Swap(b, e, j)
    <3>1. d \in A /\ d[e] = b[j] /\ d[j] = b[e] /\ \A k \in 0 .. M - 1 : k # e /\ k # j => d[k] = b[k]
      BY <1>5, <1>6, <2>1, SwapPlaces
    <3>2. Holds(d, n, s) /\ Inside(d, n)
      BY <1>5, <2>1, SwapHolds
    <3> HIDE DEF d
    <3>3. b[e] \in Int /\ b[j] \in Int /\ b[j] >= b[e]
      BY <1>6, <2>1, <2>3
    <3>4. ASSUME NEW k \in 1 .. n - 1, Up(k) # j PROVE d[Up(k)] >= d[k]
      <4>1. Up(k) \in 0 .. n - 1 /\ Up(k) # k /\ k \in 0 .. n - 1
        BY UpIs
      <4>2. CASE Up(k) = e
        <5>1. d[Up(k)] = b[j] /\ b[j] >= b[k] /\ (d[k] = b[k] \/ d[k] = b[e])
          BY <1>6, <2>1, <3>1, <4>1, <4>2
        <5> QED
          BY <3>3, <5>1
      <4>3. CASE Up(k) # e /\ k = e
        <5>1. e # 0 /\ b[Up(e)] >= b[j] /\ d[Up(k)] = b[Up(e)] /\ d[k] = b[j]
          BY <1>5, <1>6, <2>1, <3>1, <3>4, <4>1, <4>3 DEF Sinking
        <5> QED
          BY <5>1
      <4>4. CASE Up(k) # e /\ k # e
        <5>1. k # j
          BY <2>1, <4>4
        <5>2. b[Up(k)] >= b[k] /\ d[Up(k)] = b[Up(k)] /\ d[k] = b[k]
          BY <1>5, <1>6, <3>1, <3>4, <4>1, <4>4, <5>1 DEF Sinking
        <5> QED
          BY <5>2
      <4> QED
        BY <4>2, <4>3, <4>4
    <3>5. ASSUME NEW k \in 1 .. n - 1, Up(k) = j PROVE d[Up(j)] >= d[k]
      <4>1. k # j /\ k # e /\ k \in 0 .. n - 1 /\ j # e
        BY <2>1, <3>5, UpIs
      <4>2. d[Up(j)] = b[j] /\ d[k] = b[k] /\ b[j] >= b[k]
        BY <1>5, <1>6, <2>1, <3>1, <3>5, <4>1 DEF Sinking
      <4> QED
        BY <4>2
    <3>6. Sinking(d, n, j)
      BY <3>4, <3>5 DEF Sinking
    <3>7. HeapMade(Cont!Sink(d, j, n), M, n, s)
      <4>1. PICK o \in 0 .. n : o = n - j /\ o < l /\ n - o = j
        BY <1>3, <1>4, <2>1
      <4>2. o \notin Bad
        BY <1>3, <4>1
      <4> QED
        BY <3>1, <3>2, <3>6, <4>1, <4>2
    <3> QED
      BY <1>5, <1>7, <1>10, <2>3, <3>7 DEF d, left
  <2> QED
    BY <2>2, <2>3
<1> QED
  BY <1>9, <1>10

(* Nothing is more than the root. *)
LEMMA RootIs ==
    ASSUME Cont!ContainerAssumption, NEW n \in Nat, NEW a, Inside(a, n), Heaped(a, n)
    PROVE  \A k \in 0 .. n - 1 : a[0] >= a[k]
<1> DEFINE Bad == {k \in 0 .. n - 1 : ~(a[0] >= a[k])}
<1>1. SUFFICES ASSUME Bad # {} PROVE FALSE
  OBVIOUS
<1>2. Bad \in SUBSET Nat
  OBVIOUS
<1>3. PICK k \in Bad : \A j \in Bad : k <= j
  BY <1>1, <1>2, LeastElement
<1>4. \A j \in 0 .. n - 1 : a[j] \in Int
  BY DEF Inside, Cont!ContainerAssumption
<1>5. k # 0
  BY <1>3, <1>4
<1>6. k \in 1 .. n - 1 /\ Up(k) \in 0 .. n - 1 /\ Up(k) < k /\ 0 \in 0 .. n - 1
  BY <1>3, <1>5, UpIs
<1>7. Up(k) \notin Bad
  BY <1>3, <1>6
<1>8. a[0] >= a[Up(k)] /\ a[Up(k)] >= a[k]
  BY <1>6, <1>7 DEF Heaped
<1> QED
  BY <1>3, <1>4, <1>6, <1>8

(* Only the first n places matter. *)
LEMMA SameBelow ==
    ASSUME NEW n \in Nat, NEW a, NEW b, \A k \in 0 .. n - 1 : b[k] = a[k], NEW s
    PROVE  /\ Inside(a, n) => Inside(b, n)
           /\ Heaped(a, n) => Heaped(b, n)
           /\ Holds(a, n, s) => Holds(b, n, s)
<1>1. Inside(a, n) => Inside(b, n)
  BY DEF Inside
<1>2. ASSUME Heaped(a, n) PROVE Heaped(b, n)
  <2>1. ASSUME NEW k \in 1 .. n - 1 PROVE b[Up(k)] >= b[k]
    <3>1. k \in 0 .. n - 1 /\ Up(k) \in 0 .. n - 1
      BY UpIs
    <3> QED
      BY <1>2, <3>1 DEF Heaped
  <2> QED
    BY <2>1 DEF Heaped
<1>3. ASSUME Holds(a, n, s) PROVE Holds(b, n, s)
  <2>1. PICK p \in [1 .. n -> 0 .. n - 1] : Places(p, n) /\ \A k \in 1 .. n : s[k] = a[p[k]]
    BY <1>3 DEF Holds
  <2>2. \A k \in 1 .. n : s[k] = b[p[k]]
    BY <2>1
  <2> QED
    BY <2>1, <2>2 DEF Holds
<1> QED
  BY <1>1, <1>2, <1>3

(* A value in the next place, wherever it is put in the sequence. *)
LEMMA HoldsMore ==
    ASSUME NEW n \in Nat, NEW a, NEW s \in Seq(Values), NEW u, NEW v, NEW b \in 0 .. n, Len(s) = n,
           Holds(a, n, s), a[n] = v, Placed(u, s, v, b)
    PROVE  Holds(a, n + 1, u)
<1>1. PICK p \in [1 .. n -> 0 .. n - 1] : Places(p, n) /\ \A k \in 1 .. n : s[k] = a[p[k]]
  BY DEF Holds
<1>2. PICK r \in [1 .. n + 1 -> 0 .. n + 1 - 1] :
          \A k \in 1 .. n + 1 : r[k] = IF k <= b THEN p[k] ELSE IF k = b + 1 THEN n ELSE p[k - 1]
  <2> DEFINE f == [k \in 1 .. n + 1 |-> IF k <= b THEN p[k] ELSE IF k = b + 1 THEN n ELSE p[k - 1]]
  <2>1. f \in [1 .. n + 1 -> 0 .. n + 1 - 1]
    OBVIOUS
  <2> QED
    BY <2>1
<1>3. \A k \in 1 .. n + 1 :
          \/ k <= b /\ k \in 1 .. n /\ r[k] = p[k] /\ u[k] = s[k]
          \/ k = b + 1 /\ r[k] = n /\ u[k] = v
          \/ k > b + 1 /\ k - 1 \in 1 .. n /\ r[k] = p[k - 1] /\ u[k] = s[k - 1]
  <2>1. ASSUME NEW k \in 1 .. n + 1, k > b + 1 PROVE k - 1 \in b + 1 .. Len(s) /\ k - 1 \in 1 .. n /\ (k - 1) + 1 = k
    BY <2>1
  <2>2. ASSUME NEW k \in 1 .. n + 1, k > b + 1 PROVE u[k] = s[k - 1]
    BY <2>1, <2>2 DEF Placed
  <2> QED
    BY <1>2, <2>1, <2>2 DEF Placed
<1>4. \A k \in 1 .. n + 1 : u[k] = a[r[k]]
  BY <1>1, <1>3
<1>5. \A k, j \in 1 .. n + 1 : r[k] = r[j] => k = j
  <2>1. SUFFICES ASSUME NEW k \in 1 .. n + 1, NEW j \in 1 .. n + 1, r[k] = r[j] PROVE k = j
    OBVIOUS
  <2>2. PICK x \in Int, y \in Int :
                    /\ x = IF k <= b THEN k ELSE k - 1
                    /\ y = IF j <= b THEN j ELSE j - 1
    OBVIOUS
  <2>3. /\ (k = b + 1 /\ r[k] = n) \/ (k # b + 1 /\ x \in 1 .. n /\ r[k] = p[x])
        /\ (j = b + 1 /\ r[j] = n) \/ (j # b + 1 /\ y \in 1 .. n /\ r[j] = p[y])
    <3>1. (k = b + 1 /\ r[k] = n) \/ (k # b + 1 /\ x \in 1 .. n /\ r[k] = p[x])
      BY <1>3, <2>2
    <3>2. (j = b + 1 /\ r[j] = n) \/ (j # b + 1 /\ y \in 1 .. n /\ r[j] = p[y])
      BY <1>3, <2>2
    <3> QED
      BY <3>1, <3>2
  <2>4. \A z \in 1 .. n : p[z] # n
    BY <1>1
  <2>5. CASE k = b + 1
    BY <2>1, <2>3, <2>4, <2>5
  <2>6. CASE k # b + 1
    <3>1. j # b + 1 /\ x \in 1 .. n /\ y \in 1 .. n /\ p[x] = p[y]
      BY <2>1, <2>3, <2>4, <2>6
    <3>2. x = y
      BY <1>1, <3>1 DEF Places
    <3>3. k \in Int /\ j \in Int /\ b \in Int
      OBVIOUS
    <3>4. CASE k <= b
      BY <2>2, <3>1, <3>2, <3>3, <3>4
    <3>5. CASE ~(k <= b)
      BY <2>2, <2>6, <3>1, <3>2, <3>3, <3>5
    <3> QED
      BY <3>4, <3>5
  <2> QED
    BY <2>5, <2>6
<1>6. \A h \in 0 .. n + 1 - 1 : \E k \in 1 .. n + 1 : r[k] = h
  <2>1. SUFFICES ASSUME NEW h \in 0 .. n PROVE \E k \in 1 .. n + 1 : r[k] = h
    OBVIOUS
  <2>2. CASE h = n
    <3>1. b + 1 \in 1 .. n + 1 /\ ~(b + 1 <= b)
      OBVIOUS
    <3>2. r[b + 1] = n
      BY <1>2, <3>1
    <3> QED
      BY <2>2, <3>1, <3>2
  <2>3. CASE h # n
    <3>1. h \in 0 .. n - 1
      BY <2>3
    <3>2. PICK l \in 1 .. n : p[l] = h
      BY <1>1, <3>1 DEF Places
    <3>3. PICK k \in 1 .. n + 1 : k = IF l <= b THEN l ELSE l + 1
      OBVIOUS
    <3>4. r[k] = p[l]
      <4>1. CASE l <= b
        BY <1>2, <3>3, <4>1
      <4>2. CASE ~(l <= b)
        <5>1. k = l + 1 /\ ~(k <= b) /\ k # b + 1 /\ k - 1 = l
          BY <3>3, <4>2
        <5> QED
          BY <1>2, <5>1
      <4> QED
        BY <4>1, <4>2
    <3> QED
      BY <3>2, <3>4
  <2> QED
    BY <2>2, <2>3
<1>7. Places(r, n + 1)
  BY <1>5, <1>6 DEF Places
<1>8. PICK N \in Nat : N = n + 1
  OBVIOUS
<1>9. r \in [1 .. N -> 0 .. N - 1] /\ Places(r, N) /\ \A k \in 1 .. N : u[k] = a[r[k]]
  BY <1>4, <1>7, <1>8
<1> QED
  BY <1>8, <1>9 DEF Holds

(* The first of the sequence is taken from the root, and the last place's   *)
(* value put there.                                                         *)
LEMMA HoldsLess ==
    ASSUME NEW n \in Nat, NEW a, NEW b, NEW s, NEW u, Holds(a, n + 1, s), s[1] = a[0],
           b[0] = a[n], \A k \in 1 .. n - 1 : b[k] = a[k], \A k \in 1 .. n : u[k] = s[k + 1]
    PROVE  Holds(b, n, u)
<1>1. PICK N \in Nat \ {0} : N = n + 1 /\ n = N - 1
  OBVIOUS
<1>2. PICK q \in [1 .. N -> 0 .. N - 1] : Places(q, N) /\ \A k \in 1 .. N : s[k] = a[q[k]]
  BY <1>1 DEF Holds
<1>3. PICK f \in 1 .. N : q[f] = 0
  BY <1>1, <1>2 DEF Places
<1>4. PICK p \in [1 .. N -> 0 .. N - 1] : Places(p, N) /\ p[1] = 0 /\ \A k \in 1 .. N : s[k] = a[p[k]]
  <2>1. PICK p \in [1 .. N -> 0 .. N - 1] : \A k \in 1 .. N : p[k] = IF k = 1 THEN 0 ELSE IF k = f THEN q[1] ELSE q[k]
    <3> DEFINE g == [k \in 1 .. N |-> IF k = 1 THEN 0 ELSE IF k = f THEN q[1] ELSE q[k]]
    <3>1. g \in [1 .. N -> 0 .. N - 1]
      BY <1>1, <1>2
    <3> QED
      BY <3>1
  <2>2. PICK o \in [1 .. N -> 1 .. N] : \A k \in 1 .. N : o[k] = IF k = 1 THEN f ELSE IF k = f THEN 1 ELSE k
    <3> DEFINE g == [k \in 1 .. N |-> IF k = 1 THEN f ELSE IF k = f THEN 1 ELSE k]
    <3>1. g \in [1 .. N -> 1 .. N]
      BY <1>1
    <3> QED
      BY <3>1
  <2>3. ASSUME NEW k \in 1 .. N PROVE p[k] = q[o[k]] /\ o[k] \in 1 .. N
    <3>1. o[k] \in 1 .. N
      BY <2>2
    <3>2. CASE k = 1
      BY <1>3, <2>1, <2>2, <3>1, <3>2
    <3>3. CASE k # 1 /\ k = f
      BY <2>1, <2>2, <3>1, <3>3
    <3>4. CASE k # 1 /\ k # f
      BY <2>1, <2>2, <3>1, <3>4
    <3> QED
      BY <3>2, <3>3, <3>4
  <2>4. \A k, j \in 1 .. N : o[k] = o[j] => k = j
    BY <2>2
  <2>5. \A l \in 1 .. N : o[o[l]] = l
    BY <2>2
  <2>6. \A k, j \in 1 .. N : p[k] = p[j] => k = j
    BY <1>2, <2>3, <2>4 DEF Places
  <2>7. \A h \in 0 .. N - 1 : \E k \in 1 .. N : p[k] = h
    <3>1. SUFFICES ASSUME NEW h \in 0 .. N - 1 PROVE \E k \in 1 .. N : p[k] = h
      OBVIOUS
    <3>2. PICK l \in 1 .. N : q[l] = h
      BY <1>2 DEF Places
    <3>3. o[l] \in 1 .. N /\ p[o[l]] = h
      BY <2>3, <2>5, <3>2
    <3> QED
      BY <3>3
  <2>8. 1 \in 1 .. N
    BY <1>1
  <2>9. s[1] = a[q[1]] /\ s[f] = a[0]
    BY <1>2, <1>3, <2>8
  <2>10. \A k \in 1 .. N : s[k] = a[p[k]]
    BY <1>2, <1>3, <2>1, <2>9
  <2>11. Places(p, N) /\ p[1] = 0
    BY <2>1, <2>6, <2>7, <2>8 DEF Places
  <2> QED
    BY <2>10, <2>11
<1>5. PICK r \in [1 .. n -> 0 .. n - 1] : \A k \in 1 .. n : r[k] = IF p[k + 1] = n THEN 0 ELSE p[k + 1]
  <2> DEFINE g == [k \in 1 .. n |-> IF p[k + 1] = n THEN 0 ELSE p[k + 1]]
  <2>1. g \in [1 .. n -> 0 .. n - 1]
    <3>1. ASSUME NEW k \in 1 .. n PROVE (IF p[k + 1] = n THEN 0 ELSE p[k + 1]) \in 0 .. n - 1
      <4>1. k + 1 \in 1 .. N
        BY <1>1
      <4>2. p[k + 1] \in 0 .. N - 1
        BY <4>1
      <4> QED
        BY <1>1, <4>2
    <3> QED
      BY <3>1
  <2> QED
    BY <2>1
<1>6. \A k \in 1 .. n : k + 1 \in 1 .. N /\ k + 1 # 1 /\ p[k + 1] # 0 /\ p[k + 1] \in 0 .. n
  <2>1. SUFFICES ASSUME NEW k \in 1 .. n PROVE k + 1 \in 1 .. N /\ k + 1 # 1 /\ p[k + 1] # 0 /\ p[k + 1] \in 0 .. n
    OBVIOUS
  <2>2. k + 1 \in 1 .. N /\ k + 1 # 1 /\ 1 \in 1 .. N
    BY <1>1
  <2>3. p[k + 1] # p[1] /\ p[k + 1] \in 0 .. n
    BY <1>1, <1>4, <2>2 DEF Places
  <2> QED
    BY <1>4, <2>2, <2>3
<1>7. \A k, j \in 1 .. n : r[k] = r[j] => k = j
  <2>1. SUFFICES ASSUME NEW k \in 1 .. n, NEW j \in 1 .. n, r[k] = r[j] PROVE k = j
    OBVIOUS
  <2>2. p[k + 1] = p[j + 1]
    BY <1>5, <1>6, <2>1
  <2>3. k + 1 = j + 1
    BY <1>4, <1>6, <2>2 DEF Places
  <2> QED
    BY <2>3
<1>8. \A h \in 0 .. n - 1 : \E k \in 1 .. n : r[k] = h
  <2>1. SUFFICES ASSUME NEW h \in 0 .. n - 1 PROVE \E k \in 1 .. n : r[k] = h
    OBVIOUS
  <2>2. PICK g \in 1 .. n : g = IF h = 0 THEN n ELSE h
    OBVIOUS
  <2>3. g \in 0 .. N - 1
    BY <1>1
  <2>4. PICK l \in 1 .. N : p[l] = g
    BY <1>4, <2>3 DEF Places
  <2>5. l # 1
    BY <1>4, <2>4
  <2>6. PICK k \in 1 .. n : k + 1 = l
    <3>1. l - 1 \in 1 .. n /\ (l - 1) + 1 = l
      BY <1>1, <2>5
    <3> QED
      BY <3>1
  <2>7. r[k] = IF g = n THEN 0 ELSE g
    BY <1>5, <2>4, <2>6
  <2>8. r[k] = h
    BY <2>2, <2>7
  <2> QED
    BY <2>8
<1>9. \A k \in 1 .. n : u[k] = b[r[k]]
  <2>1. SUFFICES ASSUME NEW k \in 1 .. n PROVE u[k] = b[r[k]]
    OBVIOUS
  <2>2. u[k] = a[p[k + 1]]
    BY <1>4, <1>6
  <2>3. CASE p[k + 1] = n
    BY <1>5, <2>2, <2>3
  <2>4. CASE p[k + 1] # n
    <3>1. p[k + 1] \in 0 .. n /\ p[k + 1] # 0 /\ p[k + 1] # n /\ r[k] = p[k + 1]
      BY <1>5, <1>6, <2>4
    <3>2. p[k + 1] \in 1 .. n - 1
      <4>1. PICK x \in 0 .. n : x = p[k + 1]
        BY <3>1
      <4>2. x # 0 /\ x # n
        BY <3>1, <4>1, Zenon
      <4>3. x \in 1 .. n - 1
        BY <4>2
      <4> QED
        BY <4>1, <4>3
    <3> QED
      BY <2>2, <3>1, <3>2
  <2> QED
    BY <2>3, <2>4
<1>10. Places(r, n)
  BY <1>7, <1>8 DEF Places
<1> QED
  BY <1>9, <1>10 DEF Holds

(* What leaves first is not less. *)
Descending(s) == \A k, j \in 1 .. Len(s) : k <= j => s[k] >= s[j]

(* A value goes behind those that are as great. *)
LEMMA InsertSorted ==
    ASSUME Cont!ContainerAssumption, contents \in Seq(Values), NEW v \in Values, container = "priority_queue",
           Descending(contents)
    PROVE  \E b \in 0 .. Len(contents) :
               /\ Placed(Cont!Insert(v), contents, v, b)
               /\ Descending(Cont!Insert(v))
<1>1. PICK n \in Nat : n = Len(contents) /\ DOMAIN contents = 1 .. n
  BY LenProperties
<1>2. v \in Int /\ \A k \in 1 .. n : contents[k] \in Values /\ contents[k] \in Int
  BY <1>1, ElementOfSeq DEF Cont!ContainerAssumption
<1> DEFINE S == {k \in DOMAIN contents : contents[k] >= v}
<1>3. PICK b \in 0 .. n : S = 1 .. b
  <2> DEFINE Less == {k \in 0 .. n : ~(k + 1 \in 1 .. n /\ contents[k + 1] >= v)}
  <2>1. Less \in SUBSET Nat /\ n \in Less
    BY <1>1
  <2>2. PICK b \in Less : \A k \in Less : b <= k
    BY <2>1, LeastElement
  <2>3. b \in 0 .. n
    BY <2>2
  <2>4. ASSUME NEW k \in 1 .. b PROVE contents[k] >= v /\ k \in 1 .. n
    <3>1. k - 1 \in 0 .. n /\ ~(b <= k - 1) /\ (k - 1) + 1 = k
      BY <2>3
    <3>2. k - 1 \notin Less
      BY <2>2, <3>1
    <3> QED
      BY <3>1, <3>2
  <2>5. ASSUME NEW k \in 1 .. n, contents[k] >= v PROVE k \in 1 .. b
    <3>1. SUFFICES ASSUME k > b PROVE FALSE
      BY <2>3
    <3>2. b + 1 \in 1 .. n /\ b + 1 <= k
      BY <2>3, <3>1
    <3>3. contents[b + 1] >= contents[k]
      BY <1>1, <3>2 DEF Descending
    <3>4. contents[b + 1] >= v
      BY <1>2, <2>5, <3>2, <3>3
    <3> QED
      BY <2>2, <3>2, <3>4
  <2>6. S = 1 .. b
    BY <1>1, <2>4, <2>5
  <2> QED
    BY <2>3, <2>6
<1>4. Cont!Cardinality(S) = b
  <2>1. 1 \in Int /\ b \in Int /\ (IF 1 > b THEN 0 ELSE b - 1 + 1) = b
    OBVIOUS
  <2>2. Cardinality(1 .. b) = b
    BY <2>1, FS_Interval
  <2> QED
    BY <1>3, <2>2, ContCardinality
<1>5. Cont!Insert(v) = SubSeq(contents, 1, b) \o <<v>> \o SubSeq(contents, b + 1, Len(contents))
  BY <1>4 DEF Cont!Insert
<1>6. Placed(Cont!Insert(v), contents, v, b)
  BY <1>1, <1>5, InsertIs
<1>7. PICK u : u = Cont!Insert(v)
  OBVIOUS
<1>8. \A k \in 1 .. n + 1 :
          \/ k <= b /\ k \in 1 .. n /\ u[k] = contents[k] /\ contents[k] >= v
          \/ k = b + 1 /\ u[k] = v
          \/ k > b + 1 /\ k - 1 \in 1 .. n /\ u[k] = contents[k - 1] /\ ~(contents[k - 1] >= v)
  <2>1. ASSUME NEW k \in 1 .. n + 1, k <= b
        PROVE  k \in 1 .. n /\ u[k] = contents[k] /\ contents[k] >= v
    <3>1. k \in 1 .. b
      BY <2>1
    <3> QED
      BY <1>1, <1>3, <1>6, <1>7, <3>1 DEF Placed
  <2>2. ASSUME NEW k \in 1 .. n + 1, k > b + 1
        PROVE  k - 1 \in 1 .. n /\ u[k] = contents[k - 1] /\ ~(contents[k - 1] >= v)
    <3>1. k - 1 \in b + 1 .. n /\ k - 1 \in 1 .. n /\ (k - 1) + 1 = k /\ k - 1 \notin 1 .. b
      BY <2>2
    <3>2. u[(k - 1) + 1] = contents[k - 1]
      BY <1>1, <1>6, <1>7, <3>1 DEF Placed
    <3> QED
      BY <1>1, <1>3, <3>1, <3>2
  <2>3. u[b + 1] = v
    BY <1>6, <1>7 DEF Placed
  <2> QED
    BY <2>1, <2>2, <2>3
<1>9. Len(u) = n + 1
  BY <1>1, <1>6, <1>7 DEF Placed
<1>10. ASSUME NEW k \in 1 .. n + 1, NEW j \in 1 .. n + 1, k <= j PROVE u[k] >= u[j]
  <2>1. CASE k <= b /\ j <= b
    <3>1. k \in 1 .. n /\ j \in 1 .. n /\ u[k] = contents[k] /\ u[j] = contents[j]
      BY <1>8, <2>1
    <3> QED
      BY <1>1, <1>10, <3>1 DEF Descending
  <2>2. CASE k <= b /\ j = b + 1
    BY <1>8, <2>2
  <2>3. CASE k <= b /\ j > b + 1
    <3>1. k \in 1 .. n /\ j - 1 \in 1 .. n /\ u[k] = contents[k] /\ u[j] = contents[j - 1] /\ k <= j - 1
      BY <1>8, <2>3
    <3> QED
      BY <1>1, <3>1 DEF Descending
  <2>4. CASE k = b + 1 /\ j = b + 1
    BY <1>2, <1>8, <2>4
  <2>5. CASE k = b + 1 /\ j > b + 1
    <3>0. j > b + 1 /\ ~(j <= b) /\ j # b + 1
      BY <2>5
    <3>1. j - 1 \in 1 .. n /\ u[j] = contents[j - 1] /\ ~(contents[j - 1] >= v)
      BY <1>8, <3>0
    <3>3. u[k] = v
      BY <1>8, <2>5
    <3>2. contents[j - 1] \in Int
      BY <1>2, <3>1
    <3> QED
      BY <1>2, <3>1, <3>2, <3>3
  <2>6. CASE k > b + 1 /\ j > b + 1
    <3>1. k - 1 \in 1 .. n /\ j - 1 \in 1 .. n /\ u[k] = contents[k - 1] /\ u[j] = contents[j - 1] /\ k - 1 <= j - 1
      BY <1>8, <1>10, <2>6
    <3> QED
      BY <1>1, <3>1 DEF Descending
  <2> QED
    BY <1>10, <2>1, <2>2, <2>3, <2>4, <2>5, <2>6
<1>11. Descending(u)
  BY <1>9, <1>10 DEF Descending
<1> QED
  BY <1>1, <1>6, <1>7, <1>11

-----------------------------------------------------------------------------
(* The queue is a heap of what it should hold, the greatest first. *)
PqInv ==
    /\ c \in [arr : Arrays, iput : Nat, nmem : Nat \ {0}]
    /\ DOMAIN c.arr = 0 .. c.nmem - 1
    /\ c.iput = Len(contents) /\ c.iput <= c.nmem
    /\ Inside(c.arr, c.iput) /\ Heaped(c.arr, c.iput) /\ Holds(c.arr, c.iput, contents)
    /\ Descending(contents)

(* What the queue's record is. *)
LEMMA PqFields ==
    ASSUME PqInv, Answers
    PROVE  /\ c.nmem \in Nat \ {0} /\ c.iput \in Nat /\ c.iput <= c.nmem
           /\ Len(contents) = c.iput
           /\ c.arr \in [0 .. c.nmem - 1 -> Cont!Elements]
           /\ c = [arr |-> c.arr, iput |-> c.iput, nmem |-> c.nmem]
           /\ contents = <<>> <=> c.iput = 0
<1>1. PICK n \in Nat : c.arr \in [0 .. n - 1 -> Cont!Elements]
  BY DEF PqInv, Arrays
<1>2. c.arr \in [0 .. c.nmem - 1 -> Cont!Elements]
  BY <1>1 DEF PqInv
<1>3. contents = <<>> <=> Len(contents) = 0
  BY EmptyIs DEF Answers
<1> QED
  BY <1>2, <1>3 DEF PqInv

(* What realloc() keeps of the heap. *)
LEMMA PqResizeIs ==
    ASSUME NEW s, NEW n \in Nat, NEW m \in Nat \ {0},
           s.arr \in [0 .. n - 1 -> Cont!Elements], s = [arr |-> s.arr, iput |-> s.iput, nmem |-> s.nmem]
    PROVE  LET r == Cont!Resize(s, m)
           IN  /\ r.arr \in [0 .. m - 1 -> Cont!Elements] /\ r.iput = s.iput /\ r.nmem = m
               /\ r = [arr |-> r.arr, iput |-> r.iput, nmem |-> r.nmem]
               /\ \A k \in 0 .. m - 1 : k <= n - 1 => r.arr[k] = s.arr[k]
<1>1. Garbage \in Cont!Elements
  BY DEF Cont!Elements
<1> DEFINE a == [k \in 0 .. m - 1 |-> IF k \in DOMAIN s.arr THEN s.arr[k] ELSE Garbage]
<1>2. a \in [0 .. m - 1 -> Cont!Elements] /\ \A k \in 0 .. m - 1 : k <= n - 1 => a[k] = s.arr[k]
  BY <1>1
<1> HIDE DEF a
<1>3. Cont!Resize(s, m) = [s EXCEPT !.arr = a, !.nmem = m]
  BY DEF Cont!Resize, a
<1>4. Cont!Resize(s, m) = [arr |-> a, iput |-> s.iput, nmem |-> m]
  BY <1>3
<1> QED
  BY <1>2, <1>4

(* pq_push(): the value behind the heap swims, with twice the memory when it is full. *)
LEMMA PqPush ==
    ASSUME Cont!ContainerAssumption, PqInv, Answers, NEW v \in Values, container = "priority_queue",
           Cont!Push(v)
    PROVE  PqInv' /\ Answers'
<1>1. PICK n \in Nat : n = c.iput /\ n = Len(contents)
  BY PqFields
<1>2. PICK b \in 0 .. n : Placed(contents', contents, v, b) /\ Descending(contents')
  <2>1. contents' = Cont!Insert(v)
    BY DEF Cont!Push
  <2>2. Descending(contents)
    BY DEF PqInv
  <2> QED
    BY <1>1, <2>1, <2>2, InsertSorted DEF Answers
<1> DEFINE room == IF c.iput = c.nmem THEN Cont!Resize(c, c.nmem * 2) ELSE c
<1>3. /\ c' = [room EXCEPT !.arr = Cont!Swim([@ EXCEPT ![c.iput] = v], c.iput), !.iput = @ + 1]
      /\ ret' = Null /\ should' = Null
  <2>1. Cont!Call(Cont!PqPush(c, v)) /\ ~Cont!Full
    BY DEF Cont!Push, Cont!PushTo
  <2> QED
    BY <2>1 DEF Cont!Push, Cont!Call, Cont!PqPush, Cont!PqSize, Cont!Done
<1>4. PICK m \in Nat : n < m /\ room.arr \in [0 .. m - 1 -> Cont!Elements] /\ room.nmem = m
      /\ room.iput = n
      /\ room = [arr |-> room.arr, iput |-> room.iput, nmem |-> room.nmem]
      /\ \A k \in 0 .. n - 1 : room.arr[k] = c.arr[k]
  <2>1. CASE c.iput = c.nmem
    <3> DEFINE m == c.nmem * 2
               r == Cont!Resize(c, m)
    <3>1. m \in Nat \ {0} /\ m > n /\ n = c.nmem /\ n \in Nat
      BY <1>1, <2>1, PqFields
    <3>2. /\ r.arr \in [0 .. m - 1 -> Cont!Elements] /\ r.iput = c.iput /\ r.nmem = m
          /\ r = [arr |-> r.arr, iput |-> r.iput, nmem |-> r.nmem]
          /\ \A k \in 0 .. m - 1 : k <= c.nmem - 1 => r.arr[k] = c.arr[k]
      <4> HIDE DEF m
      <4> QED
        BY <3>1, PqFields, PqResizeIs
    <3>3. \A k \in 0 .. n - 1 : k \in 0 .. m - 1 /\ k <= c.nmem - 1
      BY <3>1
    <3>4. room = r
      BY <2>1
    <3> HIDE DEF m, r, room
    <3> QED
      BY <1>1, <3>1, <3>2, <3>3, <3>4
  <2>2. CASE c.iput # c.nmem
    <3>1. room = c /\ n < c.nmem /\ c.nmem \in Nat
      BY <1>1, <2>2, PqFields
    <3> HIDE DEF room
    <3> QED
      BY <1>1, <3>1, PqFields
  <2> QED
    BY <2>1, <2>2
<1> HIDE DEF room
<1>5. PICK a : a = [room.arr EXCEPT ![n] = v]
  OBVIOUS
<1>6. n \in 0 .. m - 1 /\ n + 1 \in 0 .. m /\ v \in Cont!Elements /\ n \in 0 .. (n + 1) - 1
  BY <1>4 DEF Cont!Elements
<1>7. a \in [0 .. m - 1 -> Cont!Elements] /\ a[n] = v /\ \A k \in 0 .. n - 1 : a[k] = c.arr[k]
  BY <1>4, <1>5, <1>6
<1>8. Inside(a, n) /\ Heaped(a, n) /\ Holds(a, n, contents)
  BY <1>1, <1>7, SameBelow DEF PqInv
<1>9. Inside(a, n + 1)
  BY <1>7, <1>8 DEF Inside
<1>10. Holds(a, n + 1, contents')
  BY <1>1, <1>2, <1>7, <1>8, HoldsMore DEF Answers
<1>11. Rising(a, n + 1, n)
  <2>1. ASSUME NEW k \in 1 .. n + 1 - 1 PROVE (k # n => a[Up(k)] >= a[k]) /\ Up(k) # n
    <3>1. Up(k) < k
      BY UpIs
    <3> QED
      BY <1>8, <3>1 DEF Heaped
  <2> QED
    BY <2>1 DEF Rising
<1>12. HeapMade(Cont!Swim(a, n), m, n + 1, contents')
  BY <1>6, <1>7, <1>9, <1>10, <1>11, SwimIs
<1>13. /\ c'.arr = Cont!Swim(a, n) /\ c'.iput = n + 1 /\ c'.nmem = m
       /\ c' = [arr |-> c'.arr, iput |-> c'.iput, nmem |-> c'.nmem]
  <2>1. PICK x, y : x = Cont!Swim([room.arr EXCEPT ![c.iput] = v], c.iput) /\ y = room.iput + 1
    OBVIOUS
  <2>2. c' = [room EXCEPT !.arr = x, !.iput = y]
    BY <1>3, <2>1
  <2>3. c' = [arr |-> x, iput |-> y, nmem |-> room.nmem]
    BY <1>4, <2>2
  <2> QED
    BY <1>1, <1>4, <1>5, <2>1, <2>3
<1>14. Len(contents') = n + 1 /\ contents' \in Seq(Values)
  BY <1>1, <1>2 DEF Placed
<1>15. c'.arr \in [0 .. m - 1 -> Cont!Elements] /\ c'.arr \in Arrays /\ DOMAIN c'.arr = 0 .. m - 1
  BY <1>12, <1>13 DEF HeapMade, Arrays
<1>16. c' \in [arr : Arrays, iput : Nat, nmem : Nat \ {0}]
  <2>1. n + 1 \in Nat /\ m \in Nat \ {0}
    BY <1>4
  <2> QED
    BY <1>13, <1>15, <2>1
<1>17. Inside(c'.arr, c'.iput) /\ Heaped(c'.arr, c'.iput) /\ Holds(c'.arr, c'.iput, contents')
  BY <1>12, <1>13 DEF HeapMade
<1>18. Inside(c.arr, c.iput)' /\ Heaped(c.arr, c.iput)'
  BY <1>17 DEF Inside, Heaped, Up
<1>19. Holds(c.arr, c.iput, contents)'
  BY <1>17 DEF Holds, Places
<1>20. Descending(contents)'
  BY <1>2 DEF Descending
<1>21. c'.iput = Len(contents') /\ c'.iput <= c'.nmem /\ DOMAIN c'.arr = 0 .. c'.nmem - 1
  BY <1>4, <1>13, <1>14, <1>15
<1>22. (c \in [arr : Arrays, iput : Nat, nmem : Nat \ {0}])'
  BY <1>16 DEF Arrays
<1>23. PqInv'
  BY <1>18, <1>19, <1>20, <1>21, <1>22 DEF PqInv
<1> QED
  BY <1>3, <1>14, <1>23 DEF Answers

(* The root holds the value that leaves first. *)
LEMMA PqFirst ==
    ASSUME Cont!ContainerAssumption, PqInv, Answers, contents # <<>>
    PROVE  contents[1] = c.arr[0]
<1> DEFINE a == c.arr
<1>1. PICK n \in Nat \ {0} : n = c.iput /\ n = Len(contents) /\ 0 \in 0 .. n - 1 /\ 1 \in 1 .. n
  BY PqFields
<1>2. Inside(a, n) /\ Heaped(a, n) /\ Holds(a, n, contents) /\ Descending(contents)
  BY <1>1 DEF PqInv
<1> HIDE DEF a
<1>3. PICK p \in [1 .. n -> 0 .. n - 1] : Places(p, n) /\ \A k \in 1 .. n : contents[k] = a[p[k]]
  BY <1>2 DEF Holds
<1>4. PICK k \in 1 .. n : p[k] = 0
  BY <1>1, <1>3 DEF Places
<1>5. contents[1] >= contents[k]
  BY <1>1, <1>2 DEF Descending
<1>6. contents[k] = a[0] /\ contents[1] = a[p[1]] /\ p[1] \in 0 .. n - 1
  BY <1>1, <1>3, <1>4
<1>7. a[0] >= a[p[1]]
  BY <1>2, <1>6, RootIs
<1>8. a[0] \in Int /\ a[p[1]] \in Int
  BY <1>1, <1>2, <1>6 DEF Inside, Cont!ContainerAssumption
<1>9. PICK x \in Int, y \in Int : x = a[0] /\ y = contents[1] /\ x >= y /\ y >= x
  BY <1>5, <1>6, <1>7, <1>8
<1> QED
  BY <1>9 DEF a

(* pq_pop(): the root leaves and the last sinks from its place. *)
LEMMA PqPop ==
    ASSUME Cont!ContainerAssumption, PqInv, Answers, container = "priority_queue", Cont!Pop
    PROVE  PqInv' /\ Answers'
<1> DEFINE n == c.iput - 1
           less == [c EXCEPT !.arr = Cont!Sink(Cont!Swap(@, 0, n), 0, n), !.iput = n]
           half == c.nmem \div 2
<1>1. /\ contents = <<>> => c' = c /\ ret' = Failed /\ should' = Failed /\ contents' = contents
      /\ contents # <<>> =>
             /\ c' = IF n < half /\ c.nmem > LowWater THEN Cont!Resize(less, half) ELSE less
             /\ ret' = c.arr[0] /\ should' = Head(contents) /\ contents' = Tail(contents)
  <2>1. Cont!Call(Cont!PqPop(c, LowWater))
    BY DEF Cont!Pop, Cont!PopFrom
  <2>2. Cont!PqPop(c, LowWater) =
            IF c.iput = 0 THEN Cont!Done(c, Failed)
            ELSE Cont!Done(IF n < half /\ c.nmem > LowWater THEN Cont!Resize(less, half) ELSE less, c.arr[0])
    BY DEF Cont!PqPop
  <2> HIDE DEF less, half, n
  <2>3. contents = <<>> <=> c.iput = 0
    BY PqFields
  <2> QED
    BY <2>1, <2>2, <2>3 DEF Cont!Pop, Cont!Call, Cont!Done
<1>2. CASE contents = <<>>
  <2>1. c' = c /\ ret' = Failed /\ should' = Failed /\ contents' = contents
    BY <1>1, <1>2
  <2> QED
    BY <2>1 DEF PqInv, Answers, Inside, Heaped, Holds, Places, Descending, Arrays, Up
<1>3. CASE contents # <<>>
  <2>1. PICK N \in Nat : N = n /\ c.iput = N + 1 /\ Len(contents) = N + 1 /\ N + 1 <= c.nmem
    BY <1>3, PqFields
  <2>2. /\ contents' \in Seq(Values) /\ Len(contents') = N
        /\ Head(contents) = contents[1] /\ \A k \in 1 .. N : contents'[k] = contents[k + 1]
    BY <1>1, <1>3, <2>1, TailOfValues DEF Answers
  <2>0. PICK M \in Nat \ {0} : M = c.nmem
    BY PqFields
  <2>3. PICK a \in [0 .. M - 1 -> Cont!Elements] : M = c.nmem /\ a = c.arr
    BY <2>0, PqFields
  <2>4. Inside(a, N + 1) /\ Heaped(a, N + 1) /\ Holds(a, N + 1, contents)
    BY <2>1, <2>3 DEF PqInv
  <2>5. /\ N + 1 \in Nat /\ 0 \in 0 .. (N + 1) - 1 /\ 0 \in 0 .. M - 1 /\ N \in 0 .. M - 1 /\ N \in 0 .. M
        /\ 1 \in 1 .. N + 1 /\ 0 \in 0 .. N
    BY <2>1, <2>3
  <2>6. contents[1] = a[0]
    BY <1>3, <2>3, PqFirst
  <2>7. PICK b : b = Cont!Swap(a, 0, N)
    OBVIOUS
  <2>8. /\ b \in [0 .. M - 1 -> Cont!Elements] /\ b[0] = a[N] /\ b[N] = a[0]
        /\ \A k \in 0 .. M - 1 : k # 0 /\ k # N => b[k] = a[k]
    BY <2>3, <2>5, <2>7, SwapPlaces
  <2>9. \A k \in 1 .. N - 1 : b[k] = a[k]
    <3>1. \A k \in 1 .. N - 1 : k \in 0 .. M - 1 /\ k # 0 /\ k # N
      BY <2>1, <2>3
    <3> QED
      BY <2>8, <3>1
  <2>10. Inside(b, N)
    <3>1. ASSUME NEW k \in 0 .. N - 1 PROVE b[k] \in Values
      <4>1. a[N] \in Values /\ a[k] \in Values
        BY <2>4 DEF Inside
      <4>2. k = 0 \/ k \in 1 .. N - 1
        OBVIOUS
      <4> QED
        BY <2>8, <2>9, <4>1, <4>2
    <3> QED
      BY <3>1 DEF Inside
  <2>11. Holds(b, N, contents')
    BY <2>2, <2>4, <2>6, <2>8, <2>9, HoldsLess
  <2>12. Sinking(b, N, 0)
    <3>1. ASSUME NEW k \in 1 .. N - 1, Up(k) # 0 PROVE b[Up(k)] >= b[k]
      <4>1. Up(k) \in 1 .. N - 1 /\ k \in 1 .. (N + 1) - 1
        BY <3>1, UpIs
      <4>2. a[Up(k)] >= a[k]
        BY <2>4, <4>1 DEF Heaped
      <4> QED
        BY <2>9, <4>1, <4>2
    <3> QED
      BY <3>1 DEF Sinking
  <2>13. PICK d : d = Cont!Sink(b, 0, N)
    OBVIOUS
  <2>14. HeapMade(d, M, N, contents')
    BY <2>3, <2>5, <2>8, <2>10, <2>11, <2>12, <2>13, SinkIs
  <2>15. less = [arr |-> d, iput |-> N, nmem |-> M]
    <3>1. less = [c EXCEPT !.arr = d, !.iput = N]
      BY <2>1, <2>3, <2>7, <2>13
    <3>2. c = [arr |-> a, iput |-> N + 1, nmem |-> M]
      BY <2>1, <2>3, PqFields
    <3> HIDE DEF less
    <3> QED
      BY <3>1, <3>2
  <2> HIDE DEF less
  <2>16. PICK m, e :
             /\ m \in Nat \ {0} /\ e \in [0 .. m - 1 -> Cont!Elements] /\ N <= m
             /\ c' = [arr |-> e, iput |-> N, nmem |-> m] /\ \A k \in 0 .. N - 1 : e[k] = d[k]
    <3>1. CASE n < half /\ c.nmem > LowWater
      <4>1. half \in Nat \ {0} /\ N < half /\ half <= M
        <5>1. half \in Nat /\ half <= M
          BY <2>3
        <5> HIDE DEF half
        <5> QED
          BY <2>1, <3>1, <5>1
      <4> HIDE DEF half
      <4> DEFINE r == Cont!Resize(less, half)
      <4>2. less.arr = d /\ less.iput = N /\ less.nmem = M /\ d \in [0 .. M - 1 -> Cont!Elements]
            /\ less = [arr |-> less.arr, iput |-> less.iput, nmem |-> less.nmem]
        BY <2>14, <2>15 DEF HeapMade
      <4>3. /\ r.arr \in [0 .. half - 1 -> Cont!Elements] /\ r.iput = less.iput /\ r.nmem = half
            /\ r = [arr |-> r.arr, iput |-> r.iput, nmem |-> r.nmem]
            /\ \A k \in 0 .. half - 1 : k <= M - 1 => r.arr[k] = less.arr[k]
        BY <2>3, <4>1, <4>2, PqResizeIs
      <4>4. \A k \in 0 .. N - 1 : k \in 0 .. half - 1 /\ k <= M - 1
        BY <2>3, <4>1
      <4>5. c' = r
        BY <1>1, <1>3, <3>1
      <4> HIDE DEF r
      <4>6. \A k \in 0 .. N - 1 : r.arr[k] = d[k]
        BY <4>2, <4>3, <4>4
      <4>7. r = [arr |-> r.arr, iput |-> N, nmem |-> half]
        BY <4>2, <4>3
      <4>8. N <= half
        BY <4>1
      <4> QED
        BY <4>1, <4>3, <4>5, <4>6, <4>7, <4>8
    <3>2. CASE ~(n < half /\ c.nmem > LowWater)
      <4>1. c' = less
        BY <1>1, <1>3, <3>2
      <4>2. N <= M /\ d \in [0 .. M - 1 -> Cont!Elements]
        BY <2>1, <2>3, <2>14 DEF HeapMade
      <4> QED
        BY <2>3, <2>15, <4>1, <4>2
    <3> QED
      BY <3>1, <3>2
  <2>17. Inside(e, N) /\ Heaped(e, N) /\ Holds(e, N, contents')
    BY <2>14, <2>16, SameBelow DEF HeapMade
  <2>18. c'.arr = e /\ c'.iput = N /\ c'.nmem = m
    BY <2>16
  <2>25. Inside(c'.arr, c'.iput) /\ Heaped(c'.arr, c'.iput) /\ Holds(c'.arr, c'.iput, contents')
    BY <2>17, <2>18
  <2>19. Inside(c.arr, c.iput)' /\ Heaped(c.arr, c.iput)'
    BY <2>25 DEF Inside, Heaped, Up
  <2>20. Holds(c.arr, c.iput, contents)'
    BY <2>25 DEF Holds, Places
  <2>21. Descending(contents)'
    <3>1. ASSUME NEW k \in 1 .. N, NEW j \in 1 .. N, k <= j PROVE contents'[k] >= contents'[j]
      <4>1. k + 1 \in 1 .. N + 1 /\ j + 1 \in 1 .. N + 1 /\ k + 1 <= j + 1
        BY <3>1
      <4>2. contents[k + 1] >= contents[j + 1]
        BY <2>1, <4>1 DEF PqInv, Descending
      <4> QED
        BY <2>2, <4>2
    <3> QED
      BY <2>2, <3>1 DEF Descending
  <2>22. c'.iput = Len(contents') /\ c'.iput <= c'.nmem /\ DOMAIN c'.arr = 0 .. c'.nmem - 1
    BY <2>2, <2>16, <2>18
  <2>23. (c \in [arr : Arrays, iput : Nat, nmem : Nat \ {0}])'
    <3>1. e \in Arrays
      BY <2>16 DEF Arrays
    <3> QED
      BY <2>16, <3>1 DEF Arrays
  <2>24. PqInv'
    BY <2>19, <2>20, <2>21, <2>22, <2>23 DEF PqInv
  <2> QED
    BY <1>1, <1>3, <2>2, <2>3, <2>6, <2>24 DEF Answers
<1> QED
  BY <1>2, <1>3

(* The top of the heap is the first to leave. *)
LEMMA PqTopIs ==
    ASSUME Cont!ContainerAssumption, PqInv, Answers
    PROVE  Cont!PqTop(c) = IF contents = <<>> THEN Failed ELSE Head(contents)
<1>1. CASE contents = <<>>
  BY <1>1, PqFields DEF Cont!PqTop
<1>2. CASE contents # <<>>
  <2>1. Head(contents) = contents[1] /\ c.iput # 0
    BY <1>2, TailOfValues, PqFields DEF Answers
  <2> QED
    BY <1>2, <2>1, PqFirst DEF Cont!PqTop
<1> QED
  BY <1>1, <1>2

-----------------------------------------------------------------------------
(* Whichever container it is, it answers and holds what it should. *)
ContInv ==
    /\ Answers
    /\ \/ container = "array_queue" /\ RingInv
       \/ container = "list_queue" /\ ListInv
       \/ container = "array_stack" /\ StackInv
       \/ container = "priority_queue" /\ PqInv

(* A container starts empty. *)
LEMMA ContInit == Cont!ContainerAssumption /\ Cont!Init => ContInv
<1> SUFFICES ASSUME Cont!ContainerAssumption, Cont!Init PROVE ContInv
  OBVIOUS
<1>1. Answers /\ contents = <<>> /\ Len(contents) = 0 /\ Garbage \in Cont!Elements
  <2>1. contents = <<>> /\ ret = should
    BY DEF Cont!Init
  <2> QED
    BY <2>1, EmptySeq DEF Answers, Cont!Elements
<1>2. PICK n \in Nat \ {0} : n = InitialSize
  BY DEF Cont!ContainerAssumption
<1>3. CASE container = "array_queue" /\ c = Cont!ArrqCreate(InitialSize)
  <2>1. /\ c = [arr |-> [k \in 0 .. n |-> Garbage], iput |-> 0, iget |-> 0, nmem |-> n + 1]
        /\ 0 \in 0 .. n
    BY <1>2, <1>3 DEF Cont!ArrqCreate
  <2>2. c \in [arr : [0 .. n -> Cont!Elements], iput : 0 .. n, iget : 0 .. n, nmem : {n + 1}]
    BY <1>1, <2>1
  <2>3. Cont!ArrqSize(c) = 0
    BY <2>1 DEF Cont!ArrqSize
  <2> QED
    BY <1>1, <1>2, <1>3, <2>2, <2>3 DEF ContInv, RingInv
<1>4. CASE container = "list_queue" /\ \E head \in Nodes : c = Cont!ListqCreate(head)
  <2>1. PICK head \in Nodes : c = Cont!ListqCreate(head)
    BY <1>4
  <2>2. c = [mem |-> [m \in Nodes |-> Cont!NoNode], used |-> {head}, front |-> head, back |-> head, size |-> 0]
    BY <2>1 DEF Cont!ListqCreate
  <2>3. Cont!NoNode \in ListNodes /\ Cont!NoNode.next = Null
    BY <1>1 DEF Cont!NoNode, ListNodes
  <2>4. c \in [mem : [Nodes -> ListNodes], used : SUBSET Nodes, front : Nodes, back : Nodes, size : Nat]
    BY <2>2, <2>3
  <2>5. PICK at \in [0 .. 0 -> Nodes] : at[0] = head
    <3> DEFINE f == [k \in 0 .. 0 |-> head]
    <3>1. f \in [0 .. 0 -> Nodes] /\ f[0] = head
      OBVIOUS
    <3> QED
      BY <3>1
  <2>6. Threaded(at)
    BY <2>2, <2>3, <2>5 DEF Threaded
  <2>7. c.size = 0
    BY <2>2
  <2> QED
    BY <1>1, <1>4, <2>4, <2>5, <2>6, <2>7 DEF ContInv, ListInv
<1>5. CASE container = "array_stack" /\ c = Cont!ArrstackCreate(InitialSize)
  <2>1. PICK a : a = [k \in 0 .. n - 1 |-> Garbage]
    OBVIOUS
  <2>2. c = [arr |-> a, iget |-> -1, iput |-> 0, nmem |-> n]
    BY <1>2, <1>5, <2>1 DEF Cont!ArrstackCreate
  <2>3. a \in Arrays /\ DOMAIN a = 0 .. n - 1
    BY <1>1, <2>1 DEF Arrays
  <2> QED
    BY <1>1, <1>5, <2>2, <2>3 DEF ContInv, StackInv
<1>6. CASE container = "priority_queue" /\ c = Cont!PqCreate(InitialSize)
  <2>1. PICK a : a = [k \in 0 .. n - 1 |-> Garbage]
    OBVIOUS
  <2>2. c = [arr |-> a, iput |-> 0, nmem |-> n]
    BY <1>2, <1>6, <2>1 DEF Cont!PqCreate
  <2>3. a \in Arrays /\ DOMAIN a = 0 .. n - 1
    BY <1>1, <2>1 DEF Arrays
  <2>4. Inside(a, 0) /\ Heaped(a, 0) /\ Descending(contents)
    BY <1>1 DEF Inside, Heaped, Descending
  <2>5. Holds(a, 0, contents)
    <3> DEFINE p == [k \in 1 .. 0 |-> 0]
    <3>1. p \in [1 .. 0 -> 0 .. 0 - 1]
      OBVIOUS
    <3>2. Places(p, 0)
      BY <3>1 DEF Places
    <3>3. \A k \in 1 .. 0 : contents[k] = a[p[k]]
      OBVIOUS
    <3> HIDE DEF p
    <3> QED
      BY <3>1, <3>2, <3>3 DEF Holds
  <2> QED
    BY <1>1, <1>6, <2>2, <2>3, <2>4, <2>5 DEF ContInv, PqInv
<1> QED
  BY <1>3, <1>4, <1>5, <1>6 DEF Cont!Init

(* The invariant of the queue is about these two variables. *)
LEMMA PqSame ==
    ASSUME PqInv, c' = c, contents' = contents
    PROVE  PqInv'
<1>1. /\ c' \in [arr : Arrays, iput : Nat, nmem : Nat \ {0}]
      /\ DOMAIN c'.arr = 0 .. c'.nmem - 1
      /\ c'.iput = Len(contents') /\ c'.iput <= c'.nmem
  BY DEF PqInv
<1>2. Arrays' = Arrays
  BY DEF Arrays
<1>3. Inside(c.arr, c.iput)' /\ Heaped(c.arr, c.iput)'
  BY DEF PqInv, Inside, Heaped, Up
<1>4. Descending(contents)'
  BY DEF PqInv, Descending
<1>5. Holds(c.arr, c.iput, contents)'
  BY DEF PqInv, Holds, Places
<1> QED
  BY <1>1, <1>2, <1>3, <1>4, <1>5 DEF PqInv

(* Looking changes nothing. *)
LEMMA PeekStep ==
    ASSUME Cont!ContainerAssumption, ContInv, Cont!Peek
    PROVE  ContInv'
<1>1. /\ c' = c /\ contents' = contents /\ container' = container
      /\ container \in {"array_stack", "priority_queue"}
  BY DEF Cont!Peek
<1>2. should' = IF contents = <<>> THEN Failed ELSE Head(contents)
  BY DEF Cont!Peek
<1>3. contents \in Seq(Values)
  BY DEF ContInv, Answers
<1>4. CASE container = "array_stack"
  <2>1. StackInv /\ Answers
    BY <1>4 DEF ContInv
  <2>2. StackInv'
    BY <1>1, <2>1 DEF StackInv, Arrays
  <2>3. ret' = Cont!ArrstackTop(c)
    BY <1>4 DEF Cont!Peek
  <2>4. Answers'
    BY <1>1, <1>2, <1>3, <2>1, <2>3, StackTop DEF Answers
  <2> QED
    BY <1>1, <1>4, <2>2, <2>4 DEF ContInv
<1>5. CASE container = "priority_queue"
  <2>1. PqInv /\ Answers
    BY <1>5 DEF ContInv
  <2>2. PqInv'
    BY <1>1, <2>1, PqSame
  <2>3. ret' = Cont!PqTop(c)
    BY <1>5 DEF Cont!Peek
  <2>4. Answers'
    BY <1>1, <1>2, <1>3, <2>1, <2>3, PqTopIs DEF Answers
  <2> QED
    BY <1>1, <1>5, <2>2, <2>4 DEF ContInv
<1> QED
  BY <1>1, <1>4, <1>5

(* Every call of every container. *)
LEMMA ContKeeps == Cont!ContainerAssumption /\ ContInv /\ [Cont!Next]_use => ContInv'
<1> SUFFICES ASSUME Cont!ContainerAssumption, ContInv, [Cont!Next]_use PROVE ContInv'
  OBVIOUS
<1>1. ASSUME NEW v \in Values, Cont!Push(v) PROVE ContInv'
  <2>1. container' = container
    BY <1>1 DEF Cont!Push, Cont!PushTo, Cont!Call
  <2>2. \/ container = "array_queue" /\ RingInv' /\ Answers'
        \/ container = "list_queue" /\ ListInv' /\ Answers'
        \/ container = "array_stack" /\ StackInv' /\ Answers'
        \/ container = "priority_queue" /\ PqInv' /\ Answers'
    BY <1>1, RingPush, ListPush, StackPush, PqPush DEF ContInv
  <2> QED
    BY <2>1, <2>2 DEF ContInv
<1>2. ASSUME NEW v \in Values, Cont!OutOfMemory(v) PROVE ContInv'
  <2>1. container = "list_queue" /\ container' = container
    BY <1>2 DEF Cont!OutOfMemory, Cont!Call
  <2>2. ListInv' /\ Answers'
    BY <1>2, <2>1, ListOutOfMemory DEF ContInv
  <2> QED
    BY <2>1, <2>2 DEF ContInv
<1>3. ASSUME Cont!Pop PROVE ContInv'
  <2>1. container' = container
    BY <1>3 DEF Cont!Pop, Cont!PopFrom, Cont!Call
  <2>2. \/ container = "array_queue" /\ RingInv' /\ Answers'
        \/ container = "list_queue" /\ ListInv' /\ Answers'
        \/ container = "array_stack" /\ StackInv' /\ Answers'
        \/ container = "priority_queue" /\ PqInv' /\ Answers'
    BY <1>3, RingPop, ListPop, StackPop, PqPop DEF ContInv
  <2> QED
    BY <2>1, <2>2 DEF ContInv
<1>4. CASE UNCHANGED use
  <2>1. c' = c /\ contents' = contents /\ container' = container /\ ret' = ret /\ should' = should
    BY <1>4 DEF use
  <2>2. Answers => Answers'
    BY <2>1 DEF Answers
  <2>3. RingInv => RingInv'
    BY <2>1 DEF RingInv, RingAt, Cont!ArrqSize
  <2>4. ListInv => ListInv'
    BY <2>1 DEF ListInv, Threaded, ListNodes
  <2>5. StackInv => StackInv'
    BY <2>1 DEF StackInv, Arrays
  <2>6. PqInv => PqInv'
    BY <2>1, PqSame
  <2> QED
    BY <2>1, <2>2, <2>3, <2>4, <2>5, <2>6 DEF ContInv
<1> QED
  BY <1>1, <1>2, <1>3, <1>4, PeekStep DEF Cont!Next

(* What the invariant is for. *)
LEMMA ContInvShows == Cont!ContainerAssumption /\ ContInv => Cont!ContainersAgree
<1> SUFFICES ASSUME Cont!ContainerAssumption, ContInv PROVE Cont!ContainersAgree
  OBVIOUS
<1>0. Answers /\ ret = should
  BY DEF ContInv, Answers
<1>1. CASE container = "array_queue" /\ RingInv
  BY <1>0, <1>1, RingShows DEF Cont!ContainersAgree
<1>2. CASE container = "list_queue" /\ ListInv
  <2>1. Cont!Cardinality(c.used) = Cardinality(c.used)
    BY ContCardinality
  <2> QED
    BY <1>0, <1>2, <2>1, ListShows DEF Cont!ContainersAgree
<1>3. CASE container = "array_stack" /\ StackInv
  BY <1>0, <1>3 DEF Cont!ContainersAgree, StackInv
<1>4. CASE container = "priority_queue" /\ PqInv
  BY <1>0, <1>4 DEF Cont!ContainersAgree, PqInv
<1> QED
  BY <1>1, <1>2, <1>3, <1>4 DEF ContInv

-----------------------------------------------------------------------------
(* The composition *)

ProgramsInv == PollInv /\ EchoInv /\ DgInv /\ ContInv

(* Every behaviour begins with the programs in their initial states. *)
LEMMA ProgramsInit == Init => ProgramsInv
BY ProgramsAssumption, PollInit, EchoInit, DgInit, ContInit DEF Init, ProgramsInv

(* A step of one program leaves the others' variables as they are. *)
LEMMA ProgramsStep == ProgramsInv /\ [Next]_allvars => ProgramsInv'
<1> SUFFICES ASSUME ProgramsInv, [Next]_allvars PROVE ProgramsInv'
  OBVIOUS
<1>1. [Chat!Next]_chat
  BY DEF Next, EchoStep, DgStep, allvars
<1>2. [Echo!Next]_echo
  BY DEF Next, EchoStep, DgStep, allvars
<1>3. PollInv'
  BY <1>1, ProgramsAssumption, PollStep DEF ProgramsInv
<1>4. EchoInv'
  BY <1>2, ProgramsAssumption, EchoKeeps DEF ProgramsInv
<1>5. [Dg!Next]_dg
  BY DEF Next, EchoStep, DgStep, allvars
<1>6. DgInv'
  BY <1>5, DgKeeps DEF ProgramsInv
<1>7. [Cont!Next]_use
  BY DEF Next, EchoStep, DgStep, allvars
<1>8. ContInv'
  BY <1>7, ProgramsAssumption, ContKeeps DEF ProgramsInv
<1> QED
  BY <1>3, <1>4, <1>6, <1>8 DEF ProgramsInv

(* What the four invariants are for. *)
LEMMA ProgramsInvShows ==
    ProgramsInv => EntriesAgree /\ OutputIsEcho /\ ErrorMeansKilled /\ AnswersInStep /\ ContainersAgree
BY ProgramsAssumption, PollInvAgrees, EchoInvShows, DgInvShows, ContInvShows
   DEF ProgramsInv, EntriesAgree, OutputIsEcho, ErrorMeansKilled, AnswersInStep, ContainersAgree

(* The chat room's server (chatroom_srv.c:84-121): each open descriptor has *)
(* one entry of poll, which waits for input or for room to write what there *)
(* is, whoever left in whatever order.                                     *)
THEOREM EntriesAgreeHolds == Spec => []EntriesAgree
BY ProgramsInit, ProgramsStep, ProgramsInvShows, PTL DEF Spec

(* The TCP echo clients (str_cli*.c, str_cli_nblk.c): what is shown is what *)
(* was typed, in order, with nothing missing; all of it, when a client ends *)
(* by itself and the server was not killed.                                *)
THEOREM OutputIsEchoHolds == Spec => []OutputIsEcho
BY ProgramsInit, ProgramsStep, ProgramsInvShows, PTL DEF Spec

(* And a client says that its server terminated prematurely only when it   *)
(* was killed.                                                             *)
THEOREM ErrorMeansKilledHolds == Spec => []ErrorMeansKilled
BY ProgramsInit, ProgramsStep, ProgramsInvShows, PTL DEF Spec

(* The datagram clients (dg_cli.c), for any number of lines and of         *)
(* datagrams from strangers: whatever is lost, refused or late, no answer  *)
(* is shown twice or before an earlier one, an answer is late by no more   *)
(* lines than were given up or answered by a stranger, and dg_cli1() and   *)
(* dg_cli2() show nothing that a stranger sent.                            *)
THEOREM AnswersInStepHolds == Spec => []AnswersInStep
BY ProgramsInit, ProgramsStep, ProgramsInvShows, PTL DEF Spec

(* The containers (array_queue.c, list_queue.c, array_stack.c,             *)
(* priority_queue.c), for values, sizes and sequences of calls without a *)
(* bound: each call returns what the sequence beside the container says,   *)
(* the queues hold that sequence wherever the ring's indices are, the      *)
(* sizes are right, no index leaves the array however often it grew and    *)
(* shrank, and the list keeps exactly the nodes it needs.                  *)
THEOREM ContainersAgreeHolds == Spec => []ContainersAgree
BY ProgramsInit, ProgramsStep, ProgramsInvShows, PTL DEF Spec
=============================================================================
