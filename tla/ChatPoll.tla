------------------------------ MODULE ChatPoll ------------------------------
(***************************************************************************)
(* The chat room in one process over poll (chatroom_srv.c) and its clients *)
(* (chatroom_cli.c).  A read takes all that has arrived; a message is      *)
(* known by its author.  A broadcast stores, for every other user, a       *)
(* pointer to the sender's buffer and has poll report when it can be       *)
(* written.  Sockets to clients have room: the clients read what comes.    *)
(***************************************************************************)
EXTENDS Naturals, Sequences, FiniteSets

CONSTANTS
    Clients,    \* each connects at most once
    Limit,      \* USER_LIMITS
    MaxMsgs,    \* bound: messages sent by all clients together
    Null        \* NULL

(* Descriptors, those of the users and the next one *)
Descs == 1 .. Limit + 1

(* A null pointer is neither a client nor the place of a buffer *)
ChatAssumption == Limit \in Nat \ {0} /\ Null \notin Clients \union Descs

VARIABLES
    state,      \* what a client has done: "off", "backlog", "on", "closed", "gone"
    unread,     \* messages in its socket
    broken,     \* those whose connection was reset
    sent,       \* history: messages sent
    got,        \* history: the authors of what was written to a client
    who,        \* the client of each open descriptor
    buf,        \* users[fd].buf, as the author of what it holds
    writebuf,   \* users[fd].writebuf, as the descriptor whose buf it points to
    fds,        \* fds[1 .. user_cnt]
    listening,  \* fds[0].revents
    i, pc       \* where the loop is

outside == <<state, unread, broken, sent>>
room == <<got, who, buf, writebuf, fds>>
vars == <<outside, room, listening, i, pc>>

user_cnt == Len(fds)
Owner(f) == who[f]

(* A client program: reads a line and sends it; ends with its input, which *)
(* resets the connection if something from the server is unread            *)
Connect(c) ==
    /\ state[c] = "off"
    /\ state' = [state EXCEPT ![c] = "backlog"]
    /\ UNCHANGED <<unread, broken, sent, room, listening, i, pc>>

Send(c) ==
    /\ state[c] = "on" /\ sent < MaxMsgs
    /\ sent' = sent + 1
    /\ unread' = [unread EXCEPT ![c] = @ + 1]
    /\ UNCHANGED <<state, broken, room, listening, i, pc>>

Quit(c, reset) ==
    /\ state[c] = "on"
    /\ state' = [state EXCEPT ![c] = "closed"]
    /\ broken' = IF reset THEN broken \union {c} ELSE broken
    /\ UNCHANGED <<unread, sent, room, listening, i, pc>>

-----------------------------------------------------------------------------
Backlog == {c \in Clients : state[c] = "backlog"}

(* What poll finds for one entry *)
Polled(e) ==
    LET c == who[e.fd]
    IN  (IF c \in broken THEN {"ERR"} ELSE {})
        \union (IF state[c] = "closed" THEN {"RDHUP"} ELSE {})
        \union (IF unread[c] > 0 THEN {"IN"} \intersect e.events ELSE {})
        \union ({"OUT"} \intersect e.events)

Poll ==
    LET polled == [k \in DOMAIN fds |-> [fds[k] EXCEPT !.revents = Polled(fds[k])]]
    IN  /\ pc = "poll"
        /\ Backlog # {} \/ \E k \in DOMAIN fds : polled[k].revents # {}
        /\ fds' = polled
        /\ listening' = (Backlog # {})
        /\ i' = 0 /\ pc' = "loop"
        /\ UNCHANGED <<outside, got, who, buf, writebuf>>

(* Up to its guard, an iteration of the loop for a user with none of the   *)
(* flags `before' and the flag `flag'                                      *)
At(before, flag) ==
    /\ pc = "loop" /\ i \in DOMAIN fds
    /\ fds[i].revents \intersect before = {} /\ flag \in fds[i].revents

GoOn == i' = i + 1 /\ UNCHANGED <<listening, pc>>

(* accept(), the lowest descriptor free; what users[fd] held is not reset  *)
Accept(c) ==
    LET f == CHOOSE x \in Descs : who[x] = Null /\ \A y \in 1 .. x - 1 : who[y] # Null
    IN  /\ pc = "loop" /\ i = 0 /\ listening /\ c \in Backlog
        /\ IF user_cnt >= Limit
             THEN /\ state' = [state EXCEPT ![c] = "gone"]
                  /\ UNCHANGED <<who, fds>>
             ELSE /\ state' = [state EXCEPT ![c] = "on"]
                  /\ who' = [who EXCEPT ![f] = c]
                  /\ fds' = Append(fds, [fd |-> f, events |-> {"IN"}, revents |-> {}])
        /\ UNCHANGED <<unread, broken, sent, got, buf, writebuf>>
        /\ GoOn

(* An error is fetched, and so cleared; the entry stays *)
Error ==
    /\ At({}, "ERR")
    /\ broken' = broken \ {Owner(fds[i].fd)}
    /\ UNCHANGED <<state, unread, sent, room>>
    /\ GoOn

(* Slip: the count is not reduced for the test of the loop: the moved      *)
(* entry is where the leaving one was, and also where it has been          *)
LeaveKeepsLast ==
    LET f == fds[i].fd
    IN  /\ At({"ERR"}, "RDHUP")
        /\ state' = [state EXCEPT ![who[f]] = "gone"]
        /\ unread' = [unread EXCEPT ![who[f]] = 0]
        /\ who' = [who EXCEPT ![f] = Null]
        /\ fds' = [fds EXCEPT ![i] = fds[user_cnt]]
        /\ UNCHANGED <<broken, sent, got, buf, writebuf, listening, i, pc>>

(* The last user's record is copied into the record of the one that left,  *)
(* and its entry into the entry; the loop stays at the entry.  A message   *)
(* that came with the end is not read.                                     *)
Leave ==
    LET f == fds[i].fd
        last == fds[user_cnt].fd
    IN  /\ At({"ERR"}, "RDHUP")
        /\ state' = [state EXCEPT ![who[f]] = "gone"]
        /\ unread' = [unread EXCEPT ![who[f]] = 0]
        /\ who' = [who EXCEPT ![f] = Null]
        /\ buf' = [buf EXCEPT ![f] = buf[last]]
        /\ writebuf' = [writebuf EXCEPT ![f] = writebuf[last]]
        /\ fds' = SubSeq([fds EXCEPT ![i] = fds[user_cnt]], 1, user_cnt - 1)
        /\ UNCHANGED <<broken, sent, got, listening, i, pc>>

Read ==
    LET f == fds[i].fd
    IN  /\ At({"ERR", "RDHUP"}, "IN")
        /\ unread' = [unread EXCEPT ![who[f]] = 0]
        /\ buf' = [buf EXCEPT ![f] = who[f]]
        /\ fds' = [k \in DOMAIN fds |->
                     IF k = i THEN fds[k]
                     ELSE [fds[k] EXCEPT !.events = (@ \ {"IN"}) \union {"OUT"}]]
        /\ writebuf' = [x \in Descs |-> IF \E k \in DOMAIN fds \ {i} : fds[k].fd = x
                                         THEN f ELSE writebuf[x]]
        /\ UNCHANGED <<state, broken, sent, got, who>>
        /\ GoOn

(* What is written when writebuf points to the buffer of x: nothing, if it *)
(* was never filled                                                        *)
Text(x) == {buf[x]} \ {Null}

(* Slip: POLLIN is not registered again *)
WriteStaysDeaf ==
    LET f == fds[i].fd
    IN  /\ At({"ERR", "RDHUP", "IN"}, "OUT")
        /\ got' = [got EXCEPT ![who[f]] = @ \union (IF writebuf[f] = Null THEN {} ELSE Text(writebuf[f]))]
        /\ writebuf' = [writebuf EXCEPT ![f] = Null]
        /\ fds' = [fds EXCEPT ![i].events = @ \ {"OUT"}]
        /\ UNCHANGED <<outside, who, buf>>
        /\ GoOn

(* Writing to a connection that was reset after poll is fatal *)
Write ==
    LET f == fds[i].fd
    IN  /\ At({"ERR", "RDHUP", "IN"}, "OUT")
        /\ writebuf[f] # Null => Owner(f) \notin broken
        /\ IF writebuf[f] = Null THEN UNCHANGED room
           ELSE /\ got' = [got EXCEPT ![who[f]] = @ \union Text(writebuf[f])]
                /\ writebuf' = [writebuf EXCEPT ![f] = Null]
                /\ fds' = [fds EXCEPT ![i].events = (@ \union {"IN"}) \ {"OUT"}]
                /\ UNCHANGED <<who, buf>>
        /\ UNCHANGED outside
        /\ GoOn

WriteFails ==
    /\ At({"ERR", "RDHUP", "IN"}, "OUT")
    /\ writebuf[fds[i].fd] # Null /\ Owner(fds[i].fd) \in broken
    /\ pc' = "died"
    /\ UNCHANGED <<outside, room, listening, i>>

Nothing ==
    /\ pc = "loop" /\ i <= user_cnt
    /\ IF i = 0 THEN ~listening ELSE fds[i].revents = {}
    /\ UNCHANGED <<outside, room>>
    /\ GoOn

EndOfLoop ==
    /\ pc = "loop" /\ i > user_cnt
    /\ pc' = "poll" /\ i' = 0
    /\ UNCHANGED <<outside, room, listening>>

-----------------------------------------------------------------------------
Init ==
    /\ state = [c \in Clients |-> "off"] /\ unread = [c \in Clients |-> 0]
    /\ broken = {} /\ sent = 0
    /\ got = [c \in Clients |-> {}]
    /\ who = [f \in Descs |-> Null]
    /\ buf = [f \in Descs |-> Null] /\ writebuf = [f \in Descs |-> Null]
    /\ fds = <<>> /\ listening = FALSE /\ i = 0 /\ pc = "poll"

ServerStep ==
    \/ Poll \/ Error \/ Leave \/ Read \/ Write \/ WriteFails \/ Nothing \/ EndOfLoop
    \/ \E c \in Clients : Accept(c)

ClientStep == \E c \in Clients : Connect(c) \/ Send(c) \/ \E r \in BOOLEAN : Quit(c, r)

Next == ServerStep \/ ClientStep

Spec == Init /\ [][Next]_vars

(* poll() returns when it can, and the server goes on from there *)
FairSpec == Spec /\ WF_vars(ServerStep)

-----------------------------------------------------------------------------
(* Whoever left in whatever order, each open descriptor has one entry; an  *)
(* entry waits for input or to write, never both or neither; and what      *)
(* waits to be written is there, or its user would be deaf for good.       *)
EntriesAgree ==
    pc # "died" =>
        /\ {fds[k].fd : k \in DOMAIN fds} = {f \in Descs : who[f] # Null}
        /\ \A k, j \in DOMAIN fds : fds[k].fd = fds[j].fd => k = j
        /\ \A k \in DOMAIN fds :
              \/ fds[k].events = {"IN"}
              \/ fds[k].events = {"OUT"} /\ writebuf[fds[k].fd] # Null

(* A message that arrived is read, though its reader is not listening      *)
(* while it has something to write; unless its sender leaves.              *)
MessagesAreRead ==
    \A c \in Clients : unread[c] > 0 ~> unread[c] = 0 \/ pc = "died"

(* chatroom_srv.c:4-5: messages go to the users other than the sender.     *)
NoEcho == \A c \in Clients : c \notin got[c]
=============================================================================
