----------------------------- MODULE MCPrograms -----------------------------
(* One program per behaviour: the chat room over poll, a TCP echo client   *)
(* of the library with its server, a datagram client with its server, or a *)
(* user of the library's containers.  The variables of the other three     *)
(* keep their initial values.                                              *)
EXTENDS Integers, Sequences, FiniteSets, TLC

CONSTANTS
    Clients, Limit, MaxMsgs,                                    \* the chat room's
    Lines, Cap, MaxLine, MayCrash,                              \* the echo clients'
    Datagrams, MaxStray,                                        \* the datagram clients'
    Values, Nodes, Garbage, Failed, InitialSize, LowWater, MaxSize, \* the containers'
    Null

VARIABLES
    program,
    \* the chat room
    state, unread, broken, sent, got, who, buf, writebuf, fds, listening, i, pc,
    \* the echo clients
    kind, typed, in, out, toSrv, srv, toCli, fin, server, client, reader, line, read_buf,
    rset, wset, stdineof, snd, sndo, sndi, rcv, rcvo, rcvi, iseof,
    \* the datagram clients
    dg_kind, dg_in, dg_out, toServer, toClient, dg_client, alarm, refused, strays, slips,
    \* the containers
    container, c, contents, ret, should

Chat == INSTANCE ChatPoll
Echo == INSTANCE EchoClient
Cont == INSTANCE ContainerUse
Dg == INSTANCE DatagramClient
        WITH Lines <- Datagrams, kind <- dg_kind, in <- dg_in, out <- dg_out, client <- dg_client

ASSUME ProgramsAssumption ==
    Chat!ChatAssumption /\ Echo!ClientAssumption /\ Dg!DatagramAssumption /\ Cont!ContainerAssumption

chat == <<state, unread, broken, sent, got, who, buf, writebuf, fds, listening, i, pc>>
echo == <<kind, typed, in, out, toSrv, srv, toCli, fin, server, client, reader, line, read_buf,
          rset, wset, stdineof, snd, sndo, sndi, rcv, rcvo, rcvi, iseof>>
dg == <<dg_kind, dg_in, dg_out, toServer, toClient, dg_client, alarm, refused, strays, slips>>
use == <<container, c, contents, ret, should>>
allvars == <<program, chat, echo, dg, use>>

Init ==
    /\ program \in {"chat", "echo", "datagrams", "containers"}
    /\ Chat!Init /\ Echo!Init /\ Dg!Init /\ Cont!Init
    /\ program # "echo" => kind = "str_cli"
    /\ program # "datagrams" => dg_kind = "dg_cli"
    /\ program # "containers" => container = "array_queue"

ChatServerStep == program = "chat" /\ Chat!ServerStep /\ UNCHANGED <<program, echo, dg, use>>
EchoStep(A) == program = "echo" /\ A /\ UNCHANGED <<program, chat, dg, use>>
DgStep(A) == program = "datagrams" /\ A /\ UNCHANGED <<program, chat, echo, use>>
EchoReader == EchoStep(Echo!Reader)
EchoSrvStep == EchoStep(Echo!SrvStep)
MainStep == ChatServerStep \/ EchoStep(Echo!ClientStep) \/ DgStep(Dg!ClientStep)

Next ==
    \/ program = "chat" /\ Chat!Next /\ UNCHANGED <<program, echo, dg, use>>
    \/ EchoStep(Echo!Next)
    \/ DgStep(Dg!Next)
    \/ program = "containers" /\ Cont!Next /\ UNCHANGED <<program, chat, echo, dg>>

(* The fairness of ChatPoll.tla, EchoClient.tla and DatagramClient.tla: a  *)
(* behaviour has one of the three main processes                           *)
Spec ==
    /\ Init /\ [][Next]_allvars
    /\ WF_allvars(MainStep) /\ WF_allvars(EchoReader) /\ WF_allvars(EchoSrvStep)

-----------------------------------------------------------------------------
(* chatroom_srv.c:84-121: the entries of poll agree with the open          *)
(* descriptors, whoever leaves in whatever order; none is deaf for good.   *)
EntriesAgree == Chat!EntriesAgree

(* chatroom_srv.c:92-109: a message that arrived is read, unless its       *)
(* sender leaves.                                                          *)
MessagesAreRead == Chat!MessagesAreRead

(* chatroom_srv.c:4-5: a message goes to the users other than its sender.  *)
NoEcho == Chat!NoEcho

(* The echo clients: what is shown is what was typed, in order.            *)
OutputIsEcho == Echo!OutputIsEcho

(* Only a killed server is reported as one.                                *)
ErrorMeansKilled == Echo!ErrorMeansKilled

(* str_cli.c:30-33: the end of the server is noticed though nobody types.  *)
NoticesKill == Echo!NoticesKill

(* After the input's end a client ends, whatever the kernel's buffers hold *)
(* (TCP), or whatever the network loses, if it waits with a timeout (UDP). *)
EndsAfterInput ==
    (program = "echo" /\ Echo!MustEnd) \/ (program = "datagrams" /\ Dg!MustEnd)
        ~> Echo!Ended \/ Dg!Ended

(* dg_cli.c: answers are shown in order, none twice, and late by no more   *)
(* lines than were given up.                                               *)
AnswersInStep == Dg!AnswersInStep

(* The containers answer as the sequence beside them says, and their       *)
(* sizes, links and memory agree with it.                                  *)
ContainersAgree == Cont!ContainersAgree
=============================================================================
