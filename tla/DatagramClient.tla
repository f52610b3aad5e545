--------------------------- MODULE DatagramClient ---------------------------
(***************************************************************************)
(* The datagram clients (dg_cli.c), one of them per behaviour, with the    *)
(* server that answers each datagram (dg_echo.c).  The network loses and   *)
(* delays datagrams and keeps their order; a stranger may send some to the *)
(* client's port.  The n-th line and its answer are the number n, what the *)
(* stranger sends is 0; that the server answers in upper case is left out. *)
(***************************************************************************)
EXTENDS Naturals, Sequences, SequencesExt

CONSTANTS
    Lines,      \* bound: lines of input
    MaxStray    \* bound: datagrams from the stranger

DatagramAssumption == Lines \in Nat /\ MaxStray \in Nat

Kinds == {"dg_cli", "dg_clit0", "dg_clit1", "dg_clit2", "dg_cli1", "dg_cli2"}

VARIABLES
    kind,
    in, out,            \* lines read; what was shown
    toServer, toClient, \* on their way there and back; in the client's socket
    client,             \* where it is
    alarm,              \* is SIGALRM to come?
    refused,            \* an error that waits at a connected socket
    strays, slips       \* history: datagrams from the stranger; lines that were
                        \* given up, or answered by the stranger

net == <<toServer, toClient, refused, strays>>
vars == <<kind, in, out, net, client, alarm, slips>>

-----------------------------------------------------------------------------
(* The server, the network and the stranger *)
Answer ==
    /\ toServer # <<>>
    /\ toClient' = Append(toClient, Head(toServer)) /\ toServer' = Tail(toServer)
    /\ UNCHANGED <<kind, in, out, refused, strays, client, alarm, slips>>

Lose ==
    /\ \E k \in DOMAIN toServer : toServer' = RemoveAt(toServer, k)
    /\ UNCHANGED <<kind, in, out, toClient, refused, strays, client, alarm, slips>>

(* There is no server: only a connected socket hears of it *)
Unreachable ==
    /\ toServer # <<>>
    /\ toServer' = Tail(toServer)
    /\ refused' = (kind = "dg_cli2")
    /\ UNCHANGED <<kind, in, out, toClient, strays, client, alarm, slips>>

(* The first sendto() gives the client its port; a connected socket takes  *)
(* datagrams from the server only                                          *)
Stray ==
    /\ strays < MaxStray /\ kind # "dg_cli2" /\ in > 0 /\ ~(in = 1 /\ client = "send")
    /\ strays' = strays + 1
    /\ toClient' = Append(toClient, 0)
    /\ UNCHANGED <<kind, in, out, toServer, refused, client, alarm, slips>>

-----------------------------------------------------------------------------
(* What the clients have in common *)
Goto(from, to) == client = from /\ client' = to

Fgets ==
    /\ IF in < Lines THEN Goto("fgets", "send") /\ in' = in + 1
                     ELSE Goto("fgets", "done") /\ UNCHANGED in
    /\ UNCHANGED <<kind, out, net, alarm, slips>>

Send(next) ==
    /\ Goto("send", next) /\ ~refused
    /\ toServer' = Append(toServer, in)
    /\ UNCHANGED <<kind, in, out, toClient, refused, strays, alarm, slips>>

(* recvfrom() and fputs().  In dg_clit0, where SIGALRM is harmless between *)
(* the two, alarm(0) as well.                                              *)
Recv ==
    /\ Goto("recv", "fgets") /\ toClient # <<>> /\ ~refused
    /\ out' = Append(out, Head(toClient))
    /\ toClient' = Tail(toClient)
    /\ slips' = slips + (IF Head(toClient) = 0 THEN 1 ELSE 0)
    /\ alarm' = FALSE
    /\ UNCHANGED <<kind, in, toServer, refused, strays>>

(* Slip: after a timeout the line is sent again *)
TimeoutResends(from) ==
    /\ Goto(from, "send") /\ toClient = <<>>
    /\ alarm' = FALSE
    /\ UNCHANGED <<kind, in, out, net, slips>>

(* "socket timeout", and on to the next line *)
Timeout(from) ==
    /\ Goto(from, "fgets") /\ toClient = <<>>
    /\ slips' = slips + 1
    /\ alarm' = FALSE
    /\ UNCHANGED <<kind, in, out, net>>

-----------------------------------------------------------------------------
DgCli == kind = "dg_cli" /\ (Fgets \/ Send("recv") \/ Recv)

(* alarm() and recvfrom(): SIGALRM interrupts recvfrom() only if it comes  *)
(* after the client is in there                                            *)
DgClit0 ==
    /\ kind = "dg_clit0"
    /\ \/ Fgets \/ Send("alarm") \/ Recv
       \/ /\ Goto("alarm", "recv")
          /\ alarm' = TRUE
          /\ UNCHANGED <<kind, in, out, net, slips>>
       \/ alarm /\ Timeout("recv")

SigAlrmTooEarly ==
    /\ kind = "dg_clit0" /\ alarm /\ client = "recv"
    /\ alarm' = FALSE
    /\ UNCHANGED <<kind, in, out, net, client, slips>>

(* readable_timeo(), that is, select(), before recvfrom() *)
DgClit1 ==
    /\ kind = "dg_clit1"
    /\ \/ Fgets \/ Send("select") \/ Recv
       \/ /\ Goto("select", "recv") /\ toClient # <<>>
          /\ UNCHANGED <<kind, in, out, net, alarm, slips>>
       \/ Timeout("select")

(* SO_RCVTIMEO *)
DgClit2 == kind = "dg_clit2" /\ (Fgets \/ Send("recv") \/ Recv \/ Timeout("recv"))

(* A datagram from another address is ignored, and so is the answer: the   *)
(* next line is read                                                       *)
DgCli1 ==
    /\ kind = "dg_cli1"
    /\ \/ Fgets \/ Send("recv")
       \/ Recv /\ Head(toClient) # 0
       \/ /\ Goto("recv", "fgets") /\ toClient # <<>> /\ Head(toClient) = 0
          /\ toClient' = Tail(toClient)
          /\ slips' = slips + 1
          /\ UNCHANGED <<kind, in, out, toServer, refused, strays, alarm>>

(* A connected socket: the next call reports that the server is not there  *)
DgCli2 ==
    /\ kind = "dg_cli2"
    /\ \/ Fgets \/ Send("recv") \/ Recv
       \/ /\ client \in {"send", "recv"} /\ refused
          /\ client' = "error"
          /\ UNCHANGED <<kind, in, out, net, alarm, slips>>

-----------------------------------------------------------------------------
Init ==
    /\ kind \in Kinds
    /\ in = 0 /\ out = <<>> /\ toServer = <<>> /\ toClient = <<>>
    /\ client = "fgets" /\ alarm = FALSE /\ refused = FALSE
    /\ strays = 0 /\ slips = 0

ClientStep == DgCli \/ DgClit0 \/ DgClit1 \/ DgClit2 \/ DgCli1 \/ DgCli2

Next == Answer \/ Lose \/ Unreachable \/ Stray \/ ClientStep \/ SigAlrmTooEarly

(* The client runs, and time passes while it waits *)
Spec == Init /\ [][Next]_vars /\ WF_vars(ClientStep)

-----------------------------------------------------------------------------
(* However many answers are lost or late, none is shown twice or before an *)
(* earlier one, and an answer is late by no more lines than were given up; *)
(* dg_cli1() and dg_cli2() show nothing a stranger sent.                   *)
AnswersInStep ==
    /\ \A j, k \in DOMAIN out : j < k /\ out[j] # 0 /\ out[k] # 0 => out[j] < out[k]
    /\ \A k \in DOMAIN out : out[k] <= in
    /\ client \in {"fgets", "done"} =>
          in <= slips \/ \E k \in DOMAIN out : out[k] # 0 /\ in <= out[k] + slips
    /\ kind \in {"dg_cli1", "dg_cli2"} => \A k \in DOMAIN out : out[k] # 0

(* A client that waits with a timeout comes to the end of its input,       *)
(* whatever the network loses; dg_clit0() only if SIGALRM is not too early.*)
MustEnd == kind \in {"dg_clit1", "dg_clit2"}
Ended == client = "done"
EndsAfterInput == MustEnd ~> Ended
=============================================================================
