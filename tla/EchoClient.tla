----------------------------- MODULE EchoClient -----------------------------
(***************************************************************************)
(* The TCP echo clients, one of them per behaviour, with the server that   *)
(* echoes line by line (str_echo.c): str_cli and str_cli1, which go from   *)
(* line to line, str_cli3 with select, str_cli_nblk with buffers of its    *)
(* own, str_clip with a second process and str_clit with a second thread.  *)
(* The n-th line is the number n; a socket's buffers hold Cap lines each   *)
(* way.  The server may be killed while it runs.                           *)
(***************************************************************************)
EXTENDS Naturals, Sequences

CONSTANTS
    Lines,      \* bound: lines the user types before ^D
    Cap,        \* what the kernel holds of one direction of the connection
    MaxLine,    \* MAXLINE: a buffer, in lines
    MayCrash    \* whether the server may be killed

ClientAssumption == {Lines, Cap, MaxLine} \subseteq Nat \ {0} /\ MayCrash \in BOOLEAN

Kinds == {"str_cli", "str_cli1", "str_cli3", "nblk", "clip", "clit"}
Two == {"clip", "clit"}

VARIABLES
    kind,
    typed, in,  \* lines typed, Lines + 1 with ^D; lines read from stdin
    out,        \* what stdout got
    toSrv, srv, toCli, \* in the socket, in the server, and on the way back
    fin,        \* the client's shutdown()
    server,     \* "up", "closed", "killed"
    client, reader, \* the client; the one of two that reads the socket
    line,       \* lines read from stdin and not written yet
    read_buf,   \* of readline()
    rset, wset, stdineof,
    snd, sndo, sndi, rcv, rcvo, rcvi, \* str_cli_nblk: buffers and pointers into them
    iseof

world == <<typed, toSrv, srv, toCli, server>>
nblk == <<wset, snd, sndo, sndi, rcv, rcvo, rcvi>>
sel == <<rset, stdineof>>
two == <<reader, iseof>>
vars == <<kind, world, in, out, fin, client, line, read_buf, sel, nblk, two>>

InSeq(a, b) == [k \in 1 .. b - a + 1 |-> a + k - 1]
Ended == client \in {"done", "error"}
Least(a, b) == IF a < b THEN a ELSE b

-----------------------------------------------------------------------------
(* The user, and the server: str_echo() *)
Type ==
    /\ ~Ended /\ typed <= Lines
    /\ typed' = typed + 1
    /\ UNCHANGED <<kind, toSrv, srv, toCli, server, in, out, fin, client, line, read_buf, sel, nblk, two>>

SrvRead ==
    /\ server = "up" /\ srv = <<>> /\ toSrv # <<>>
    /\ srv' = <<Head(toSrv)>>
    /\ toSrv' = Tail(toSrv)
    /\ UNCHANGED <<kind, typed, toCli, server, in, out, fin, client, line, read_buf, sel, nblk, two>>

SrvWrite ==
    /\ server = "up" /\ srv # <<>> /\ Len(toCli) < Cap
    /\ toCli' = Append(toCli, Head(srv))
    /\ srv' = <<>>
    /\ UNCHANGED <<kind, typed, toSrv, server, in, out, fin, client, line, read_buf, sel, nblk, two>>

SrvEnd ==
    /\ server = "up" /\ srv = <<>> /\ toSrv = <<>> /\ fin
    /\ server' = "closed"
    /\ UNCHANGED <<kind, typed, toSrv, srv, toCli, in, out, fin, client, line, read_buf, sel, nblk, two>>

Killed ==
    /\ MayCrash /\ server = "up" /\ ~Ended
    /\ server' = "killed" /\ srv' = <<>> /\ toSrv' = <<>>
    /\ UNCHANGED <<kind, typed, toCli, in, out, fin, client, line, read_buf, sel, nblk, two>>

-----------------------------------------------------------------------------
Readable == toCli # <<>> \/ server # "up"
AtEnd == toCli = <<>> /\ server # "up"
Eof == in = Lines /\ typed > Lines
HasInput == in < Lines /\ typed > in

(* Writes at most n of what is in s: to a killed server this may fail, and *)
(* nothing of it arrives                                                   *)
Arrives(s, n) ==
    /\ toSrv' = IF server = "up" THEN toSrv \o SubSeq(s, 1, n) ELSE toSrv
    /\ UNCHANGED <<typed, srv, toCli, server>>
Fails == server = "killed" /\ client' = "error"

(* readline(): one line from its buffer, which is filled first with        *)
(* whatever there is                                                       *)
ReadLine ==
    LET have == IF read_buf # <<>> THEN read_buf ELSE toCli
    IN  /\ have # <<>>
        /\ out' = Append(out, Head(have))
        /\ read_buf' = Tail(have)
        /\ toCli' = IF read_buf # <<>> THEN toCli ELSE <<>>
        /\ UNCHANGED <<typed, toSrv, srv, server>>
LineEof == read_buf = <<>> /\ AtEnd

(* fgets() and write() of a line, in str_cli, str_cli1, str_clip's parent  *)
(* and str_clit's thread, and of what was read, in str_cli3                *)
Fgets(most, next) ==
    /\ HasInput
    /\ \E n \in 1 .. Least(most, Least(typed, Lines) - in) :
          line' = InSeq(in + 1, in + n) /\ in' = in + n
    /\ client' = next
    /\ UNCHANGED <<kind, world, out, fin, read_buf, sel, nblk, two>>

WriteLine(next) ==
    /\ client = "write"
    /\ \/ /\ server = "killed" \/ Len(toSrv) < Cap
          /\ Arrives(line, 1)
          /\ line' = Tail(line)
          /\ client' = IF Len(line) = 1 THEN next ELSE client
       \/ Fails /\ UNCHANGED <<world, line>>
    /\ UNCHANGED <<kind, in, out, fin, read_buf, sel, nblk, two>>

Goto(from, to) == client = from /\ client' = to

(* str_cli() *)
StrCli ==
    /\ kind = "str_cli"
    /\ \/ client = "fgets" /\ Fgets(1, "write")
       \/ /\ Goto("fgets", "done") /\ Eof
          /\ UNCHANGED <<kind, world, in, out, fin, line, read_buf, sel, nblk, two>>
       \/ WriteLine("readline")
       \/ /\ client = "readline"
          /\ \/ ReadLine /\ client' = "fgets"
             \/ LineEof /\ client' = "error" /\ UNCHANGED <<world, out, read_buf>>
          /\ UNCHANGED <<kind, in, fin, line, sel, nblk, two>>

-----------------------------------------------------------------------------
(* select() for reading: what is ready of the socket and stdin *)
Select(stdin, sock) ==
    /\ client = "select"
    /\ rset' = {x \in {"sock", "stdin"} :
                  IF x = "sock" THEN sock /\ Readable ELSE stdin /\ (HasInput \/ Eof)}

Skip(from, x, to) ==
    /\ Goto(from, to) /\ x \notin rset
    /\ UNCHANGED <<kind, world, in, out, fin, line, read_buf, sel, nblk, two>>

(* str_cli1(): the input's end is the client's, too *)
StrCli1 ==
    /\ kind = "str_cli1"
    /\ \/ /\ Select(TRUE, TRUE) /\ rset' # {} /\ client' = "sock"
          /\ UNCHANGED <<kind, world, in, out, fin, line, read_buf, stdineof, nblk, two>>
       \/ /\ client = "sock" /\ "sock" \in rset
          /\ \/ ReadLine /\ client' = "stdin"
             \/ LineEof /\ client' = "error" /\ UNCHANGED <<world, out, read_buf>>
          /\ UNCHANGED <<kind, in, fin, line, sel, nblk, two>>
       \/ Skip("sock", "sock", "stdin")
       \/ client = "stdin" /\ "stdin" \in rset /\ Fgets(1, "write")
       \/ /\ Goto("stdin", "done") /\ "stdin" \in rset /\ Eof
          /\ UNCHANGED <<kind, world, in, out, fin, line, read_buf, sel, nblk, two>>
       \/ Skip("stdin", "stdin", "select")
       \/ WriteLine("select")

(* str_cli2() and str_cli3(): after the input's end, on to the server's *)
StrCli3 ==
    /\ kind = "str_cli3"
    /\ \/ /\ Select(~stdineof, TRUE) /\ rset' # {} /\ client' = "sock"
          /\ UNCHANGED <<kind, world, in, out, fin, line, read_buf, stdineof, nblk, two>>
       \/ /\ client = "sock" /\ "sock" \in rset
          /\ out' = out \o toCli /\ toCli' = <<>>
          /\ client' = IF toCli # <<>> THEN "stdin" ELSE IF stdineof THEN "done" ELSE "error"
          /\ UNCHANGED <<kind, typed, toSrv, srv, server, in, fin, line, read_buf, sel, nblk, two>>
       \/ Skip("sock", "sock", "stdin")
       \/ client = "stdin" /\ "stdin" \in rset /\ Fgets(MaxLine, "write")
       \/ /\ Goto("stdin", "select") /\ "stdin" \in rset /\ Eof
          /\ stdineof' = TRUE /\ fin' = TRUE
          /\ UNCHANGED <<kind, world, in, out, line, read_buf, rset, nblk, two>>
       \/ Skip("stdin", "stdin", "select")
       \/ WriteLine("select")

-----------------------------------------------------------------------------
(* str_cli_nblk() *)
Waiting(x) == CASE x = "sock" -> sndo < sndi [] x = "stdout" -> rcvo < rcvi
Put(b, from, s) == [k \in DOMAIN b |-> IF k - from \in DOMAIN s THEN s[k - from] ELSE b[k]]

NbSelect ==
    /\ Select(~stdineof /\ sndi < MaxLine, rcvi < MaxLine)
    /\ wset' = {x \in {"sock", "stdout"} :
                  Waiting(x) /\ (x = "sock" => Len(toSrv) < Cap \/ server # "up")}
    /\ rset' \union wset' # {}
    /\ client' = "stdin"
    /\ UNCHANGED <<world, in, out, fin, stdineof, snd, sndo, sndi, rcv, rcvo, rcvi>>

(* Slip: the end of input is not remembered *)
NbStdinForgets ==
    /\ client = "stdin" /\ client' = "sock"
    /\ \/ /\ "stdin" \in rset /\ HasInput
          /\ \E n \in 1 .. Least(MaxLine - sndi, Least(typed, Lines) - in) :
                /\ snd' = Put(snd, sndi, InSeq(in + 1, in + n))
                /\ sndi' = sndi + n /\ in' = in + n
          /\ wset' = wset \union {"sock"} /\ UNCHANGED fin
       \/ /\ "stdin" \in rset /\ Eof /\ fin' = (sndo = sndi)
          /\ UNCHANGED <<in, wset, snd, sndi>>
       \/ "stdin" \notin rset /\ UNCHANGED <<in, fin, wset, snd, sndi>>
    /\ UNCHANGED <<world, out, rset, stdineof, sndo, rcv, rcvo, rcvi>>

NbStdin ==
    /\ client = "stdin" /\ client' = "sock"
    /\ \/ /\ "stdin" \in rset /\ HasInput
          /\ \E n \in 1 .. Least(MaxLine - sndi, Least(typed, Lines) - in) :
                /\ snd' = Put(snd, sndi, InSeq(in + 1, in + n))
                /\ sndi' = sndi + n /\ in' = in + n
          /\ wset' = wset \union {"sock"}
          /\ UNCHANGED <<fin, stdineof>>
       \/ /\ "stdin" \in rset /\ Eof
          /\ stdineof' = TRUE /\ fin' = (sndo = sndi)
          /\ UNCHANGED <<in, wset, snd, sndi>>
       \/ "stdin" \notin rset /\ UNCHANGED <<in, fin, stdineof, wset, snd, sndi>>
    /\ UNCHANGED <<world, out, rset, sndo, rcv, rcvo, rcvi>>

(* The server's end is the client's, whatever is in rcvbuf *)
NbSock ==
    /\ client = "sock"
    /\ \/ /\ "sock" \in rset /\ toCli # <<>>
          /\ \E n \in 1 .. Least(Len(toCli), MaxLine - rcvi) :
                /\ rcv' = Put(rcv, rcvi, SubSeq(toCli, 1, n))
                /\ rcvi' = rcvi + n
                /\ toCli' = SubSeq(toCli, n + 1, Len(toCli))
          /\ wset' = wset \union {"stdout"} /\ client' = "stdout"
       \/ /\ "sock" \in rset /\ AtEnd
          /\ client' = IF stdineof THEN "done" ELSE "error"
          /\ UNCHANGED <<toCli, wset, rcv, rcvi>>
       \/ "sock" \notin rset /\ client' = "stdout" /\ UNCHANGED <<toCli, wset, rcv, rcvi>>
    /\ UNCHANGED <<typed, toSrv, srv, server, in, out, fin, sel, snd, sndo, sndi, rcvo>>

(* Slip: the pointers go back to the start after every write *)
NbStdoutResets ==
    /\ client = "stdout" /\ client' = "sockw"
    /\ IF "stdout" \in wset /\ Waiting("stdout")
         THEN /\ \E n \in 1 .. rcvi - rcvo : out' = out \o [k \in 1 .. n |-> rcv[rcvo + k]]
              /\ rcvo' = 0 /\ rcvi' = 0
         ELSE UNCHANGED <<out, rcvo, rcvi>>
    /\ UNCHANGED <<world, in, fin, sel, wset, snd, sndo, sndi, rcv>>

NbStdout ==
    /\ client = "stdout" /\ client' = "sockw"
    /\ IF "stdout" \in wset /\ Waiting("stdout")
         THEN \E n \in 1 .. rcvi - rcvo :
              /\ out' = out \o [k \in 1 .. n |-> rcv[rcvo + k]]
              /\ IF rcvo + n = rcvi THEN rcvo' = 0 /\ rcvi' = 0
                                    ELSE rcvo' = rcvo + n /\ UNCHANGED rcvi
         ELSE UNCHANGED <<out, rcvo, rcvi>>
    /\ UNCHANGED <<world, in, fin, sel, wset, snd, sndo, sndi, rcv>>

(* Slip: the end of input that came while data waited is not passed on *)
NbWritesSilently(n) ==
    /\ Arrives([k \in 1 .. n |-> snd[sndo + k]], n)
    /\ IF sndo + n = sndi THEN sndo' = 0 /\ sndi' = 0 ELSE sndo' = sndo + n /\ UNCHANGED sndi
    /\ UNCHANGED fin

NbWrites(n) ==
    /\ Arrives([k \in 1 .. n |-> snd[sndo + k]], n)
    /\ IF sndo + n = sndi
         THEN sndo' = 0 /\ sndi' = 0 /\ fin' = (fin \/ stdineof)
         ELSE sndo' = sndo + n /\ UNCHANGED <<sndi, fin>>

NbSockw ==
    /\ client = "sockw"
    /\ \/ /\ "sock" \in wset /\ Waiting("sock")
          /\ \E n \in 0 .. sndi - sndo :
                /\ n <= Cap - Len(toSrv) \/ server # "up"
                /\ n = 0 => Len(toSrv) = Cap
                /\ NbWrites(n)
          /\ client' = "select"
       \/ /\ "sock" \in wset /\ Waiting("sock") /\ Fails
          /\ UNCHANGED <<world, sndo, sndi, fin>>
       \/ /\ ~("sock" \in wset /\ Waiting("sock")) /\ client' = "select"
          /\ UNCHANGED <<world, sndo, sndi, fin>>
    /\ UNCHANGED <<in, out, sel, wset, snd, rcv, rcvo, rcvi>>

StrCliNblk ==
    /\ kind = "nblk"
    /\ NbSelect \/ NbStdin \/ NbSock \/ NbStdout \/ NbSockw
    /\ UNCHANGED <<kind, line, read_buf, two>>

-----------------------------------------------------------------------------
(* str_clip()'s parent and str_clit()'s thread send, to the input's end *)
Sender ==
    /\ kind \in Two
    /\ \/ client = "fgets" /\ Fgets(1, "write")
       \/ WriteLine("fgets")
       \/ /\ Goto("fgets", "shut") /\ Eof
          /\ fin' = TRUE
          /\ UNCHANGED <<kind, world, in, out, line, read_buf, sel, nblk, two>>
       \/ /\ Goto("shut", IF kind = "clip" THEN "pause" ELSE "over")
          /\ iseof' = (kind = "clit")
          /\ UNCHANGED <<kind, world, in, out, fin, line, read_buf, sel, nblk, reader>>

(* Slip: the main thread waits for the other one before it tests iseof *)
ReaderJoins ==
    /\ kind \in Two /\ reader = "readline" /\ ~Ended
    /\ \/ ReadLine /\ UNCHANGED <<reader, client>>
       \/ /\ LineEof /\ client = "over" /\ reader' = "over" /\ client' = "done"
          /\ UNCHANGED <<world, out, read_buf>>
    /\ UNCHANGED <<kind, in, fin, line, sel, nblk, iseof>>

(* str_clip()'s child and str_clit()'s main thread read; at the end the    *)
(* child sends SIGUSR1, which ends pause() if the parent is there, and the *)
(* main thread tests iseof                                                 *)
Reader ==
    /\ kind \in Two /\ reader = "readline" /\ ~Ended
    /\ \/ ReadLine /\ UNCHANGED <<reader, client>>
       \/ /\ LineEof /\ reader' = "over"
          /\ client' = CASE kind = "clit" -> IF iseof THEN "done" ELSE "error"
                     [] kind = "clip" /\ client = "pause" -> "done"
                     [] OTHER -> client
          /\ UNCHANGED <<world, out, read_buf>>
    /\ UNCHANGED <<kind, in, fin, line, sel, nblk, iseof>>

-----------------------------------------------------------------------------
Init ==
    /\ kind \in Kinds
    /\ typed = 0 /\ in = 0 /\ out = <<>>
    /\ toSrv = <<>> /\ srv = <<>> /\ toCli = <<>> /\ fin = FALSE /\ server = "up"
    /\ client = (IF kind \in {"str_cli1", "str_cli3", "nblk"} THEN "select" ELSE "fgets")
    /\ line = <<>> /\ read_buf = <<>>
    /\ rset = {} /\ wset = {} /\ stdineof = FALSE
    /\ snd = [k \in 1 .. MaxLine |-> 0] /\ sndo = 0 /\ sndi = 0
    /\ rcv = [k \in 1 .. MaxLine |-> 0] /\ rcvo = 0 /\ rcvi = 0
    /\ reader = (IF kind \in Two THEN "readline" ELSE "none") /\ iseof = FALSE

ClientStep == StrCli \/ StrCli1 \/ StrCli3 \/ StrCliNblk \/ Sender
SrvStep == SrvRead \/ SrvWrite \/ SrvEnd

Next == Type \/ SrvStep \/ Killed \/ ClientStep \/ Reader

(* The processes run; nobody has to type, or to kill the server *)
Spec == Init /\ [][Next]_vars /\ WF_vars(ClientStep) /\ WF_vars(Reader) /\ WF_vars(SrvStep)

-----------------------------------------------------------------------------
(* What a client shows is what was typed, in order, with nothing missing,  *)
(* whatever the sizes of reads and writes: to the end, if it ends by       *)
(* itself and the server was not killed.  str_cli1() leaves at ^D, and     *)
(* str_cli_nblk() without what rcvbuf still holds (line 77).               *)
OutputIsEcho ==
    /\ out = InSeq(1, Len(out))
    /\ client = "done" /\ server # "killed" /\ kind \notin {"str_cli1", "nblk"} => Len(out) = Lines

(* Only a killed server has a client say that it terminated prematurely.   *)
(* str_clit() may say so though its thread has ended the input.            *)
ErrorMeansKilled == client = "error" /\ kind # "clit" => server = "killed"

(* str_cli.c:30-33: with select, or a thread, a client finds out that its  *)
(* server was killed, though nobody types.                                 *)
NoticesKill == server = "killed" /\ kind \notin {"str_cli", "clip"} ~> Ended

(* After ^D a client ends, though the input is larger than the kernel's    *)
(* buffers and a write may block: str_cli3() may send MAXLINE more than it *)
(* has read back, and the way back holds that much (Cap >= MaxLine).  The  *)
(* parent of str_clip() may miss the signal.                               *)
MustEnd == Eof /\ kind \in {"str_cli", "str_cli3", "nblk", "clit"}
EndsAfterInput == MustEnd ~> Ended
=============================================================================
