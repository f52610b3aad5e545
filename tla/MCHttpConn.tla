----------------------------- MODULE MCHttpConn -----------------------------
(* Byte sequences for the parser: all the short ones over the bytes that   *)
(* matter to parse_line(), and requests with headers, bodies and a second  *)
(* request behind them, too long to enumerate.  A behaviour is one of the  *)
(* HTTP server's connection or of the sample that reads a request; the     *)
(* variables of the other keep their initial values.                       *)
EXTENDS HttpConn

CONSTANTS
    MaxLen,     \* bound: length of the short ones
    BufSize     \* RequestReader.tla's

VARIABLES program, bytes, read_idx, chk_idx, start_line, chkstate, result, at

Reader == INSTANCE RequestReader

ASSUME BufferAssumption == Reader!ReaderAssumption

reader == <<bytes, read_idx, chk_idx, start_line, chkstate, result, at>>

Short == UNION {[1 .. n -> {"r", "n", "G"}] : n \in 1 .. MaxLen}

Long == {
    <<"G", "r", "n", "K", "r", "n", "r", "n", "G", "r", "n", "r", "n">>,
    <<"G", "r", "n", "x", "r", "n", "K", "r", "n", "r", "n">>,
    <<"G", "r", "n", "L", "r", "n", "r", "n", "x", "x", "x">>,
    <<"G", "r", "n", "L", "r", "n", "r", "n", "r", "n", "x">>,
    <<"G", "r", "n", "L", "r", "n", "r", "n", "x", "r", "n", "G">>,
    <<"G", "r", "n", "L", "r", "n", "K", "r", "n", "r", "n", "x", "x", "x", "G", "r", "n">> }

AllStreams == Short \union Long

MCInit ==
    /\ program \in {"connection", "reader"}
    /\ Init /\ Reader!Init
    /\ program = "reader" => stream = <<"G">>
    /\ program = "connection" => bytes = <<"G">>

MCNext ==
    \/ program = "connection" /\ Next /\ UNCHANGED <<program, reader>>
    \/ program = "reader" /\ Reader!Next /\ UNCHANGED <<program, vars>>

MCSpec == MCInit /\ [][MCNext]_<<program, vars, reader>>

(* http_read.c:19-132: the verdict does not depend on how the bytes were   *)
(* split.                                                                  *)
ReaderVerdict == Reader!ReaderVerdict
=============================================================================
