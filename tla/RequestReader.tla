---------------------------- MODULE RequestReader ----------------------------
(***************************************************************************)
(* The sample that reads a request (src/http_read): main() of server.c     *)
(* reads what comes of one connection, and parse_content() of http_read.c  *)
(* takes lines from the buffer until it knows whether this is a request.   *)
(* The bytes are those of HttpParse.tla: a line of the single byte "G" is  *)
(* a good request line, and any other a bad one, or a header.              *)
(***************************************************************************)
EXTENDS RequestLines

CONSTANTS
    Streams,    \* the byte sequences clients send before they close
    BufSize     \* BUFSIZE

ReaderAssumption == BufSize \in Nat \ {0}

VARIABLES
    bytes,      \* what this client sends
    read_idx, chk_idx, start_line, chkstate, result,
    at          \* "read", "parse" or "closed"

vars == <<bytes, read_idx, chk_idx, start_line, chkstate, result, at>>

buf == SubSeq(bytes, 1, read_idx)

-----------------------------------------------------------------------------
(* read() of what fits.  To a full buffer it returns 0, like at the end:   *)
(* "remote client has closed the connection".                              *)
Read ==
    /\ at = "read"
    /\ \E n \in read_idx + 1 .. Len(bytes) : n <= BufSize /\ read_idx' = n
    /\ at' = "parse"
    /\ UNCHANGED <<bytes, chk_idx, start_line, chkstate, result>>

ReadNothing ==
    /\ at = "read" /\ read_idx \in {Len(bytes), BufSize}
    /\ at' = "closed"
    /\ UNCHANGED <<bytes, read_idx, chk_idx, start_line, chkstate, result>>

-----------------------------------------------------------------------------
Stops(b) == {i \in chk_idx .. Len(b) - 1 : Byte(b, i) \in {"r", "n"}}

(* Slip: a CR at the end of the buffer is passed over *)
ParseLinePastCR(b, beyond) ==
    LET i == Min(Stops(b))
        crlf == i + 1 < Len(b) /\ Byte(b, i) = "r" /\ Byte(b, i + 1) = "n"
    IN  IF Stops(b) = {} \/ (Byte(b, i) = "r" /\ i + 1 = Len(b))
          THEN [status |-> "open", idx |-> Len(b), end |-> 0]
        ELSE IF crlf THEN [status |-> "ok", idx |-> i + 2, end |-> i]
        ELSE [status |-> "bad", idx |-> i, end |-> 0]

(* parse_line() on the bytes b: its status, chk_idx, and the index where   *)
(* the line's text now ends.  For an LF, line 36 looks at the next byte,   *)
(* not at the one before: it may be `beyond', left in the buffer by        *)
(* another connection, and the byte before the LF is cut off.              *)
ParseLine(b, beyond) ==
    LET i == Min(Stops(b))
        next == IF i + 1 < Len(b) THEN Byte(b, i + 1) ELSE beyond
    IN  IF Stops(b) = {} THEN [status |-> "open", idx |-> Len(b), end |-> 0]
        ELSE IF Byte(b, i) = "r" /\ i + 1 = Len(b) THEN [status |-> "open", idx |-> i, end |-> 0]
        ELSE IF Byte(b, i) = "r" /\ next = "n" THEN [status |-> "ok", idx |-> i + 2, end |-> i]
        ELSE IF Byte(b, i) = "n" /\ i > 1 /\ next = "r"
             THEN [status |-> "ok", idx |-> i + 1, end |-> i - 1]
        ELSE [status |-> "bad", idx |-> i, end |-> 0]

(* A verdict is answered, and the connection closed *)
Return(r) ==
    /\ result' = r
    /\ at' = IF r = "NO_REQUEST" THEN "read" ELSE "closed"

(* parse_requestline() and parse_headers() of a line *)
RequestLine(text) ==
    /\ chkstate = "requestline"
    /\ IF text = <<"G">> THEN chkstate' = "header" /\ UNCHANGED <<result, at>>
                         ELSE UNCHANGED chkstate /\ Return("BAD_REQUEST")

HeaderLine(text) ==
    /\ chkstate = "header"
    /\ IF text = <<>> THEN Return("GET_REQUEST") ELSE UNCHANGED <<result, at>>
    /\ UNCHANGED chkstate

(* The loop of parse_content() *)
ParseContent ==
    /\ at = "parse"
    /\ \E beyond \in {"r", "x"} :
          LET line == ParseLine(buf, beyond)
              text == SubSeq(buf, start_line + 1, line.end)
          IN  /\ chk_idx' = line.idx
              /\ \/ /\ line.status = "ok"
                    /\ start_line' = line.idx
                    /\ RequestLine(text) \/ HeaderLine(text)
                 \/ /\ line.status # "ok"
                    /\ Return(IF line.status = "open" THEN "NO_REQUEST" ELSE "BAD_REQUEST")
                    /\ UNCHANGED <<start_line, chkstate>>
    /\ UNCHANGED <<bytes, read_idx>>

-----------------------------------------------------------------------------
Init ==
    /\ bytes \in Streams
    /\ read_idx = 0 /\ chk_idx = 0 /\ start_line = 0
    /\ chkstate = "requestline" /\ result = "NO_REQUEST" /\ at = "read"

Next == Read \/ ReadNothing \/ ParseContent

Spec == Init /\ [][Next]_vars

-----------------------------------------------------------------------------
(* Whatever the pieces the bytes come in, the verdict is the one all of    *)
(* them together call for: a request has a good first line and an empty    *)
(* line, a bad one a bad first line or a CR alone, and the reader goes on  *)
(* only when it is neither yet.  An LF alone is beyond parse_line().       *)
ReaderVerdict ==
    LET whole == SplitLines(WellFormed(buf))
        good == whole # <<>> /\ whole[1] = <<"G">>
        get == good /\ \E k \in 2 .. Len(whole) : whole[k] = <<>>
        bad == Stray(buf) # {} \/ (whole # <<>> /\ ~good)
    IN  (\A k \in Stray(buf) : buf[k] = "r") =>
            /\ at = "read" => ~get /\ ~bad
            /\ result = "GET_REQUEST" => get
            /\ result = "BAD_REQUEST" => bad
=============================================================================
