----------------------------- MODULE HttpParse -----------------------------
(***************************************************************************)
(* The two state machines that parse a request (http_conn.cpp): the main   *)
(* thread's read() adds whatever arrived to m_read_buf, and a worker's     *)
(* process_read() takes lines from it with parse_line() and interprets     *)
(* them by m_check_state.  TCP may split the bytes anywhere, so the pair   *)
(* has to resume where it stopped.                                         *)
(*                                                                         *)
(* Bytes: "r" and "n" are CR and LF.  A line of the single byte "G" is a   *)
(* good request line, "L" is `Content-Length: BodyLen', "K" is             *)
(* `Connection: keep-alive'; any other line is a bad request line or a     *)
(* header that is ignored.  Requests are shorter than READ_BUFFER_SIZE.    *)
(***************************************************************************)
EXTENDS RequestLines

CONSTANTS
    Streams,    \* the byte sequences clients send
    BodyLen     \* the value of their Content-Length headers

ASSUME StreamsAssumption ==
    /\ \A s \in Streams : s \in Seq({"r", "n", "G", "L", "K", "x"})
    /\ BodyLen \in Nat \ {0}

VARIABLES
    stream,     \* what this client sends
    readIdx,    \* m_read_idx: how much of it is in m_read_buf
    checkIdx,   \* m_check_idx
    startLine,  \* m_start_line
    checkState, \* m_check_state
    contentLen, \* m_content_len
    linger,     \* m_linger
    lineStatus, \* line_status, local to process_read()
    code,       \* what process_read() returned last
    pc,         \* "read": EPOLLIN is armed; "loop": a worker is in process_read();
                \* "reply": process_read() has a verdict
    lines       \* history: the lines parse_line() delivered

parser == <<checkIdx, startLine, checkState, contentLen, linger>>
input == <<stream, readIdx, parser, lineStatus, code, lines>>

Buf == SubSeq(stream, 1, readIdx)

(* Slip: a CR at the end of the buffer is passed over *)
ParseLinePastCR(b, chk) ==
    LET stops == {i \in chk .. Len(b) - 1 : Byte(b, i) \in {"r", "n"}}
        i == Min(stops)
    IN  IF stops = {} \/ (Byte(b, i) = "r" /\ i + 1 = Len(b))
          THEN [status |-> "open", idx |-> Len(b)]
        ELSE IF Byte(b, i) = "r" /\ Byte(b, i + 1) = "n" THEN [status |-> "ok", idx |-> i + 2]
        ELSE [status |-> "bad", idx |-> i]

(* parse_line() on the bytes b from index chk: its status and m_check_idx *)
ParseLine(b, chk) ==
    LET stops == {i \in chk .. Len(b) - 1 : Byte(b, i) \in {"r", "n"}}
        i == Min(stops)
    IN  IF stops = {} THEN [status |-> "open", idx |-> Len(b)]
        ELSE IF Byte(b, i) = "r" /\ i + 1 = Len(b) THEN [status |-> "open", idx |-> i]
        ELSE IF Byte(b, i) = "r" /\ Byte(b, i + 1) = "n" THEN [status |-> "ok", idx |-> i + 2]
        ELSE IF Byte(b, i) = "n" /\ i > 1 /\ Byte(b, i - 1) = "r"
             THEN [status |-> "ok", idx |-> i]
        ELSE [status |-> "bad", idx |-> i]

-----------------------------------------------------------------------------
(* http_conn::read() appends at least one byte, then the connection is    *)
(* queued and a worker enters process_read() with line_status = LINE_OK.  *)
Read ==
    /\ pc = "read"
    /\ \E n \in readIdx + 1 .. Len(stream) : readIdx' = n
    /\ lineStatus' = "ok"
    /\ pc' = "loop"
    /\ UNCHANGED <<stream, parser, code, lines>>

Return(c) ==
    /\ code' = c
    /\ pc' = IF c = "NO_REQUEST" THEN "read" ELSE "reply"

InContent == checkState = "content" /\ lineStatus = "ok"

Line == ParseLine(Buf, checkIdx)

(* The text of a delivered line, up to the CR that parse_line() overwrote *)
Text == SubSeq(stream, startLine + 1, Line.idx - 2)

(* The loop ends: no whole line, or a malformed one; NO_REQUEST for both *)
NoLine ==
    /\ pc = "loop" /\ ~InContent
    /\ Line.status # "ok"
    /\ checkIdx' = Line.idx
    /\ lineStatus' = Line.status
    /\ Return("NO_REQUEST")
    /\ UNCHANGED <<stream, readIdx, startLine, checkState, contentLen, linger, lines>>

(* Slip: m_start_line left where the line began *)
TakeLineNoStart ==
    /\ pc = "loop" /\ ~InContent
    /\ Line.status = "ok"
    /\ checkIdx' = Line.idx
    /\ startLine' = checkIdx
    /\ lines' = Append(lines, Text)
    /\ UNCHANGED <<stream, readIdx>>

TakeLine ==
    /\ pc = "loop" /\ ~InContent
    /\ Line.status = "ok"
    /\ checkIdx' = Line.idx
    /\ startLine' = Line.idx
    /\ lines' = Append(lines, Text)
    /\ UNCHANGED <<stream, readIdx>>

(* parse_request_line() *)
RequestLine ==
    /\ checkState = "requestline" /\ TakeLine
    /\ IF Text = <<"G">>
         THEN checkState' = "header" /\ UNCHANGED <<code, pc>>
         ELSE checkState' = checkState /\ Return("BAD_REQUEST")
    /\ lineStatus' = "ok"
    /\ UNCHANGED <<contentLen, linger>>

(* parse_headers() on a header field *)
HeaderLine ==
    /\ checkState = "header" /\ TakeLine
    /\ Text # <<>>
    /\ contentLen' = IF Text = <<"L">> THEN BodyLen ELSE contentLen
    /\ linger' = (linger \/ Text = <<"K">>)
    /\ lineStatus' = "ok"
    /\ UNCHANGED <<checkState, code, pc>>

(* parse_headers() on the empty line *)
HeaderEnd ==
    /\ checkState = "header" /\ TakeLine
    /\ Text = <<>>
    /\ IF contentLen # 0
         THEN checkState' = "content" /\ UNCHANGED <<code, pc>>
         ELSE checkState' = checkState /\ Return("GET_REQUEST")
    /\ lineStatus' = "ok"
    /\ UNCHANGED <<contentLen, linger>>

(* Slip: the body measured from the start of the buffer *)
ParseContentFromStart(idx) ==
    /\ startLine' = idx
    /\ IF readIdx >= contentLen
         THEN Return("GET_REQUEST") /\ lineStatus' = "ok"
         ELSE lineStatus' = "open" /\ UNCHANGED <<code, pc>>
    /\ UNCHANGED <<stream, readIdx, checkState, contentLen, linger>>

(* parse_content().  When bytes are missing, the loop's condition runs      *)
(* parse_line() over the part of the body that is there (NoLine above, or   *)
(* ContentLine, which comes back here).                                     *)
ParseContent(idx) ==
    /\ startLine' = idx
    /\ IF readIdx >= contentLen + idx
         THEN Return("GET_REQUEST") /\ lineStatus' = "ok"
         ELSE lineStatus' = "open" /\ UNCHANGED <<code, pc>>
    /\ UNCHANGED <<stream, readIdx, checkState, contentLen, linger>>

Content ==
    /\ pc = "loop" /\ InContent
    /\ ParseContent(checkIdx)
    /\ UNCHANGED <<checkIdx, lines>>

ContentLine ==
    /\ pc = "loop" /\ checkState = "content" /\ ~InContent
    /\ Line.status = "ok"
    /\ checkIdx' = Line.idx
    /\ ParseContent(Line.idx)
    /\ UNCHANGED lines

(* init(): write() calls it after a response on a keep-alive connection,    *)
(* and it forgets what the buffer holds beyond the request.                 *)
InitRequest ==
    /\ stream' = SubSeq(stream, readIdx + 1, Len(stream))
    /\ readIdx' = 0 /\ checkIdx' = 0 /\ startLine' = 0
    /\ checkState' = "requestline" /\ contentLen' = 0 /\ linger' = FALSE
    /\ lineStatus' = "ok" /\ code' = "NO_REQUEST"
    /\ lines' = <<>>

ParseInit ==
    /\ stream \in Streams
    /\ readIdx = 0 /\ checkIdx = 0 /\ startLine = 0
    /\ checkState = "requestline" /\ contentLen = 0 /\ linger = FALSE
    /\ lineStatus = "ok" /\ code = "NO_REQUEST" /\ pc = "read"
    /\ lines = <<>>

ParseStep ==
    \/ Read \/ NoLine \/ RequestLine \/ HeaderLine \/ HeaderEnd
    \/ Content \/ ContentLine

-----------------------------------------------------------------------------
(* The reference: what a request is, said of all its bytes at once *)
RefLines == SplitLines(WellFormed(Buf))

(* The index of the empty line that ends the header, or 0 *)
HeaderLen ==
    LET blank == {k \in 2 .. Len(RefLines) : RefLines[k] = <<>>}
    IN  IF blank = {} THEN 0 ELSE Min(blank)

HasBody == \E k \in 2 .. HeaderLen : RefLines[k] = <<"L">>

BadRequest == RefLines # <<>> /\ RefLines[1] # <<"G">>

WholeRequest ==
    /\ RefLines # <<>> /\ RefLines[1] = <<"G">>
    /\ HeaderLen # 0
    /\ HasBody => readIdx >= Ends(WellFormed(Buf))[HeaderLen] + BodyLen

-----------------------------------------------------------------------------
ParseTypes ==
    /\ readIdx \in 0 .. Len(stream)
    /\ startLine \in 0 .. readIdx /\ checkIdx \in startLine .. readIdx
    /\ checkState \in {"requestline", "header", "content"}
    /\ contentLen \in {0, BodyLen} /\ linger \in BOOLEAN
    /\ lineStatus \in {"ok", "bad", "open"}
    /\ code \in {"NO_REQUEST", "BAD_REQUEST", "GET_REQUEST"}

(* However the bytes were split, the lines delivered so far are the first  *)
(* lines of what arrived, and none is held back when the parser asks for   *)
(* more before the body.                                                   *)
LinesResume ==
    /\ IsPrefix(lines, RefLines)
    /\ pc = "read" /\ checkState # "content" => lines = RefLines

(* A verdict is right whatever the split: a request is taken only when all *)
(* of it, body included, is in the buffer, and rejected only for its       *)
(* request line.                                                           *)
VerdictIsSound ==
    /\ pc = "reply" /\ code = "GET_REQUEST" => WholeRequest
    /\ pc = "reply" /\ code = "BAD_REQUEST" => BadRequest

(* The parser never waits for more bytes when the request is decided,      *)
(* as long as it has no body.                                              *)
NoNeedlessWait ==
    pc = "read" /\ ~HasBody => ~WholeRequest /\ ~BadRequest

(* LSP-Note.md:592: when a request is not read completely, it is enough to *)
(* go on reading; so a whole request, body included, is recognized.        *)
BodyIsRecognized == pc = "read" => ~WholeRequest
=============================================================================
