------------------------------ MODULE HttpConn ------------------------------
(***************************************************************************)
(* One connection of the HTTP server from its first byte to its last:      *)
(* requests are read and parsed as HttpParse.tla says, process_write()     *)
(* builds a header in m_write_buf and points m_iov at it and at the mapped *)
(* file, and write() hands m_iov to writev() as often as EPOLLOUT fires.   *)
(* The peer's window decides how much a call takes.                        *)
(*                                                                         *)
(* The bytes of a response are numbered: <<1, ..., header + body>>.        *)
(***************************************************************************)
EXTENDS HttpParse

CONSTANTS
    MaxHeader,      \* bound: length of a header, or of a whole error page
    MaxBody,        \* bound: length of a file
    MaxSent         \* bound: bytes the peer receives for one response

ASSUME SizesAssumption == MaxHeader \in Nat \ {0} /\ MaxBody \in Nat /\ MaxSent \in Nat

VARIABLES
    writeIdx,   \* m_write_idx
    body,       \* m_iov[1].iov_len if m_iov_cnt = 2, else 0
    mapped,     \* m_file_addr # nullptr.  The objects come from one allocation too
                \* large for the heap, so the field nobody initializes is null.
    haveSent,   \* bytes_have_send, local to write()
    delivered,  \* history: the bytes the peer received of this response
    calls       \* history: writev() calls that took bytes of this response

\* pc is also "armed": EPOLLOUT is armed; "write": main() is in write(); "closed"

output == <<writeIdx, body, mapped, haveSent, delivered, calls>>
vars == <<input, pc, output>>

Message == [i \in 1 .. writeIdx + body |-> i]

-----------------------------------------------------------------------------
(* process(), past process_read().  add_response() appends to what          *)
(* m_write_buf holds.                                                       *)

Respond(fileLen) ==
    /\ \E n \in 1 .. MaxHeader : writeIdx' = writeIdx + n
    /\ body' = fileLen
    /\ pc' = "armed"
    /\ delivered' = <<>> /\ calls' = 0
    /\ UNCHANGED <<input, haveSent>>

(* An error page: a bad request line, or do_request() says FORBIDDEN_REQUEST *)
(* or, for a directory, BAD_REQUEST.                                         *)
ReplyPage ==
    /\ pc = "reply"
    /\ Respond(0)
    /\ UNCHANGED mapped

(* FILE_REQUEST; an empty file has a page of its own in place of the file,  *)
(* and mmap() of no bytes leaves MAP_FAILED in m_file_addr.                 *)
ReplyFile ==
    /\ pc = "reply" /\ code = "GET_REQUEST"
    /\ \E n \in 0 .. MaxBody : Respond(n)
    /\ mapped' = TRUE

(* NO_RESOURCE is not among process_write()'s cases: close_conn() *)
ReplyFail ==
    /\ pc = "reply" /\ code = "GET_REQUEST"
    /\ pc' = "closed"
    /\ UNCHANGED <<input, output>>

(* The peer closes: main() calls close_conn() *)
HangUp ==
    /\ pc \in {"read", "armed"}
    /\ pc' = "closed"
    /\ UNCHANGED <<input, output>>

-----------------------------------------------------------------------------
(* write(), called when EPOLLOUT fires.  Its test of bytes_to_send == 0,    *)
(* lines 269-273, is false: EPOLLOUT is armed with a response only.         *)
WriteStart ==
    /\ pc = "armed" /\ writeIdx # 0
    /\ haveSent' = 0
    /\ pc' = "write"
    /\ UNCHANGED <<input, writeIdx, body, mapped, delivered, calls>>

(* Slip: off by one in the loop's condition *)
AllSentEarly == haveSent + 1 >= writeIdx

(* The condition of the loop, line 275 *)
AllSent == haveSent >= writeIdx

(* writev() takes n bytes, always from the start of m_iov *)
Writev(n) ==
    /\ pc = "write" /\ ~AllSent
    /\ Len(delivered) + n <= MaxSent
    /\ delivered' = delivered \o SubSeq(Message, 1, n)
    /\ calls' = calls + 1
    /\ haveSent' = haveSent + n
    /\ UNCHANGED <<input, pc, writeIdx, body, mapped>>

(* Slip: unmap() on EWOULDBLOCK as well *)
WriteLaterUnmap ==
    /\ pc = "write" /\ ~AllSent
    /\ mapped' = FALSE
    /\ pc' = "armed"
    /\ UNCHANGED <<input, writeIdx, body, haveSent, delivered, calls>>

(* EWOULDBLOCK *)
WriteLater ==
    /\ pc = "write" /\ ~AllSent
    /\ pc' = "armed"
    /\ UNCHANGED <<input, output>>

Unmap == mapped' = FALSE

(* Any other error: unmap(), return false, and main() calls close_conn() *)
WriteFail ==
    /\ pc = "write" /\ ~AllSent
    /\ Unmap
    /\ pc' = "closed"
    /\ UNCHANGED <<input, writeIdx, body, haveSent, delivered, calls>>

(* All sent on a keep-alive connection: init(), and wait for a request *)
WriteKeepAlive ==
    /\ pc = "write" /\ AllSent /\ linger
    /\ Unmap
    /\ InitRequest
    /\ writeIdx' = 0
    /\ pc' = "read"
    /\ UNCHANGED <<body, haveSent, delivered, calls>>

(* All sent on another: close_conn() *)
WriteClose ==
    /\ pc = "write" /\ AllSent /\ ~linger
    /\ Unmap
    /\ pc' = "closed"
    /\ UNCHANGED <<input, writeIdx, body, haveSent, delivered, calls>>

-----------------------------------------------------------------------------
Init ==
    /\ ParseInit
    /\ writeIdx = 0 /\ body = 0 /\ mapped = FALSE /\ haveSent = 0
    /\ delivered = <<>> /\ calls = 0

Next ==
    \/ ParseStep /\ UNCHANGED output
    \/ ReplyPage \/ ReplyFile \/ ReplyFail
    \/ HangUp
    \/ WriteStart \/ WriteLater \/ WriteFail \/ WriteKeepAlive \/ WriteClose
    \/ \E n \in 1 .. writeIdx + body : Writev(n)

Spec == Init /\ [][Next]_vars

-----------------------------------------------------------------------------
TypeOK ==
    /\ ParseTypes
    /\ pc \in {"read", "loop", "reply", "armed", "write", "closed"}
    /\ writeIdx \in 0 .. MaxHeader /\ body \in 0 .. MaxBody
    /\ mapped \in BOOLEAN
    /\ haveSent \in 0 .. MaxSent
    /\ delivered \in Seq(Nat) /\ calls \in Nat

(* The file stays mapped for as long as writev() may be given it, across    *)
(* every EAGAIN, and is unmapped when the next request is awaited.          *)
MappingOutlivesWrite ==
    /\ pc \in {"armed", "write"} /\ body > 0 => mapped
    /\ pc = "read" => ~mapped

(* When one writev() call was enough for write() to finish, the peer has    *)
(* the whole header, and nothing but the response: the loop of line 275     *)
(* counts against the header.                                               *)
HeaderArrives ==
    pc = "write" /\ AllSent /\ calls = 1 =>
        /\ IsPrefix(SubSeq(Message, 1, writeIdx), delivered)
        /\ IsPrefix(delivered, Message)

(* http_conn.cpp:344: the response built from the parse result is sent to   *)
(* the client: what the client has received is the beginning of it.         *)
DeliveredIsResponse == pc = "write" => IsPrefix(delivered, Message)
=============================================================================
