---------------------------- MODULE HttpReceive ----------------------------
(***************************************************************************)
(* receive_http_body() of socket_utils.c: a request is written, the header *)
(* of the answer is received and then its body, whose end is known from    *)
(* Content-Length, from the sizes of a chunked body, or from the end of    *)
(* the connection.                                                         *)
(*                                                                         *)
(* The answer is a stream of bytes; the digits of a chunk's size are one   *)
(* of them.  recv returns any number of bytes from one to what was         *)
(* asked for; recv_all is one step, since only its result can be observed. *)
(* The connection may be lost before any step.  TLS and plain connections  *)
(* differ in how losses are noticed.  The header fits into its buffer.     *)
(***************************************************************************)
EXTENDS Integers, Sequences, FiniteSets

CONSTANTS
    Messages,       \* the answers of the server
    HeaderLen,      \* length of the header of the answer
    HeaderSpace,    \* sizeof(header_buffer) - 1
    SizeSpace,      \* sizeof(chunk_size_buffer) - 1
    MaxLosses       \* bound of the model: lost connections

Kinds == {"length", "chunked", "close"}

(* An answer with its body and its bytes.  A body that is not chunked      *)
(* stands behind the header as it is.                                      *)
ASSUME MessagesAssumption ==
    /\ Messages \subseteq [kind : Kinds, close : BOOLEAN, content : Seq(Int), wire : Seq(Int)]
    /\ \A m \in Messages :
          m.kind # "chunked" =>
              /\ Len(m.wire) = HeaderLen + Len(m.content)
              /\ m.content = SubSeq(m.wire, HeaderLen + 1, Len(m.wire))
ASSUME HeaderAssumption ==
    HeaderSpace \in Nat /\ HeaderLen \in 1 .. HeaderSpace /\ HeaderSpace >= 2
ASSUME SizeAssumption == SizeSpace \in 3 .. HeaderSpace
ASSUME MaxLossesAssumption == MaxLosses \in Nat

-----------------------------------------------------------------------------
(***************************************************************************)
(* Bytes.  A byte of a body is a positive number; CR, LF and the digits of *)
(* a size occur only in the framing of a chunked body.                     *)
(***************************************************************************)

NUL  == 0
CR   == -1
LF   == -2

(* A chunk's size, in digits and as a number.                              *)
Digits(n)  == -10 - n
IsDigits(c) == c <= Digits(0)
strtol(c)  == -10 - c

(* The places of the sizes in the bytes w, and how many bytes of the body  *)
(* come before place p.                                                    *)
Sizes(w) == {p \in DOMAIN w : IsDigits(w[p])}
SentBefore(w, p) == Cardinality({q \in 1 .. p : w[q] > 0})

(* A chunk begins at place p of answer m: its size, CRLF, its bytes, CRLF, *)
(* and the next chunk; the last one has no bytes.                          *)
ChunkAt(m, p) ==
    LET w == m.wire  size == strtol(w[p])  before == SentBefore(w, p)
    IN  /\ w[p + 1] = CR /\ w[p + 2] = LF
        /\ w[p + size + 3] = CR /\ w[p + size + 4] = LF
        /\ \A i \in 1 .. size : w[p + 2 + i] > 0 /\ w[p + 2 + i] = m.content[before + i]
        /\ IF size = 0 THEN p + 4 = Len(w) /\ before = Len(m.content)
                       ELSE p + size + 5 \in Sizes(w)

ASSUME FramingAssumption ==
    \A m \in Messages :
        m.kind = "chunked" =>
            /\ HeaderLen + 1 \in Sizes(m.wire)
            /\ \A p \in 1 .. HeaderLen : m.wire[p] \in Digits(0) + 1 .. LF - 1
            /\ \A p \in Sizes(m.wire) : ChunkAt(m, p)

VARIABLES
    msg,                \* the answer
    is_ssl,
    read,               \* how many of its bytes were received
    conn,               \* "fresh", "used" since the last refresh, or "lost"
    losses,
    pc,
    header_buffer,
    chunk_size_buffer,
    in_header, at,      \* start_of_chunk: buffer and position
    already_received,
    body,
    buffer_size,
    ragged              \* history: a recv cut the framing (see Cuts, Short)

serverVars == <<msg, is_ssl>>
chunkVars  == <<chunk_size_buffer, in_header, at, already_received>>
dataVars   == <<header_buffer, chunkVars, body, buffer_size, ragged>>
vars == <<serverVars, read, conn, losses, pc, dataVars>>

-----------------------------------------------------------------------------
(***************************************************************************)
(* The answer on the wire.                                                 *)
(***************************************************************************)

(* The bytes of the answer.                                                *)
wire == msg.wire

Remaining == Len(wire) - read

(* The next n bytes.                                                       *)
Piece(n) == SubSeq(wire, read + 1, read + n)

AtMost(a, b) == IF a <= b THEN a ELSE b

(* What recv may return if it is asked for n bytes.                        *)
Counts(n) == 1 .. AtMost(n, Remaining)

(* A recv of n bytes ends within the CRLF after a chunk.                   *)
Cuts(n) == wire[read + n] = CR /\ ~IsDigits(wire[read + n - 1])

(* A recv returns n bytes though asked for more, with more to come.        *)
Short(n, asked) == n < AtMost(asked, Remaining)

Init ==
    /\ msg \in Messages
    /\ is_ssl \in BOOLEAN
    /\ read = 0
    /\ conn \in {"fresh", "used"} /\ losses = 0
    /\ pc = "write"
    /\ header_buffer = <<>> /\ body = <<>> /\ buffer_size = 0
    /\ chunk_size_buffer = [n \in 1 .. SizeSpace + 1 |-> NUL]
    /\ in_header = TRUE /\ at = 1 /\ already_received = 0
    /\ ragged = FALSE

Ended == pc \in {"returned", "null", "exited", "aborted", "astray"}

(* The connection breaks, or the server closes it.                         *)
Lose ==
    /\ ~Ended /\ conn # "lost" /\ losses < MaxLosses
    /\ conn' = "lost" /\ losses' = losses + 1
    /\ UNCHANGED <<serverVars, read, pc, dataVars>>

-----------------------------------------------------------------------------
(***************************************************************************)
(* Request and header.                                                     *)
(***************************************************************************)

(* Faulty: the old connection is used again.                               *)
RefreshForgotten == conn

(* The connection after refresh_connection.                                *)
refresh_connection == "fresh"

(* refresh_connection, and receive_http_body is called again; or no        *)
(* connection can be opened.                                               *)
Retry ==
    /\ UNCHANGED <<serverVars, losses, dataVars>>
    /\ \/ pc' = "write" /\ conn' = refresh_connection /\ read' = 0
       \/ pc' = "exited" /\ UNCHANGED <<conn, read>>

(* The write is accepted; it need not notice that the connection is gone.  *)
Write ==
    /\ pc = "write"
    /\ pc' = "header"
    /\ header_buffer' = <<>>
    /\ conn' = IF conn = "lost" THEN "lost" ELSE "used"
    /\ UNCHANGED <<serverVars, read, losses, chunkVars, body, buffer_size, ragged>>

WriteFails == pc = "write" /\ conn = "lost" /\ Retry

(* Another error of the TLS engine, such as a certificate it does not      *)
(* trust, ends the program.                                                *)
TlsFails ==
    /\ pc = "write" /\ is_ssl
    /\ pc' = "exited"
    /\ UNCHANGED <<serverVars, read, conn, losses, dataVars>>

(* Faulty: the result of recv is not tested.                               *)
LossIgnored == pc

(* recv reports a loss: NULL is returned.                                  *)
AfterLoss == "null"

Fail ==
    /\ conn = "lost" /\ pc' = AfterLoss
    /\ UNCHANGED <<serverVars, read, conn, losses, dataVars>>

(* Faulty: what came with the header is not copied.                        *)
FirstPartForgotten(header) == <<>>

(* The part of the body that came with the header.                         *)
FirstPart(header) == SubSeq(header, HeaderLen + 1, Len(header))

(* n bytes arrive.  Once the header is complete the kind of body decides;  *)
(* without a length the server must have announced the end of the          *)
(* connection.                                                             *)
ReceiveHeader(n) ==
    /\ pc = "header" /\ conn = "used"
    /\ n \in Counts(HeaderSpace - Len(header_buffer))
    /\ read' = read + n
    /\ header_buffer' = header_buffer \o Piece(n)
    /\ ragged' = (ragged \/ Cuts(n))
    /\ IF Len(header_buffer') < HeaderLen
       THEN UNCHANGED <<pc, chunkVars, body, buffer_size>>
       ELSE /\ already_received' = Len(header_buffer') - HeaderLen
            /\ in_header' = TRUE /\ at' = HeaderLen + 1
            /\ chunk_size_buffer' = [i \in 1 .. SizeSpace + 1 |-> NUL]
            /\ body' = IF msg.kind = "chunked" THEN <<>> ELSE FirstPart(header_buffer')
            /\ buffer_size' = HeaderSpace + HeaderSpace \div 2
            /\ pc' = IF msg.kind = "length" THEN "rest"
                     ELSE IF msg.kind = "chunked" THEN "size"
                     ELSE IF msg.close THEN "until" ELSE "aborted"
    /\ UNCHANGED <<serverVars, conn, losses>>

(* The body is returned, after refresh_connection if the server announced  *)
(* the end of the connection.                                              *)
Return ==
    \/ ~msg.close /\ pc' = "returned" /\ UNCHANGED conn
    \/ msg.close /\ pc' = "returned" /\ conn' = refresh_connection
    \/ msg.close /\ pc' = "exited" /\ UNCHANGED conn

-----------------------------------------------------------------------------
(***************************************************************************)
(* Content-Length.                                                         *)
(***************************************************************************)

(* Faulty: recv is called even if there is nothing left to receive, and    *)
(* its zero is taken for a disconnection.                                  *)
FailsAtZero(n) == n = 0 \/ conn = "lost"

(* recv_all of n bytes fails.                                              *)
recv_all_fails(n) == n > 0 /\ conn = "lost"

ReceiveRest ==
    /\ pc = "rest"
    /\ LET n == Len(msg.content) - already_received
       IN  IF recv_all_fails(n)
           THEN pc' = "null" /\ UNCHANGED <<conn, read, body>>
           ELSE read' = read + n /\ body' = body \o Piece(n) /\ Return
    /\ UNCHANGED <<serverVars, losses, header_buffer, chunkVars, buffer_size, ragged>>

-----------------------------------------------------------------------------
(***************************************************************************)
(* Transfer-Encoding: chunked.                                             *)
(***************************************************************************)

(* The buffer that start_of_chunk points into, and what stands from there. *)
Buffer == IF in_header THEN Append(header_buffer, NUL) ELSE chunk_size_buffer
Text == SubSeq(Buffer, at, Len(Buffer))

(* strlen(t)                                                               *)
StringLen(t) == (CHOOSE n \in 1 .. Len(t) : t[n] = NUL /\ \A m \in 1 .. n - 1 : t[m] # NUL) - 1

(* The places of "\r\n" in t, as a string.                                 *)
Lines(t) == {n \in 1 .. StringLen(t) - 1 : t[n] = CR /\ t[n + 1] = LF}

(* The length of the first line of t.                                      *)
LineLen(t) == 1 + CHOOSE n \in Lines(t) : \A m \in Lines(t) : n <= m

(* strcpy of string t to chunk_size_buffer, then n bytes received behind   *)
(* the already_received ones.  What stands further behind stays.           *)
Refilled(t, n) ==
    [i \in 1 .. SizeSpace + 1 |->
        IF i \in already_received + 1 .. already_received + n THEN wire[read + i - already_received]
        ELSE IF i <= StringLen(t) + 1 THEN t[i]
        ELSE chunk_size_buffer[i]]

(* The line with the size is not complete.                                 *)
ReceiveSize(n) ==
    /\ pc = "size" /\ Lines(Text) = {} /\ conn = "used"
    /\ n \in Counts(SizeSpace - already_received)
    /\ chunk_size_buffer' = Refilled(Text, n)
    /\ in_header' = FALSE /\ at' = 1
    /\ already_received' = already_received + n
    /\ read' = read + n
    /\ ragged' = (ragged \/ Cuts(n) \/ Short(n, SizeSpace - already_received))
    /\ UNCHANGED <<serverVars, conn, losses, pc, header_buffer, body, buffer_size>>

ChunkSize == strtol(Text[1])

(* The bytes received behind the line.                                     *)
Behind == already_received - LineLen(Text)

(* The line is one the server sent, and it was received.                   *)
LineReceived == IsDigits(Text[1]) /\ Behind >= 0

ChunkLine == pc = "size" /\ Lines(Text) # {} /\ LineReceived /\ ChunkSize > 0

(* The chunk with its CRLF is in the buffer.                               *)
Whole == Behind >= ChunkSize + 2

(* The first n bytes behind the line.                                      *)
Data(n) == SubSeq(Text, LineLen(Text) + 1, LineLen(Text) + n)

(* Faulty: the next size is looked for before the CRLF.                    *)
PastData == ChunkSize

(* What a whole chunk takes behind its line.                               *)
PastChunk == ChunkSize + 2

TakeWhole ==
    /\ ChunkLine /\ Whole
    /\ body' = body \o Data(ChunkSize)
    /\ at' = at + LineLen(Text) + PastChunk
    /\ already_received' = Behind - PastChunk
    /\ UNCHANGED <<serverVars, read, conn, losses, pc, header_buffer, chunk_size_buffer>>
    /\ UNCHANGED <<in_header, buffer_size, ragged>>

(* The rest of the chunk and its CRLF are received.                        *)
TakePart ==
    /\ ChunkLine /\ ~Whole /\ Behind <= ChunkSize /\ conn = "used"
    /\ body' = body \o Data(Behind) \o Piece(ChunkSize - Behind)
    /\ read' = read + ChunkSize - Behind + 2
    /\ at' = at + LineLen(Text) + Behind
    /\ already_received' = 0
    /\ UNCHANGED <<serverVars, conn, losses, pc, header_buffer>>
    /\ UNCHANGED <<chunk_size_buffer, in_header, buffer_size, ragged>>

(* A recv of the header, of a line or of the rest of a chunk fails.        *)
ReceiveFails ==
    /\ \/ pc = "header"
       \/ pc = "size" /\ Lines(Text) = {}
       \/ ChunkLine /\ ~Whole /\ Behind <= ChunkSize
    /\ Fail

(* The size is taken from bytes of an earlier recv, or the counts of       *)
(* memcpy and recv_all become negative.  What follows depends on data and  *)
(* memory and is left open.                                                *)
GoAstray ==
    /\ pc = "size" /\ Lines(Text) # {}
    /\ LineReceived => ChunkSize > 0 /\ ~Whole /\ Behind > ChunkSize
    /\ pc' = "astray"
    /\ UNCHANGED <<serverVars, read, conn, losses, dataVars>>

LastChunk ==
    /\ pc = "size" /\ Lines(Text) # {} /\ LineReceived /\ ChunkSize = 0
    /\ pc' = "final"
    /\ UNCHANGED <<serverVars, read, conn, losses, dataVars>>

(* The last CRLF stands behind the last size.                              *)
FinalThere == Lines(SubSeq(Text, 4, Len(Text))) # {}

Final ==
    /\ pc = "final" /\ FinalThere
    /\ Return
    /\ UNCHANGED <<serverVars, read, losses, dataVars>>

(* The last CRLF, or a part of it, is received; the result is not tested.  *)
ReceiveFinal(n) ==
    /\ pc = "final" /\ ~FinalThere
    /\ \/ conn = "lost" /\ n = 0
       \/ conn = "used" /\ n \in Counts(8)
    /\ read' = read + n
    /\ ragged' = (ragged \/ (n > 0 /\ Cuts(n)))
    /\ Return
    /\ UNCHANGED <<serverVars, losses, header_buffer, chunkVars, body, buffer_size>>

-----------------------------------------------------------------------------
(***************************************************************************)
(* Until the connection ends.                                              *)
(***************************************************************************)

(* Faulty: the buffer is not enlarged.                                     *)
GrownNever(length) == buffer_size

(* buffer_size once length bytes are in the buffer.                        *)
Grown(length) == IF length = buffer_size THEN buffer_size + buffer_size \div 2 ELSE buffer_size

ReceiveMore(n) ==
    /\ pc = "until" /\ conn = "used"
    /\ n \in Counts(buffer_size - Len(body))
    /\ body' = body \o Piece(n)
    /\ read' = read + n
    /\ buffer_size' = Grown(Len(body) + n)
    /\ UNCHANGED <<serverVars, conn, losses, pc, header_buffer, chunkVars, ragged>>

(* The server has closed the connection.                                   *)
EndOfStream ==
    /\ pc = "until" /\ conn = "used" /\ Remaining = 0
    /\ Return
    /\ UNCHANGED <<serverVars, read, losses, dataVars>>

(* The connection is lost.  TLS tells this from its end; without TLS the   *)
(* assertion finds out, unless the error is reported only once.            *)
StreamLost ==
    /\ pc = "until" /\ conn = "lost"
    /\ \/ is_ssl /\ Retry
       \/ /\ ~is_ssl
          /\ \/ Return
             \/ pc' = "aborted" /\ UNCHANGED conn
          /\ UNCHANGED <<serverVars, read, losses, dataVars>>

-----------------------------------------------------------------------------

Step ==
    \/ Write \/ WriteFails \/ TlsFails
    \/ \E n \in 1 .. HeaderSpace : ReceiveHeader(n)
    \/ ReceiveFails \/ ReceiveRest
    \/ \E n \in 1 .. SizeSpace : ReceiveSize(n)
    \/ TakeWhole \/ TakePart \/ GoAstray \/ LastChunk
    \/ Final \/ \E n \in 0 .. 8 : ReceiveFinal(n)
    \/ \E n \in 1 .. buffer_size : ReceiveMore(n)
    \/ EndOfStream \/ StreamLost

Next == Step \/ Lose \/ (Ended /\ UNCHANGED vars)

Spec == Init /\ [][Next]_vars

(* The thread runs on, and what the server has sent arrives.               *)
FairSpec == Spec /\ WF_vars(Step)

-----------------------------------------------------------------------------

(* Every variable has its type; positions and counts stay within their     *)
(* buffers.                                                                *)
TypeOK ==
    /\ read \in 0 .. Len(wire)
    /\ conn \in {"fresh", "used", "lost"}
    /\ losses \in 0 .. MaxLosses
    /\ pc \in {"write", "header", "rest", "size", "final", "until",
               "returned", "null", "exited", "aborted", "astray"}
    /\ header_buffer \in Seq(Int) /\ Len(header_buffer) <= HeaderSpace
    /\ chunk_size_buffer \in [1 .. SizeSpace + 1 -> Int]
    /\ chunk_size_buffer[SizeSpace + 1] = NUL
    /\ at \in 1 .. HeaderSpace + 1
    /\ already_received \in 0 .. HeaderSpace
    /\ pc \in {"size", "final"} => at + already_received <= Len(Buffer)
    /\ body \in Seq(Int)
    /\ buffer_size \in Nat

(* The body returned is the body sent, however the stream was cut into     *)
(* pieces (socket_utils.c:211-284), except for a body that ends with a     *)
(* plain connection which was lost, where "there is no way to know         *)
(* everything was received" (line 256).  What may follow once the framing  *)
(* is lost is left open (see GoAstray).                                    *)
BodyRight ==
    pc = "returned" =>
        body = msg.content \/ (msg.kind = "close" /\ ~is_ssl /\ losses > 0)

(* When a body was returned the connection can be used for the next        *)
(* request: it is new, or the server keeps it open and nothing of this     *)
(* answer is left in it (socket_utils.c:240-254, 283).  A connection lost  *)
(* in the end is found out by the next request.                            *)
InSync ==
    pc = "returned" /\ ~ragged =>
        conn = "fresh" \/ (~msg.close /\ (conn = "used" => Remaining = 0))

(* No chunk size is read from bytes of an earlier recv and no count turns  *)
(* negative, as long as no recv ends between the carriage return and the   *)
(* line feed after a chunk or leaves the buffer for the size short while   *)
(* more is to come (socket_utils.c:223-247); positions and counts stay     *)
(* within their buffers in any case.                                       *)
FramingKept == TypeOK /\ (pc = "astray" => ragged)

(* A connection lost behind the last byte of an answer does not cost the   *)
(* answer: NULL, on which a worker ends the program, is returned only      *)
(* while bytes of it were still to come, also for an empty body, for the   *)
(* last CRLF of a chunked one and after a second request (socket_utils.c:  *)
(* 199, 211-254).                                                          *)
ReceivedIsKept == pc = "null" => Remaining > 0

(* There is room whenever recv is called: asked for no bytes it would      *)
(* return zero, which is taken for the end of the stream (socket_utils.c:  *)
(* 263-269).                                                               *)
RoomToReceive == pc = "until" => Len(body) < buffer_size

(* receive_http_body returns or ends the program, though it calls itself   *)
(* again after a loss.                                                     *)
Returns == <>Ended

(* "assume we get everything here" (socket_utils.c:253): after the recv    *)
(* for the last CRLF nothing of a chunked answer is left in the stream.    *)
FinalReceived ==
    [][pc = "final" /\ conn = "used" /\ pc' = "returned" => read' = Len(wire)]_vars

=============================================================================
