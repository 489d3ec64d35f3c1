--------------------------- MODULE MCHttpReceive ---------------------------
(***************************************************************************)
(* Answers for model checking HttpReceive.  With a buffer of 8 bytes for   *)
(* the size of a chunk, chunks of 1 to 6 bytes fit whole, end at the end   *)
(* of the buffer, end beyond it, or share it with the next chunk.          *)
(***************************************************************************)
EXTENDS HttpReceive

(* The n-th byte of a body of the given length is n.                       *)
Content(length) == [n \in 1 .. length |-> n]

(* A byte of the header.                                                   *)
HDR == -3

Header == [n \in 1 .. HeaderLen |-> HDR]

Total(sizes) ==
    LET upTo[n \in 0 .. Len(sizes)] == IF n = 0 THEN 0 ELSE upTo[n - 1] + sizes[n]
    IN  upTo[Len(sizes)]

(* Chunks of these sizes, framed, and the last chunk.                      *)
Framed(sizes) ==
    LET chunk(n, first) ==
            <<Digits(sizes[n]), CR, LF>> \o [i \in 1 .. sizes[n] |-> first + i] \o <<CR, LF>>
        upTo[n \in 0 .. Len(sizes)] ==
            IF n = 0 THEN <<>>
            ELSE upTo[n - 1] \o chunk(n, Total(SubSeq(sizes, 1, n - 1)))
    IN  upTo[Len(sizes)] \o <<Digits(0), CR, LF, CR, LF>>

Chunked(sizes, close) ==
    [kind |-> "chunked", close |-> close,
     content |-> Content(Total(sizes)), wire |-> Header \o Framed(sizes)]

Plain(kind, length, close) ==
    [kind |-> kind, close |-> close,
     content |-> Content(length), wire |-> Header \o Content(length)]

MCChunked ==
    LET sizes == UNION {[1 .. n -> {1, 3, 4, 6}] : n \in 0 .. 2} \cup [1 .. 3 -> {1, 6}]
    IN  {Chunked(s, close) : s \in sizes, close \in BOOLEAN}

MCAnswers ==
    {Plain(kind, length, close) :
        kind \in {"length", "close"}, length \in {0, 1, 9, 20}, close \in BOOLEAN}
    \cup {Chunked(<<3, 1>>, close) : close \in BOOLEAN}

(* All kinds of body.                                                      *)
MCAll == MCAnswers \cup MCChunked

MCFinal == {Chunked(<<4>>, FALSE)}

=============================================================================
