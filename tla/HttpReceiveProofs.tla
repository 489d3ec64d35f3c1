------------------------- MODULE HttpReceiveProofs -------------------------
(***************************************************************************)
(* Proofs about HttpReceive for all answers, sizes of the buffers and ways *)
(* in which the stream is cut into pieces.                                 *)
(*                                                                         *)
(* For a body that is not chunked the argument is that what was received   *)
(* is always a prefix of the answer: the header buffer holds the first     *)
(* read bytes until the header is complete, then body holds those behind   *)
(* the header (Prefix).  At the end of the loops the prefix is all.        *)
(*                                                                         *)
(* For a chunked body the argument is that the text start_of_chunk points  *)
(* to always begins with the bytes received from the beginning of a chunk  *)
(* on, and that body is what the chunks before it brought (AtFrame).  A    *)
(* line is complete exactly when three of its bytes were received, so a    *)
(* CRLF found without them stands in bytes left over, which takes a recv   *)
(* that was short.                                                         *)
(***************************************************************************)
EXTENDS HttpReceive, SequenceTheorems, FiniteSetTheorems, Induction

Simple == msg.kind # "chunked"

(* Losses are counted.                                                     *)
Losses ==
    /\ losses \in Nat
    /\ conn = "lost" => losses > 0

(* The kind of body decides how it is received.                            *)
Branches ==
    /\ msg \in Messages
    /\ pc = "rest" => msg.kind = "length"
    /\ pc \in {"size", "final"} => msg.kind = "chunked"
    /\ pc = "until" => msg.kind = "close"

Prefix ==
    Simple =>
        /\ read \in 0 .. Len(wire)
        /\ pc = "write" => read = 0
        /\ pc = "header" => read < HeaderLen /\ header_buffer = SubSeq(wire, 1, read)
        /\ pc \in {"rest", "until"} =>
              HeaderLen <= read /\ body = SubSeq(wire, HeaderLen + 1, read)
        /\ pc = "rest" => already_received = read - HeaderLen

Space ==
    pc = "until" => buffer_size \in Nat /\ buffer_size >= 2 /\ Len(body) < buffer_size

(* A body that is not chunked is right when it is returned.                *)
Finished ==
    Simple /\ pc = "returned" =>
        body = msg.content \/ (msg.kind = "close" /\ ~is_ssl /\ losses > 0)

IndInv == Losses /\ Branches /\ Prefix /\ Space /\ Finished

(* Bytes received are appended to those received before.                   *)
LEMMA Appended ==
    ASSUME NEW w \in Seq(Int), NEW a \in 1 .. Len(w) + 1, NEW r \in a - 1 .. Len(w),
           NEW n \in 0 .. Len(w) - r
    PROVE  SubSeq(w, a, r) \o SubSeq(w, r + 1, r + n) = SubSeq(w, a, r + n)
<1>1. r + n \in r .. Len(w)
  OBVIOUS
<1>. QED
  BY <1>1, ConcatAdjacentSubSeq

(* The same behind the first h bytes, for the end e of what is received.   *)
LEMMA AppendedBehind ==
    ASSUME NEW w \in Seq(Int), NEW r \in 0 .. Len(w), NEW h \in 0 .. r, NEW e \in r .. Len(w)
    PROVE  SubSeq(w, h + 1, r) \o SubSeq(w, r + 1, e) = SubSeq(w, h + 1, e)
<1>1. h + 1 \in 1 .. Len(w) + 1 /\ r \in (h + 1) - 1 .. Len(w)
  OBVIOUS
<1> DEFINE a == h + 1
<1>2. a \in 1 .. Len(w) + 1 /\ r \in a - 1 .. Len(w)
  BY <1>1
<1> HIDE DEF a
<1>3. SubSeq(w, a, r) \o SubSeq(w, r + 1, e) = SubSeq(w, a, e)
  BY <1>2, ConcatAdjacentSubSeq
<1>. QED
  BY <1>3 DEF a

(* The bytes behind the first h of a prefix.                               *)
LEMMA BehindHeader ==
    ASSUME NEW w \in Seq(Int), NEW r \in 0 .. Len(w), NEW h \in 1 .. r
    PROVE  /\ Len(SubSeq(w, 1, r)) = r
           /\ SubSeq(SubSeq(w, 1, r), h + 1, r) = SubSeq(w, h + 1, r)
           /\ Len(SubSeq(w, h + 1, r)) = r - h
<1>1. \A i \in 1 .. r : w[i] \in Int
  OBVIOUS
<1>2. Len(SubSeq(w, 1, r)) = r
  BY <1>1, SubSeqProperties
<1>3. Len(SubSeq(w, h + 1, r)) = r - h
  <2>1. \A i \in h + 1 .. r : w[i] \in Int
    OBVIOUS
  <2>. QED
    BY <2>1, SubSeqProperties
<1>4. SubSeq(SubSeq(w, 1, r), h + 1, r) = SubSeq(w, h + 1, r)
  <2>1. CASE h = r
    BY <2>1, SubSeqEmpty
  <2>2. CASE h < r
    <3>1. 1 \in 1 .. Len(w) /\ r \in 1 .. Len(w)
          /\ h + 1 \in 1 .. r - 1 + 1 /\ r \in 1 .. r - 1 + 1
          /\ 1 + (h + 1) - 1 = h + 1 /\ 1 + r - 1 = r
      BY <2>2
    <3>. QED
      BY <3>1, SubSeqOfSubSeq
  <2>. QED
    BY <2>1, <2>2
<1>. QED
  BY <1>2, <1>3, <1>4

(* The header buffer holds what was received of the answer.                *)
LEMMA HeaderGrows ==
    ASSUME wire \in Seq(Int), read \in 0 .. Len(wire), header_buffer = SubSeq(wire, 1, read),
           NEW n \in 1 .. HeaderSpace, ReceiveHeader(n)
    PROVE  /\ header_buffer' = SubSeq(wire, 1, read + n) /\ Len(header_buffer') = read + n
           /\ n \in 1 .. Len(wire) - read /\ read + n \in 1 .. Len(wire) /\ read + n <= HeaderSpace
<1>1. PICK w \in Seq(Int), l \in Nat, e \in Nat : w = wire /\ l = Len(w) /\ e = read /\ e <= l
  <2>1. Len(wire) \in Nat
    OBVIOUS
  <2>. QED
    BY <2>1
<1>h. HeaderSpace \in Nat
  BY HeaderAssumption
<1>2. n \in Counts(HeaderSpace - Len(header_buffer)) /\ header_buffer' = header_buffer \o Piece(n)
  BY DEF ReceiveHeader
<1>3. Len(header_buffer) = e
  <2>1. \A i \in 1 .. e : w[i] \in Int
    BY <1>1
  <2>. QED
    BY <1>1, <2>1, SubSeqProperties
<1>4. n \in 1 .. l - e /\ e + n <= HeaderSpace
  BY <1>1, <1>2, <1>3, <1>h DEF Counts, AtMost, Remaining
<1>5. e + n \in 1 .. l
  BY <1>4
<1>6. header_buffer' = SubSeq(w, 1, e + n)
  <2>1. 1 \in 1 .. Len(w) + 1 /\ e \in 1 - 1 .. Len(w) /\ n \in 0 .. Len(w) - e
    BY <1>1, <1>4
  <2>2. SubSeq(w, 1, e) \o SubSeq(w, e + 1, e + n) = SubSeq(w, 1, e + n)
    BY <2>1, Appended
  <2>. QED
    BY <1>1, <1>2, <2>2 DEF Piece
<1>7. Len(header_buffer') = e + n
  <2>1. \A i \in 1 .. e + n : w[i] \in Int
    BY <1>1, <1>5
  <2>. QED
    BY <1>5, <1>6, <2>1, SubSeqProperties
<1>. QED
  BY <1>1, <1>4, <1>5, <1>6, <1>7

(* The initial states satisfy the invariant.                               *)
LEMMA InitInv == Init => IndInv
<1> SUFFICES ASSUME Init PROVE IndInv
  OBVIOUS
<1>1. wire \in Seq(Int)
  BY MessagesAssumption DEF Init, wire
<1>. QED
  BY <1>1 DEF Init, IndInv, Losses, Branches, Prefix, Space, Finished

(* Every step preserves the invariant.                                     *)
LEMMA NextInv == IndInv /\ [Next]_vars => IndInv'
<1> SUFFICES ASSUME IndInv, [Next]_vars PROVE IndInv'
  OBVIOUS
<1>a. msg \in Messages /\ wire \in Seq(Int) /\ msg.content \in Seq(Int)
  BY MessagesAssumption DEF IndInv, Branches, wire
<1>b. Simple => /\ Len(wire) = HeaderLen + Len(msg.content)
                /\ msg.content = SubSeq(wire, HeaderLen + 1, Len(wire))
  BY <1>a, MessagesAssumption DEF Simple, wire
<1>c. Len(wire) \in Nat /\ Len(msg.content) \in Nat
  BY <1>a
<1>h. HeaderLen \in Nat /\ HeaderSpace \in Nat /\ HeaderLen >= 1 /\ HeaderLen <= HeaderSpace
      /\ HeaderSpace >= 2
  BY HeaderAssumption
<1> USE DEF IndInv
<1>1. CASE UNCHANGED vars
  BY <1>1 DEF vars, serverVars, dataVars, chunkVars, Losses, Branches, Prefix, Space,
              Finished, Simple, wire
<1>2. CASE Lose
  BY <1>2 DEF Lose, Ended, serverVars, dataVars, chunkVars, Losses, Branches, Prefix,
              Space, Finished, Simple, wire
<1>3. ASSUME Fail PROVE IndInv'
  BY <1>3 DEF Fail, AfterLoss, serverVars, dataVars, chunkVars, Losses, Branches,
              Prefix, Space, Finished, Simple, wire
<1>4. ASSUME Retry PROVE IndInv'
  BY <1>4, <1>a DEF Retry, refresh_connection, serverVars, dataVars, chunkVars, Losses,
              Branches, Prefix, Space, Finished, Simple, wire
<1>5. CASE Write
  <2>1. SubSeq(wire, 1, 0) = <<>>
    BY SubSeqEmpty
  <2>. QED
    BY <1>5, <1>h, <2>1 DEF Write, serverVars, dataVars, chunkVars, Losses, Branches,
              Prefix, Space, Finished, Simple, wire
<1>6. ASSUME NEW n \in 1 .. HeaderSpace, ReceiveHeader(n) PROVE IndInv'
  <2>1. Losses' /\ Branches'
    BY <1>6, <1>a, MessagesAssumption
       DEF ReceiveHeader, serverVars, Losses, Branches, Kinds
  <2>2. CASE ~Simple
    <3>1. ~Simple' /\ msg.kind = "chunked" /\ pc' \in {"header", "size"}
      BY <1>6, <2>2 DEF ReceiveHeader, serverVars, Simple
    <3>. QED
      BY <2>1, <3>1 DEF Prefix, Space, Finished
  <2>3. CASE Simple
    <3>0. /\ pc = "header" /\ read' = read + n /\ msg' = msg /\ is_ssl' = is_ssl
          /\ n \in Counts(HeaderSpace - Len(header_buffer))
          /\ header_buffer' = header_buffer \o Piece(n)
      BY <1>6 DEF ReceiveHeader, serverVars
    <3>1. read \in 0 .. Len(wire) /\ header_buffer = SubSeq(wire, 1, read)
      BY <2>3, <3>0 DEF Prefix
    <3>2. /\ header_buffer' = SubSeq(wire, 1, read + n) /\ Len(header_buffer') = read + n
          /\ n \in 1 .. Len(wire) - read /\ read + n \in 1 .. Len(wire) /\ read + n <= HeaderSpace
      BY <1>6, <1>a, <3>1, HeaderGrows
    <3>3. n \in 0 .. Len(wire) - read /\ read + n <= HeaderSpace
      BY <1>c, <3>2
    <3>4. header_buffer' = SubSeq(wire, 1, read + n)
      BY <3>2
    <3>5. read + n \in 0 .. Len(wire)
      BY <1>c, <3>2
    <3>6. Len(header_buffer') = read + n
      BY <3>2
    <3>7. CASE read + n < HeaderLen
      <4>1. pc' = pc
        BY <1>6, <3>6, <3>7 DEF ReceiveHeader
      <4>2. wire' = wire /\ Simple'
        BY <2>3, <3>0 DEF wire, Simple
      <4>. QED
        BY <2>1, <3>0, <3>4, <3>5, <3>7, <4>1, <4>2 DEF Prefix, Space, Finished
    <3>8. CASE HeaderLen <= read + n
      <4>0. /\ already_received' = (read + n) - HeaderLen
            /\ buffer_size' = HeaderSpace + HeaderSpace \div 2
            /\ body' = SubSeq(header_buffer', HeaderLen + 1, read + n)
            /\ pc' \in {"rest", "until", "aborted"}
        <5>1. ~(Len(header_buffer') < HeaderLen)
          BY <1>h, <3>1, <3>3, <3>6, <3>8
        <5>2. /\ already_received' = Len(header_buffer') - HeaderLen
              /\ buffer_size' = HeaderSpace + HeaderSpace \div 2
              /\ body' = FirstPart(header_buffer')
          BY <1>6, <2>3, <5>1 DEF ReceiveHeader, Simple
        <5>3. pc' \in {"rest", "until", "aborted"}
          BY <1>6, <2>3, <5>1 DEF ReceiveHeader, Simple
        <5>. QED
          BY <3>6, <5>2, <5>3 DEF FirstPart
      <4>1. HeaderLen \in 1 .. read + n
        BY <1>h, <3>5, <3>8
      <4>2. body' = SubSeq(wire, HeaderLen + 1, read + n) /\ Len(body') = (read + n) - HeaderLen
        <5> DEFINE r == read + n
        <5>1. r \in 0 .. Len(wire) /\ HeaderLen \in 1 .. r
          BY <3>5, <4>1
        <5>2. header_buffer' = SubSeq(wire, 1, r) /\ body' = SubSeq(header_buffer', HeaderLen + 1, r)
          BY <3>4, <4>0
        <5> HIDE DEF r
        <5>3. body' = SubSeq(wire, HeaderLen + 1, r) /\ Len(body') = r - HeaderLen
          BY <1>a, <5>1, <5>2, BehindHeader
        <5>. QED
          BY <5>3 DEF r
      <4>3. wire' = wire /\ Simple'
        BY <2>3, <3>0 DEF wire, Simple
      <4>4. Prefix'
        BY <1>h, <3>0, <3>5, <3>8, <4>0, <4>2, <4>3 DEF Prefix
      <4>5. HeaderSpace \div 2 \in Nat
        BY <1>h
      <4>6. buffer_size' \in Nat /\ buffer_size' >= 2 /\ Len(body') < buffer_size'
        BY <1>h, <3>3, <3>5, <4>0, <4>1, <4>2, <4>5
      <4>. QED
        BY <2>1, <4>0, <4>4, <4>6 DEF Space, Finished
    <3>. QED
      BY <1>h, <3>5, <3>7, <3>8
  <2>. QED
    BY <2>2, <2>3
<1>7. CASE ReceiveRest
  <2>1. /\ pc = "rest" /\ msg' = msg /\ losses' = losses /\ is_ssl' = is_ssl
        /\ Simple /\ msg.kind = "length"
    BY <1>7 DEF ReceiveRest, serverVars, Branches, Simple
  <2>2. read \in 0 .. Len(wire) /\ HeaderLen <= read /\ already_received = read - HeaderLen
        /\ body = SubSeq(wire, HeaderLen + 1, read)
    BY <2>1 DEF Prefix
  <2> DEFINE n == Len(msg.content) - already_received
  <2>3. read + n = Len(wire) /\ n \in 0 .. Len(wire) - read
    <3>1. Len(wire) = HeaderLen + Len(msg.content)
      BY <1>b, <2>1
    <3>. QED
      BY <1>c, <1>h, <2>2, <3>1
  <2>4. wire' = wire /\ Simple'
    BY <2>1 DEF wire, Simple
  <2>5. CASE recv_all_fails(n)
    <3>1. pc' = "null" /\ read' = read /\ conn' = conn /\ losses > 0
      BY <1>7, <2>5 DEF ReceiveRest, recv_all_fails, Losses
    <3>. QED
      BY <2>1, <2>2, <2>4, <3>1 DEF Losses, Branches, Prefix, Space, Finished
  <2>6. CASE ~recv_all_fails(n)
    <3>1. read' = read + n /\ body' = body \o Piece(n) /\ Return
      BY <1>7, <2>6 DEF ReceiveRest
    <3>2. body' = msg.content
      <4>1. HeaderLen \in 0 .. read /\ Len(wire) \in read .. Len(wire)
        BY <1>c, <1>h, <2>2
      <4>2. SubSeq(wire, HeaderLen + 1, read) \o SubSeq(wire, read + 1, Len(wire))
              = SubSeq(wire, HeaderLen + 1, Len(wire))
        BY <1>a, <2>2, <4>1, AppendedBehind
      <4>3. body' = body \o SubSeq(wire, read + 1, Len(wire))
        BY <2>3, <3>1 DEF Piece
      <4>. QED
        BY <1>b, <2>1, <2>2, <4>2, <4>3
    <3>3. read' \in 0 .. Len(wire)
      BY <1>c, <2>3, <3>1
    <3>4. pc' \in {"returned", "exited"} /\ (conn' = conn \/ conn' = "fresh")
      BY <3>1 DEF Return, refresh_connection
    <3>. QED
      BY <2>1, <2>4, <3>2, <3>3, <3>4 DEF Losses, Branches, Prefix, Space, Finished
  <2>. QED
    BY <2>5, <2>6
(* The steps that receive a chunked body.                                  *)
<1>8. ASSUME ~Simple, msg' = msg, losses' = losses, conn' \in {conn, "fresh"},
             pc' \in {"size", "final", "astray", "returned", "exited"}
      PROVE  IndInv'
  BY <1>8 DEF Losses, Branches, Prefix, Space, Finished, Simple
<1>9. ASSUME pc \in {"size", "final"}, msg' = msg, losses' = losses, conn' \in {conn, "fresh"},
             pc' \in {"size", "final", "astray", "returned", "exited"}
      PROVE  IndInv'
  <2>1. ~Simple
    BY <1>9 DEF Branches, Simple
  <2>. QED
    BY <1>8, <1>9, <2>1
<1>10. CASE (\E n \in 1 .. SizeSpace : ReceiveSize(n)) \/ TakeWhole \/ TakePart
            \/ GoAstray \/ LastChunk
  BY <1>9, <1>10 DEF ReceiveSize, TakeWhole, TakePart, GoAstray, LastChunk,
                     ChunkLine, serverVars
<1>11. CASE Final \/ \E n \in 0 .. 8 : ReceiveFinal(n)
  BY <1>9, <1>11 DEF Final, ReceiveFinal, Return, refresh_connection, serverVars
<1>12. ASSUME NEW n \in 1 .. buffer_size, ReceiveMore(n) PROVE IndInv'
  <2>0. /\ pc = "until" /\ pc' = pc /\ msg' = msg /\ is_ssl' = is_ssl
        /\ conn' = conn /\ losses' = losses
        /\ n \in Counts(buffer_size - Len(body))
        /\ body' = body \o Piece(n) /\ read' = read + n /\ buffer_size' = Grown(Len(body) + n)
    BY <1>12 DEF ReceiveMore, serverVars
  <2>1. Simple
    BY <2>0 DEF Branches, Simple
  <2>2. read \in 0 .. Len(wire) /\ HeaderLen <= read
        /\ body = SubSeq(wire, HeaderLen + 1, read)
    BY <2>0, <2>1 DEF Prefix
  <2>3. buffer_size \in Nat /\ buffer_size >= 2 /\ Len(body) < buffer_size
    BY <2>0 DEF Space
  <2>4. Len(body) = read - HeaderLen
    <3>1. HeaderLen \in 1 .. read
      BY <1>h, <2>2
    <3>. QED
      BY <1>a, <2>2, <3>1, BehindHeader
  <2>5. n \in 0 .. Len(wire) - read /\ Len(body) + n <= buffer_size
    BY <1>c, <1>h, <2>0, <2>2, <2>3, <2>4 DEF Counts, AtMost, Remaining
  <2>6. body' = SubSeq(wire, HeaderLen + 1, read + n)
    <3> DEFINE e == read + n
    <3>1. HeaderLen \in 0 .. read /\ e \in read .. Len(wire)
      BY <1>c, <1>h, <2>2, <2>5
    <3>2. body' = SubSeq(wire, HeaderLen + 1, read) \o SubSeq(wire, read + 1, e)
      BY <2>0, <2>2 DEF Piece
    <3> HIDE DEF e
    <3>3. body' = SubSeq(wire, HeaderLen + 1, e)
      BY <1>a, <2>2, <3>1, <3>2, AppendedBehind
    <3>. QED
      BY <3>3 DEF e
  <2>7. read + n \in 0 .. Len(wire) /\ HeaderLen \in 1 .. read + n
    BY <1>c, <1>h, <2>2, <2>5
  <2>8. Len(body') = (read + n) - HeaderLen
    <3> DEFINE r == read + n
    <3>1. r \in 0 .. Len(wire) /\ HeaderLen \in 1 .. r /\ body' = SubSeq(wire, HeaderLen + 1, r)
      BY <2>6, <2>7
    <3> HIDE DEF r
    <3>2. Len(body') = r - HeaderLen
      BY <1>a, <3>1, BehindHeader
    <3>. QED
      BY <3>2 DEF r
  <2>9. wire' = wire /\ Simple'
    BY <2>0, <2>1 DEF wire, Simple
  <2>10. Prefix'
    BY <1>h, <2>0, <2>6, <2>7, <2>9 DEF Prefix
  <2>11. buffer_size' \in Nat /\ buffer_size' >= 2 /\ Len(body') < buffer_size'
    <3>1. buffer_size \div 2 \in Nat /\ buffer_size \div 2 >= 1
      BY <2>3
    <3>2. Len(body') = Len(body) + n /\ Len(body) + n \in Nat
      BY <1>h, <2>2, <2>4, <2>5, <2>8
    <3>3. CASE Len(body) + n = buffer_size
      BY <2>0, <2>3, <3>1, <3>2, <3>3 DEF Grown
    <3>4. CASE Len(body) + n # buffer_size
      BY <2>0, <2>3, <2>5, <3>2, <3>4 DEF Grown
    <3>. QED
      BY <3>3, <3>4
  <2>12. Losses' /\ Branches' /\ Finished'
    BY <2>0 DEF Losses, Branches, Finished
  <2>. QED
    BY <2>10, <2>11, <2>12 DEF Space
<1>13. CASE EndOfStream
  <2>0. /\ pc = "until" /\ msg' = msg /\ is_ssl' = is_ssl /\ losses' = losses
        /\ read' = read /\ body' = body /\ Return /\ Remaining = 0
    BY <1>13 DEF EndOfStream, serverVars, dataVars
  <2>1. Simple
    BY <2>0 DEF Branches, Simple
  <2>2. read \in 0 .. Len(wire) /\ body = SubSeq(wire, HeaderLen + 1, read)
    BY <2>0, <2>1 DEF Prefix
  <2>3. read = Len(wire)
    BY <1>c, <2>0, <2>2 DEF Remaining
  <2>4. body' = msg.content
    BY <1>b, <2>0, <2>1, <2>2, <2>3
  <2>5. pc' \in {"returned", "exited"} /\ (conn' = conn \/ conn' = "fresh")
    BY <2>0 DEF Return, refresh_connection
  <2>6. wire' = wire
    BY <2>0 DEF wire
  <2>. QED
    BY <2>0, <2>2, <2>4, <2>5, <2>6 DEF Losses, Branches, Prefix, Space, Finished
<1>14. CASE StreamLost
  <2>1. CASE is_ssl /\ Retry
    BY <1>4, <2>1
  <2>2. CASE ~is_ssl
    <3> USE <1>14, <2>2 DEF StreamLost, serverVars, dataVars
    <3>1. Simple /\ msg.kind = "close" /\ losses > 0 /\ read \in 0 .. Len(wire)
      BY DEF Branches, Simple, Losses, Prefix
    <3>2. pc' \in {"returned", "exited", "aborted"} /\ (conn' = conn \/ conn' = "fresh")
      BY DEF Return, refresh_connection
    <3>. QED
      BY <3>1, <3>2 DEF Losses, Branches, Prefix, Space, Finished, Simple, wire
  <2>. QED
    BY <1>14, <2>1, <2>2 DEF StreamLost
<1>15. CASE WriteFails
  BY <1>4, <1>15 DEF WriteFails
<1>16. CASE ReceiveFails
  BY <1>3, <1>16 DEF ReceiveFails
<1>17. CASE TlsFails
  BY <1>17 DEF TlsFails, serverVars, dataVars, Losses, Branches, Prefix, Space, Finished,
               Simple, wire
<1>. QED
  BY <1>1, <1>2, <1>5, <1>6, <1>7, <1>10, <1>11, <1>12, <1>13, <1>14, <1>15, <1>16, <1>17
     DEF Next, Step

(* The invariant holds in every reachable state.                           *)
LEMMA Invariance == Spec => []IndInv
  BY InitInv, NextInv, PTL DEF Spec

(* The buffer of a body of unknown length has room whenever recv is called *)
(* (socket_utils.c:263-269), for every size of the buffers.                *)
THEOREM RoomToReceiveAlways == Spec => []RoomToReceive
<1>1. IndInv => RoomToReceive
  BY DEF IndInv, Space, RoomToReceive
<1>. QED
  BY <1>1, Invariance, PTL

-----------------------------------------------------------------------------
(***************************************************************************)
(* Strings in the buffers, and lines in them.                              *)
(***************************************************************************)

(* A string ends at its first NUL.                                         *)
LEMMA StringLenOf ==
    ASSUME NEW t \in Seq(Int), t # <<>>, t[Len(t)] = NUL
    PROVE  /\ StringLen(t) \in 0 .. Len(t) - 1
           /\ t[StringLen(t) + 1] = NUL
           /\ \A m \in 1 .. StringLen(t) : t[m] # NUL
<1> DEFINE Ends(n) == t[n] = NUL /\ \A m \in 1 .. n - 1 : t[m] # NUL
           S == {n \in 1 .. Len(t) : t[n] = NUL}
<1>1. Len(t) \in Nat \ {0}
  OBVIOUS
<1>2. S \in SUBSET Nat /\ S # {}
  BY <1>1
<1>3. PICK x \in S : \A y \in S : x <= y
  BY <1>2, LeastOf
<1>4. x \in 1 .. Len(t) /\ Ends(x)
  BY <1>1, <1>3
<1>5. PICK c : c = CHOOSE n \in 1 .. Len(t) : Ends(n)
  OBVIOUS
<1> HIDE DEF Ends
<1>6. c \in 1 .. Len(t) /\ Ends(c)
  BY <1>4, <1>5
<1>7. StringLen(t) = c - 1
  BY <1>5 DEF StringLen, Ends
<1>8. c - 1 \in 0 .. Len(t) - 1 /\ (c - 1) + 1 = c
  BY <1>1, <1>6
<1>. QED
  BY <1>6, <1>7, <1>8 DEF Ends

(* Bytes other than NUL belong to the string, and a NUL ends it.           *)
LEMMA StringFrom ==
    ASSUME NEW t \in Seq(Int), t # <<>>, t[Len(t)] = NUL,
           NEW a \in Nat, a < Len(t), \A i \in 1 .. a : t[i] # NUL
    PROVE  a <= StringLen(t) /\ (t[a + 1] = NUL => StringLen(t) = a)
<1>1. PICK s \in Nat : s = StringLen(t) /\ t[s + 1] = NUL /\ \A m \in 1 .. s : t[m] # NUL
  BY StringLenOf
<1>2. a <= s
  <2> SUFFICES ASSUME s < a PROVE FALSE
    OBVIOUS
  <2>1. s + 1 \in 1 .. a
    BY <1>1
  <2>. QED
    BY <1>1, <2>1
<1>3. t[a + 1] = NUL => s <= a
  <2> SUFFICES ASSUME t[a + 1] = NUL, a < s PROVE FALSE
    BY <1>1
  <2>1. a + 1 \in 1 .. s
    BY <1>1
  <2>. QED
    BY <1>1, <2>1
<1>. QED
  BY <1>1, <1>2, <1>3

(* The first line ends at the first CRLF.                                  *)
LEMMA LineLenOf ==
    ASSUME NEW t \in Seq(Int), t # <<>>, t[Len(t)] = NUL, Lines(t) # {}
    PROVE  /\ LineLen(t) \in Nat /\ LineLen(t) - 1 \in Lines(t)
           /\ \A m \in Lines(t) : LineLen(t) - 1 <= m
<1>1. Lines(t) \in SUBSET Nat
  <2>1. StringLen(t) \in Nat
    BY StringLenOf
  <2>. QED
    BY <2>1 DEF Lines
<1>2. PICK x \in Lines(t) : \A y \in Lines(t) : x <= y
  BY <1>1, LeastOf
<1>3. PICK c : c = CHOOSE n \in Lines(t) : \A m \in Lines(t) : n <= m
  OBVIOUS
<1>4. c \in Lines(t) /\ \A m \in Lines(t) : c <= m
  BY <1>2, <1>3
<1>5. LineLen(t) = 1 + c /\ c \in Nat
  BY <1>1, <1>3, <1>4 DEF LineLen
<1>6. 1 + c \in Nat /\ (1 + c) - 1 = c
  BY <1>5
<1>. QED
  BY <1>4, <1>5, <1>6

-----------------------------------------------------------------------------
(***************************************************************************)
(* Chunks on the wire.                                                     *)
(***************************************************************************)

(* The bytes of a body before a place are counted by a natural number.     *)
LEMMA SentNat ==
    ASSUME NEW w, NEW p \in Nat
    PROVE  IsFiniteSet({q \in 1 .. p : w[q] > 0}) /\ SentBefore(w, p) \in Nat
<1>1. IsFiniteSet(1 .. p)
  BY FS_Interval
<1>2. IsFiniteSet({q \in 1 .. p : w[q] > 0})
  BY <1>1, FS_Subset
<1>. QED
  BY <1>2, FS_CardinalityType DEF SentBefore

(* A chunk adds its size to what was sent.                                 *)
LEMMA SentAfter ==
    ASSUME NEW w \in Seq(Int), NEW p \in Nat, NEW z \in Nat,
           \A i \in 1 .. z : w[p + 2 + i] > 0,
           ~(w[p + 1] > 0), ~(w[p + 2] > 0), ~(w[p + z + 3] > 0), ~(w[p + z + 4] > 0),
           ~(w[p + z + 5] > 0)
    PROVE  SentBefore(w, p + z + 5) = SentBefore(w, p) + z
<1> DEFINE A == {q \in 1 .. p : w[q] > 0}
           B == p + 3 .. p + z + 2
           C == {q \in 1 .. p + z + 5 : w[q] > 0}
<1>1. C = A \cup B
  <2>1. ASSUME NEW q \in C PROVE q \in A \cup B
    <3>1. q \in Nat /\ 1 <= q /\ q <= p + z + 5 /\ w[q] > 0
      OBVIOUS
    <3>2. q # p + 1 /\ q # p + 2 /\ q # p + z + 3 /\ q # p + z + 4 /\ q # p + z + 5
      BY <3>1
    <3>3. q <= p \/ (p + 3 <= q /\ q <= p + z + 2)
      BY <3>1, <3>2
    <3>. QED
      BY <3>1, <3>3
  <2>2. ASSUME NEW q \in A PROVE q \in C
    OBVIOUS
  <2>3. ASSUME NEW q \in B PROVE q \in C
    <3>1. q - p - 2 \in 1 .. z /\ p + 2 + (q - p - 2) = q /\ q \in 1 .. p + z + 5
      OBVIOUS
    <3>2. w[p + 2 + (q - p - 2)] > 0
      BY <3>1
    <3>. QED
      BY <3>1, <3>2
  <2>. QED
    BY <2>1, <2>2, <2>3
<1>2. IsFiniteSet(A) /\ Cardinality(A) = SentBefore(w, p) /\ SentBefore(w, p) \in Nat
  BY SentNat DEF SentBefore
<1>3. IsFiniteSet(B) /\ Cardinality(B) = z
  <2>1. p + 3 \in Int /\ p + z + 2 \in Int
    OBVIOUS
  <2>2. IsFiniteSet(B) /\ Cardinality(B) = IF p + 3 > p + z + 2 THEN 0 ELSE (p + z + 2) - (p + 3) + 1
    BY <2>1, FS_Interval
  <2>3. (IF p + 3 > p + z + 2 THEN 0 ELSE (p + z + 2) - (p + 3) + 1) = z
    OBVIOUS
  <2>. QED
    BY <2>2, <2>3
<1>4. A \cap B = {}
  OBVIOUS
<1>5. Cardinality(C) = SentBefore(w, p) + z
  <2>1. Cardinality(A \cup B) = Cardinality(A) + Cardinality(B) - Cardinality(A \cap B)
    BY <1>2, <1>3, FS_Union
  <2>2. Cardinality(A \cap B) = 0
    BY <1>4, FS_EmptySet
  <2> HIDE DEF A, B, C
  <2>. QED
    BY <1>1, <1>2, <1>3, <2>1, <2>2
<1>. QED
  BY <1>5 DEF SentBefore

(* What stands at the place of a size.                                     *)
LEMMA ChunkFacts ==
    ASSUME msg \in Messages, msg.kind = "chunked", NEW p \in Sizes(wire)
    PROVE  \E z \in Nat :
             /\ z = strtol(wire[p]) /\ p \in 1 .. Len(wire) /\ wire[p] = -10 - z
             /\ p + z + 4 <= Len(wire) /\ SentBefore(wire, p) \in Nat
             /\ wire[p + 1] = CR /\ wire[p + 2] = LF
             /\ wire[p + z + 3] = CR /\ wire[p + z + 4] = LF
             /\ \A i \in 1 .. z : /\ wire[p + 2 + i] > 0
                                  /\ wire[p + 2 + i] = msg.content[SentBefore(wire, p) + i]
             /\ z = 0 => p + 4 = Len(wire) /\ SentBefore(wire, p) = Len(msg.content)
             /\ z # 0 => /\ p + z + 5 \in Sizes(wire)
                         /\ SentBefore(wire, p + z + 5) = SentBefore(wire, p) + z
<1>1. PICK w \in Seq(Int) : w = wire
  BY MessagesAssumption DEF wire
<1>2. p \in 1 .. Len(w) /\ w[p] \in Int /\ w[p] <= -10
  BY <1>1 DEF Sizes, IsDigits, Digits
<1>a. p \in Nat
  <2>1. Len(w) \in Nat
    OBVIOUS
  <2>. QED
    BY <1>2, <2>1
<1>3. PICK z \in Nat : z = strtol(w[p]) /\ w[p] = -10 - z
  BY <1>2 DEF strtol
<1>4. ChunkAt(msg, p)
  BY FramingAssumption DEF wire
<1>5. PICK before : before = SentBefore(w, p)
  OBVIOUS
<1>6. /\ w[p + 1] = CR /\ w[p + 2] = LF
      /\ w[p + z + 3] = CR /\ w[p + z + 4] = LF
      /\ \A i \in 1 .. z : w[p + 2 + i] > 0 /\ w[p + 2 + i] = msg.content[before + i]
      /\ z = 0 => p + 4 = Len(w) /\ before = Len(msg.content)
      /\ z # 0 => p + z + 5 \in Sizes(w)
  BY <1>1, <1>3, <1>4, <1>5 DEF ChunkAt, wire
<1>7. before \in Nat
  BY <1>a, <1>5, SentNat
<1>8. p + z + 4 <= Len(w)
  <2>1. CASE z = 0
    BY <1>2, <1>6, <2>1
  <2>2. CASE z # 0
    <3>1. p + z + 5 \in 1 .. Len(w)
      BY SMTT(30), <1>6, <2>2 DEF Sizes
    <3>. QED
      BY <1>2, <3>1
  <2>. QED
    BY <2>1, <2>2
<1>9. z # 0 => SentBefore(w, p + z + 5) = before + z
  <2> SUFFICES ASSUME z # 0 PROVE SentBefore(w, p + z + 5) = before + z
    OBVIOUS
  <2>1. w[p + z + 5] \in Int /\ w[p + z + 5] <= -10
    BY <1>6 DEF Sizes, IsDigits, Digits
  <2>2. /\ ~(w[p + 1] > 0) /\ ~(w[p + 2] > 0) /\ ~(w[p + z + 3] > 0) /\ ~(w[p + z + 4] > 0)
        /\ ~(w[p + z + 5] > 0)
    BY <1>6, <2>1 DEF CR, LF
  <2>3. p \in Nat /\ \A i \in 1 .. z : w[p + 2 + i] > 0
    BY <1>a, <1>6
  <2>. QED
    BY <1>5, <2>2, <2>3, SentAfter
<1>. QED
  BY <1>1, <1>2, <1>3, <1>5, <1>6, <1>7, <1>8, <1>9

-----------------------------------------------------------------------------
(***************************************************************************)
(* The text begins with the bytes received from place p of the answer on,  *)
(* where a chunk begins; the body is what the chunks before it bring.      *)
(* Behind those bytes is a NUL or nothing is left to receive, and the last *)
(* one is not the CR after a chunk, unless ragged says so.                 *)
(***************************************************************************)
BodySoFar(p) ==
    Len(body) = SentBefore(wire, p) /\ \A i \in 1 .. Len(body) : body[i] = msg.content[i]

AtFrame(p) ==
    /\ p \in Sizes(wire) /\ already_received \in Nat
    /\ read = p + already_received - 1 /\ read <= Len(wire)
    /\ at \in Nat \ {0} /\ Buffer \in Seq(Int)
    /\ at + already_received <= Len(Buffer) /\ Buffer[Len(Buffer)] = NUL
    /\ in_header => at + already_received = Len(Buffer)
    /\ \A i \in 0 .. already_received - 1 : Buffer[at + i] = wire[p + i]
    /\ ~ragged => Buffer[at + already_received] = NUL \/ read = Len(wire)
    /\ ~ragged => ~(wire[read] = CR /\ ~IsDigits(wire[read - 1]))
    /\ BodySoFar(p)

(* The text.                                                               *)
LEMMA TextFacts ==
    ASSUME NEW p, AtFrame(p)
    PROVE  /\ Text \in Seq(Int) /\ Text # <<>> /\ Len(Text) \in Nat
           /\ Len(Text) = Len(Buffer) - at + 1 /\ already_received < Len(Text)
           /\ Text[Len(Text)] = NUL
           /\ \A i \in 1 .. already_received : Text[i] = wire[p + i - 1]
           /\ Text[already_received + 1] = Buffer[at + already_received]
<1>1. PICK b \in Seq(Int), a \in Nat \ {0}, r \in Nat, l \in Nat :
         b = Buffer /\ a = at /\ r = already_received /\ l = Len(b) /\ a + r <= l
  <2>1. Buffer \in Seq(Int) /\ at + already_received <= Len(Buffer)
    BY DEF AtFrame
  <2>2. Len(Buffer) \in Nat
    BY <2>1
  <2>. QED
    BY <2>1, <2>2 DEF AtFrame
<1>2. PICK t : t = Text
  OBVIOUS
<1>3. t = SubSeq(b, a, l)
  BY <1>1, <1>2 DEF Text
<1>4. \A i \in a .. l : b[i] \in Int
  BY <1>1
<1>5. t \in Seq(Int) /\ Len(t) = l - a + 1 /\ \A i \in 1 .. l - a + 1 : t[i] = b[a + i - 1]
  BY <1>1, <1>3, <1>4, SubSeqProperties
<1>6. r < l - a + 1 /\ l - a + 1 \in Nat /\ a + (l - a + 1) - 1 = l
  BY <1>1
<1>7. t[l - a + 1] = b[l] /\ t[r + 1] = b[a + r]
  <2>1. l - a + 1 \in 1 .. l - a + 1 /\ r + 1 \in 1 .. l - a + 1 /\ a + (r + 1) - 1 = a + r
    BY <1>1
  <2>. QED
    BY <1>5, <1>6, <2>1
<1>8. \A i \in 1 .. r : t[i] = wire[p + i - 1]
  <2> TAKE i \in 1 .. r
  <2>1. i \in 1 .. l - a + 1 /\ i - 1 \in 0 .. r - 1 /\ a + i - 1 = a + (i - 1)
    BY <1>6
  <2>2. b[a + (i - 1)] = wire[p + (i - 1)]
    BY <1>1, <2>1 DEF AtFrame
  <2>3. p + (i - 1) = p + i - 1
    <3>1. p \in Int
      BY DEF AtFrame, Sizes, wire
    <3>. QED
      BY <3>1
  <2>. QED
    BY <1>5, <2>1, <2>2, <2>3
<1>9. b[l] = NUL
  BY <1>1 DEF AtFrame
<1>. QED
  BY <1>1, <1>2, <1>5, <1>6, <1>7, <1>8, <1>9

(* Of the line of a size, what was received is seen.                       *)
LEMMA LineStart ==
    ASSUME msg \in Messages, msg.kind = "chunked", NEW p, AtFrame(p)
    PROVE  /\ already_received >= 1 => Text[1] = wire[p] /\ IsDigits(Text[1]) /\ Text[1] # CR
           /\ already_received >= 3 => 2 \in Lines(Text)
           /\ already_received < 3 => \A i \in 1 .. already_received : Text[i] # NUL
<1>1. PICK z \in Nat : wire[p] = -10 - z /\ wire[p + 1] = CR /\ wire[p + 2] = LF /\ p \in 1 .. Len(wire)
  BY ChunkFacts DEF AtFrame
<1>2. PICK t \in Seq(Int), r \in Nat :
         /\ t = Text /\ r = already_received /\ t # <<>> /\ r < Len(t) /\ t[Len(t)] = NUL
         /\ \A i \in 1 .. r : t[i] = wire[p + i - 1]
  BY TextFacts DEF AtFrame
<1>3. p \in Int
  BY <1>1
<1>4. r >= 1 => t[1] = wire[p]
  <2>1. p + 1 - 1 = p
    BY <1>3
  <2>. QED
    BY <1>2, <2>1
<1>5. r >= 2 => t[2] = CR
  <2>1. p + 2 - 1 = p + 1
    BY <1>3
  <2>. QED
    BY SMTT(30), <1>1, <1>2, <2>1
<1>6. r >= 3 => t[3] = LF
  <2>1. p + 3 - 1 = p + 2
    BY <1>3
  <2>. QED
    BY <1>1, <1>2, <2>1
<1>7. wire[p] # NUL /\ wire[p] # CR /\ IsDigits(wire[p]) /\ CR # NUL /\ LF # NUL
  BY <1>1 DEF NUL, CR, LF, IsDigits, Digits
<1>8. ASSUME r >= 3 PROVE 2 \in Lines(t)
  <2>1. \A i \in 1 .. 3 : t[i] # NUL
    <3> TAKE i \in 1 .. 3
    <3>1. i = 1 \/ i = 2 \/ i = 3
      OBVIOUS
    <3>. QED
      BY <1>4, <1>5, <1>6, <1>7, <1>8, <3>1
  <2>2. 3 < Len(t)
    BY <1>2, <1>8
  <2>a. t # <<>> /\ t[Len(t)] = NUL
    BY <1>2
  <2>b. 3 <= StringLen(t)
    BY <2>a, <2>1, <2>2, StringFrom
  <2>c. StringLen(t) \in Int
    BY <2>a, StringLenOf
  <2>3. 3 <= StringLen(t) /\ StringLen(t) \in Int
    BY <2>b, <2>c
  <2>4. 2 \in 1 .. StringLen(t) - 1
    BY <2>3
  <2>. QED
    BY <1>5, <1>6, <1>8, <2>4 DEF Lines
<1>9. ASSUME r < 3, NEW i \in 1 .. r PROVE t[i] # NUL
  <2>1. i = 1 \/ (i = 2 /\ r >= 2)
    BY <1>9
  <2>. QED
    BY <1>2, <1>4, <1>5, <1>7, <1>9, <2>1
<1>. QED
  BY <1>2, <1>4, <1>7, <1>8, <1>9

(* A line counts as received exactly when it was, and then it is the first *)
(* three bytes of the text.                                                *)
LEMMA LineKnown ==
    ASSUME msg \in Messages, msg.kind = "chunked", NEW p, AtFrame(p), Lines(Text) # {}
    PROVE  /\ LineReceived <=> already_received >= 3
           /\ already_received >= 3 => /\ LineLen(Text) = 3 /\ ChunkSize = strtol(wire[p])
                                       /\ Behind = already_received - 3
<1>1. PICK t \in Seq(Int), r \in Nat :
         t = Text /\ r = already_received /\ t # <<>> /\ t[Len(t)] = NUL
  BY TextFacts DEF AtFrame
<1>2. PICK l \in Nat : l = LineLen(t) /\ l - 1 \in Lines(t) /\ \A m \in Lines(t) : l - 1 <= m
  BY <1>1, LineLenOf
<1>3. l - 1 >= 1 /\ t[l - 1] = CR
  <2>1. StringLen(t) \in Nat
    BY <1>1, StringLenOf
  <2>. QED
    BY <1>2, <2>1 DEF Lines
<1>4. r >= 1 => t[1] = wire[p] /\ IsDigits(t[1]) /\ t[1] # CR
  BY <1>1, LineStart
<1>5. r >= 3 => 2 \in Lines(t)
  BY <1>1, LineStart
<1>6. Behind = r - l /\ ChunkSize = strtol(t[1]) /\ (LineReceived <=> IsDigits(t[1]) /\ r - l >= 0)
  BY <1>1, <1>2 DEF Behind, ChunkSize, LineReceived
<1>7. CASE r >= 3
  <2>1. l - 1 <= 2 /\ l - 1 # 1
    BY <1>2, <1>3, <1>4, <1>5, <1>7
  <2>2. l = 3
    BY <1>3, <2>1
  <2>. QED
    BY <1>1, <1>2, <1>4, <1>6, <1>7, <2>2
<1>8. CASE r < 3
  <2>1. r >= 1 => l - 1 # 1
    BY <1>3, <1>4
  <2>2. r - l < 0
    BY <1>3, <1>8, <2>1
  <2>. QED
    BY <1>1, <1>6, <1>8, <2>2
<1>. QED
  BY <1>7, <1>8

-----------------------------------------------------------------------------
(***************************************************************************)
(* The steps of the loop over the chunks.                                  *)
(***************************************************************************)

(* The body grows by the bytes of a chunk.                                 *)
LEMMA BodyGrows ==
    ASSUME NEW p, NEW q, NEW z \in Nat, NEW d \in Seq(Int), body \in Seq(Int), BodySoFar(p),
           Len(d) = z, \A i \in 1 .. z : d[i] = msg.content[SentBefore(wire, p) + i],
           SentBefore(wire, q) = SentBefore(wire, p) + z,
           UNCHANGED msg, body' = body \o d
    PROVE  BodySoFar(q)'
<1>1. PICK c \in Seq(Int), m \in Nat : c = body /\ m = Len(c) /\ m = SentBefore(wire, p)
  <2>1. Len(body) \in Nat
    OBVIOUS
  <2>. QED
    BY <2>1 DEF BodySoFar
<1>2. /\ Len(c \o d) = m + z
      /\ \A i \in 1 .. m + z : (c \o d)[i] = IF i <= m THEN c[i] ELSE d[i - m]
  <2>1. c \in Seq(Int) /\ d \in Seq(Int) /\ Len(c) = m /\ Len(d) = z
    BY <1>1
  <2>2. /\ Len(c \o d) = Len(c) + Len(d)
        /\ \A i \in 1 .. Len(c) + Len(d) : (c \o d)[i] = IF i <= Len(c) THEN c[i] ELSE d[i - Len(c)]
    BY <2>1, ConcatProperties
  <2>. QED
    BY <2>1, <2>2
<1>3. ASSUME NEW i \in 1 .. m + z PROVE (c \o d)[i] = msg.content[i]
  <2>1. CASE i <= m
    <3>1. i \in 1 .. m
      BY <2>1
    <3>. QED
      BY <1>1, <1>2, <2>1, <3>1 DEF BodySoFar
  <2>2. CASE ~(i <= m)
    <3>1. i - m \in 1 .. z /\ m + (i - m) = i
      BY <1>1, <2>2
    <3>. QED
      BY <1>1, <1>2, <2>2, <3>1
  <2>. QED
    BY <2>1, <2>2
<1>4. wire' = wire
  BY DEF wire
<1>5. SentBefore(wire, q)' = m + z
  BY <1>1, <1>4 DEF SentBefore
<1>. QED
  BY <1>1, <1>2, <1>3, <1>5 DEF BodySoFar

(* A chunk that is in the buffer is taken, and the text begins behind it.  *)
LEMMA WholeStep ==
    ASSUME msg \in Messages, msg.kind = "chunked", body \in Seq(Int),
           NEW p, AtFrame(p), TakeWhole
    PROVE  body' \in Seq(Int) /\ \E q : AtFrame(q)'
<1>1. PICK z \in Nat :
         /\ z = strtol(wire[p]) /\ p \in 1 .. Len(wire) /\ p + z + 4 <= Len(wire)
         /\ \A i \in 1 .. z : wire[p + 2 + i] = msg.content[SentBefore(wire, p) + i]
         /\ z # 0 => /\ p + z + 5 \in Sizes(wire)
                     /\ SentBefore(wire, p + z + 5) = SentBefore(wire, p) + z
  BY ChunkFacts DEF AtFrame
<1>2. PICK r \in Nat, a \in Nat \ {0} : r = already_received /\ a = at
  BY DEF AtFrame
<1>3. Lines(Text) # {} /\ LineReceived /\ ChunkSize > 0 /\ Behind >= ChunkSize + 2
  BY DEF TakeWhole, ChunkLine, Whole
<1>4. r >= 3 /\ LineLen(Text) = 3 /\ ChunkSize = z /\ Behind = r - 3 /\ z # 0
  BY <1>1, <1>2, <1>3, LineKnown
<1>5. /\ body' = body \o Data(z) /\ at' = a + z + 5 /\ already_received' = r - z - 5
      /\ UNCHANGED <<msg, read, ragged, in_header>> /\ Buffer' = Buffer
  BY <1>2, <1>4 DEF TakeWhole, PastChunk, serverVars, Buffer
<1>6. r - z - 5 \in Nat /\ p \in Int
  BY SMTT(30), <1>1, <1>3, <1>4
<1>7. PICK t \in Seq(Int) : /\ t = Text /\ r < Len(t)
                            /\ \A i \in 1 .. r : t[i] = wire[p + i - 1]
  BY <1>2, TextFacts
<1>8. PICK d : d = SubSeq(t, 4, 3 + z)
  OBVIOUS
<1>9. d \in Seq(Int) /\ Len(d) = z /\ \A i \in 1 .. z : d[i] = wire[p + 2 + i]
  <2>1. Len(t) \in Nat /\ 4 \in Int /\ 3 + z \in Int /\ 4 <= 3 + z /\ (3 + z) - 4 + 1 = z
    BY <1>4
  <2>2. \A i \in 4 .. 3 + z : i \in 1 .. Len(t)
    BY <1>6, <1>7, <2>1
  <2>3. \A i \in 4 .. 3 + z : t[i] \in Int
    BY <2>2
  <2>4. /\ d \in Seq(Int) /\ Len(d) = z
        /\ \A i \in 1 .. (3 + z) - 4 + 1 : d[i] = t[4 + i - 1]
    BY <1>8, <2>1, <2>3, SubSeqProperties
  <2>5. ASSUME NEW i \in 1 .. z PROVE d[i] = wire[p + 2 + i]
    <3>1. 4 + i - 1 \in 1 .. r /\ p + (4 + i - 1) - 1 = p + 2 + i
      BY <1>6
    <3>2. t[4 + i - 1] = wire[p + (4 + i - 1) - 1]
      BY <1>7, <3>1
    <3>3. d[i] = t[4 + i - 1]
      BY <2>1, <2>4
    <3>. QED
      BY <3>1, <3>2, <3>3
  <2>. QED
    BY <2>4, <2>5
<1>10. body' = body \o d
  BY <1>4, <1>5, <1>7, <1>8 DEF Data
<1>11. PICK q : q = p + z + 5
  OBVIOUS
<1>12. BodySoFar(q)'
  <2>1. SentBefore(wire, q) = SentBefore(wire, p) + z
    BY <1>1, <1>4, <1>11
  <2>2. \A i \in 1 .. z : d[i] = msg.content[SentBefore(wire, p) + i]
    BY <1>1, <1>9
  <2>3. BodySoFar(p)
    BY DEF AtFrame
  <2>. QED
    BY <1>5, <1>9, <1>10, <2>1, <2>2, <2>3, BodyGrows
<1>13. wire' = wire
  BY <1>5 DEF wire
<1>14. q \in Sizes(wire) /\ read = q + (r - z - 5) - 1
  <2>1. read = p + r - 1
    BY <1>2 DEF AtFrame
  <2>2. p + r - 1 = q + (r - z - 5) - 1
    BY <1>6, <1>11
  <2>. QED
    BY <1>1, <1>4, <1>11, <2>1, <2>2
<1>15. \A i \in 0 .. (r - z - 5) - 1 : Buffer[(a + z + 5) + i] = wire[q + i]
  <2> TAKE i \in 0 .. (r - z - 5) - 1
  <2>1. i + (z + 5) \in 0 .. r - 1 /\ a + (i + (z + 5)) = (a + z + 5) + i /\ p + (i + (z + 5)) = q + i
    BY <1>6, <1>11
  <2>2. Buffer[a + (i + (z + 5))] = wire[p + (i + (z + 5))]
    BY <1>2, <2>1 DEF AtFrame
  <2>. QED
    BY <2>1, <2>2
<1>16. (a + z + 5) + (r - z - 5) = a + r /\ a + z + 5 \in Nat \ {0}
  BY <1>6
<1>17. AtFrame(q)'
  <2>1. /\ read' = q + already_received' - 1 /\ read' <= Len(wire')
        /\ at' + already_received' = a + r
    BY <1>2, <1>5, <1>13, <1>14, <1>16 DEF AtFrame
  <2>. QED
    BY <1>2, <1>5, <1>6, <1>12, <1>13, <1>14, <1>15, <1>16, <2>1 DEF AtFrame
<1>18. body' \in Seq(Int)
  BY <1>9, <1>10, ConcatProperties
<1>. QED
  BY <1>17, <1>18

(* Three texts one after the other.                                        *)
LEMMA Associated ==
    ASSUME NEW x \in Seq(Int), NEW y \in Seq(Int), NEW z \in Seq(Int)
    PROVE  (x \o y) \o z = x \o (y \o z)
  BY SMTT(30), ConcatAssociative

(* The rest of a chunk is received, and the text ends with what there was. *)
LEMMA PartStep ==
    ASSUME msg \in Messages, msg.kind = "chunked", body \in Seq(Int),
           NEW p, AtFrame(p), TakePart
    PROVE  body' \in Seq(Int) /\ \E q : AtFrame(q)'
<1>1. PICK z \in Nat :
         /\ z = strtol(wire[p]) /\ p \in 1 .. Len(wire) /\ p + z + 4 <= Len(wire)
         /\ wire[p + z + 4] = LF
         /\ \A i \in 1 .. z : wire[p + 2 + i] = msg.content[SentBefore(wire, p) + i]
         /\ z # 0 => /\ p + z + 5 \in Sizes(wire)
                     /\ SentBefore(wire, p + z + 5) = SentBefore(wire, p) + z
  BY ChunkFacts DEF AtFrame
<1>2. PICK r \in Nat, a \in Nat \ {0} : r = already_received /\ a = at
  BY DEF AtFrame
<1>3. Lines(Text) # {} /\ LineReceived /\ ChunkSize > 0 /\ Behind <= ChunkSize
  BY DEF TakePart, ChunkLine
<1>4. r >= 3 /\ LineLen(Text) = 3 /\ ChunkSize = z /\ Behind = r - 3 /\ z # 0
  BY <1>1, <1>2, <1>3, LineKnown
<1>5. /\ body' = body \o Data(r - 3) \o Piece(z - (r - 3))
      /\ read' = read + z - (r - 3) + 2 /\ at' = a + 3 + (r - 3) /\ already_received' = 0
      /\ UNCHANGED <<msg, ragged, in_header>> /\ Buffer' = Buffer
  BY <1>2, <1>4 DEF TakePart, serverVars, Buffer
<1>w. PICK w \in Seq(Int) : w = wire
  BY MessagesAssumption DEF wire
<1>l. PICK l \in Nat : l = Len(w) /\ p \in 1 .. l /\ p + z + 4 <= l
  <2>1. Len(w) \in Nat
    OBVIOUS
  <2>. QED
    BY <1>1, <1>w, <2>1
<1>6. p \in Int /\ r - 3 \in Nat /\ z - (r - 3) \in Nat /\ read = p + r - 1
  <2>1. read = p + r - 1
    BY <1>2 DEF AtFrame
  <2>2. p \in Int
    BY <1>l
  <2>3. r - 3 <= z
    <3>1. /\ Behind <= ChunkSize
          /\ ChunkSize = z
          /\ Behind = r - 3
      BY <1>3, <1>4
    <3>. QED
      BY ONLY <3>1
  <2>4. r >= 3
    BY <1>4
  <2>5. r - 3 \in Nat /\ z - (r - 3) \in Nat
    BY ONLY <2>3, <2>4, r \in Nat, z \in Nat
  <2>. QED
    BY <2>1, <2>2, <2>5
<1>7. PICK t \in Seq(Int) : /\ t = Text /\ r < Len(t)
                            /\ \A i \in 1 .. r : t[i] = w[p + i - 1]
  BY <1>2, <1>w, TextFacts
<1>8. PICK c, e : c = SubSeq(t, 4, r) /\ e = SubSeq(w, p + r, p + z + 2)
  OBVIOUS
<1>9. c \in Seq(Int) /\ Len(c) = r - 3 /\ \A i \in 1 .. r - 3 : c[i] = w[p + 2 + i]
  <2>1. Len(t) \in Nat /\ 4 \in Int /\ r \in Int /\ r - 4 + 1 = r - 3
    BY <1>2
  <2>2. \A i \in 4 .. r : t[i] \in Int
    <3>1. \A i \in 4 .. r : i \in 1 .. Len(t)
      BY <1>7, <2>1
    <3>. QED
      BY <3>1
  <2>3. /\ c \in Seq(Int) /\ Len(c) = IF 4 <= r THEN r - 4 + 1 ELSE 0
        /\ \A i \in 1 .. r - 4 + 1 : c[i] = t[4 + i - 1]
    BY <1>8, <2>1, <2>2, SubSeqProperties
  <2>4. Len(c) = r - 3
    BY <1>2, <1>4, <2>3
  <2>5. ASSUME NEW i \in 1 .. r - 3 PROVE c[i] = w[p + 2 + i]
    <3>1. 4 + i - 1 \in 1 .. r /\ p + (4 + i - 1) - 1 = p + 2 + i
      BY <1>2, <1>6
    <3>2. t[4 + i - 1] = w[p + (4 + i - 1) - 1]
      BY <1>7, <3>1
    <3>3. c[i] = t[4 + i - 1]
      BY <2>1, <2>3
    <3>. QED
      BY <3>1, <3>2, <3>3
  <2>. QED
    BY <2>3, <2>4, <2>5
<1>10. e \in Seq(Int) /\ Len(e) = z - (r - 3) /\ \A i \in 1 .. z - (r - 3) : e[i] = w[p + r + i - 1]
  <2>1. p + r \in Int /\ p + z + 2 \in Int /\ (p + z + 2) - (p + r) + 1 = z - (r - 3)
    BY <1>2, <1>6
  <2>2. \A i \in p + r .. p + z + 2 : w[i] \in Int
    <3>1. p + z + 2 <= l /\ p + r >= 1 /\ l = Len(w)
      BY <1>l, <1>1, <1>2
    <3>2. \A i \in p + r .. p + z + 2 : i \in 1 .. Len(w)
      BY <1>l, <2>1, <3>1
    <3>. QED
      BY <3>2
  <2>3. /\ e \in Seq(Int)
        /\ Len(e) = IF p + r <= p + z + 2 THEN (p + z + 2) - (p + r) + 1 ELSE 0
        /\ \A i \in 1 .. (p + z + 2) - (p + r) + 1 : e[i] = w[(p + r) + i - 1]
    BY SMTT(30), <1>8, <2>1, <2>2, SubSeqProperties
  <2>4. Len(e) = z - (r - 3)
    <3>1. p + r <= p + z + 2 \/ z - (r - 3) = 0
      BY <1>2, <1>6
    <3>. QED
      BY <1>2, <1>6, <2>1, <2>3, <3>1
  <2>. QED
    BY <2>1, <2>3, <2>4
<1>11. body' = body \o (c \o e)
  <2>1. Data(r - 3) = c
    <3>1. 3 + (r - 3) = r
      BY <1>2
    <3>. QED
      BY <1>4, <1>7, <1>8, <3>1 DEF Data
  <2>2. Piece(z - (r - 3)) = e
    <3>1. read + 1 = p + r /\ read + (z - (r - 3)) = p + z + 2
      BY <1>2, <1>6
    <3>. QED
      BY <1>8, <1>w, <3>1 DEF Piece
  <2>3. (body \o c) \o e = body \o (c \o e)
    <3>1. body \in Seq(Int) /\ c \in Seq(Int) /\ e \in Seq(Int)
      BY <1>9, <1>10
    <3>. QED
      BY <3>1, Associated
  <2>. QED
    BY <1>5, <2>1, <2>2, <2>3
<1> DEFINE d == c \o e
<1>12. d \in Seq(Int) /\ Len(d) = z /\ \A i \in 1 .. z : d[i] = w[p + 2 + i]
  <2>1. PICK m \in Nat, n \in Nat : m = r - 3 /\ n = z - (r - 3) /\ m + n = z
    BY <1>6
  <2>2. /\ d \in Seq(Int) /\ Len(d) = Len(c) + Len(e)
        /\ \A i \in 1 .. Len(c) + Len(e) : d[i] = IF i <= Len(c) THEN c[i] ELSE e[i - Len(c)]
    <3>1. c \in Seq(Int) /\ e \in Seq(Int)
      BY <1>9, <1>10
    <3>. QED
      BY ONLY <3>1, ConcatProperties
  <2>3. Len(c) = m /\ Len(e) = n /\ Len(c) + Len(e) = z
    BY <1>9, <1>10, <2>1
  <2> HIDE DEF d
  <2>4. \A i \in 1 .. z : d[i] = IF i <= m THEN c[i] ELSE e[i - m]
    BY <2>2, <2>3
  <2>5. ASSUME NEW i \in 1 .. z PROVE d[i] = w[p + 2 + i]
    <3>1. CASE i <= m
      <4>1. i \in 1 .. r - 3
        BY <2>1, <3>1
      <4>. QED
        BY <1>9, <2>4, <3>1, <4>1
    <3>2. CASE ~(i <= m)
      <4>1. i - m \in 1 .. z - (r - 3) /\ p + r + (i - m) - 1 = p + 2 + i
        BY <1>2, <1>6, <2>1, <3>2
      <4>. QED
        BY <1>10, <2>4, <3>2, <4>1
    <3>. QED
      BY <3>1, <3>2
  <2>. QED
    BY <2>2, <2>3, <2>5
<1> HIDE DEF d
<1>13. body' = body \o d
  BY <1>11 DEF d
<1>14. PICK q : q = p + z + 5
  OBVIOUS
<1>15. BodySoFar(q)'
  <2>1. SentBefore(wire, q) = SentBefore(wire, p) + z
    BY <1>1, <1>4, <1>14
  <2>2. \A i \in 1 .. z : d[i] = msg.content[SentBefore(wire, p) + i]
    BY <1>1, <1>12, <1>w
  <2>3. BodySoFar(p)
    BY DEF AtFrame
  <2>. QED
    BY <1>5, <1>12, <1>13, <2>1, <2>2, <2>3, BodyGrows
<1>16. wire' = wire
  BY <1>5 DEF wire
<1>17. read' = p + z + 4 /\ read' = q + 0 - 1 /\ q \in Sizes(wire) /\ at' = a + r /\ a + r + 0 = a + r
  <2>1. read' = (p + r - 1) + z - (r - 3) + 2
    BY <1>5, <1>6
  <2>2. (p + r - 1) + z - (r - 3) + 2 = p + z + 4 /\ p + z + 4 = q + 0 - 1
    BY <1>2, <1>6, <1>14
  <2>3. a + 3 + (r - 3) = a + r /\ a + r + 0 = a + r
    BY <1>2
  <2>. QED
    BY <1>1, <1>4, <1>5, <1>14, <2>1, <2>2, <2>3
<1>18. ~ragged => Buffer[a + r] = NUL
  <2>1. read # Len(wire)
    <3>1. Len(wire) \in Nat
      BY <1>w
    <3>. QED
      BY SMTT(30), <1>1, <1>2, <1>6, <3>1
  <2>. QED
    BY <1>2, <2>1 DEF AtFrame
<1>19. AtFrame(q)'
  <2>1. \A i \in 0 .. 0 - 1 : FALSE
    OBVIOUS
  <2>2. wire'[read'] = LF /\ LF # CR
    BY <1>1, <1>16, <1>17 DEF LF, CR
  <2>3. a + r <= Len(Buffer)
        /\ (in_header => a + r = Len(Buffer)) /\ Buffer[Len(Buffer)] = NUL /\ Buffer \in Seq(Int)
    BY <1>2 DEF AtFrame
  <2>5. a + r \in Nat \ {0} /\ 0 \in Nat
    BY <1>2
  <2>6. read' <= Len(wire')
    BY <1>1, <1>16, <1>17
  <2>4. /\ q \in Sizes(wire') /\ already_received' = 0 /\ read' = q + already_received' - 1
        /\ at' = a + r /\ at' + already_received' = a + r
    BY <1>5, <1>16, <1>17
  <2>. QED
    BY <1>5, <1>15, <1>18, <2>1, <2>2, <2>3, <2>4, <2>5, <2>6 DEF AtFrame
<1>20. body' \in Seq(Int)
  BY <1>12, <1>13, ConcatProperties
<1>. QED
  BY <1>19, <1>20

(* What chunk_size_buffer is: as long as it is and with a NUL at its end.  *)
SizeBuffer ==
    chunk_size_buffer \in [1 .. SizeSpace + 1 -> Int] /\ chunk_size_buffer[SizeSpace + 1] = NUL

(* More of a line is received behind what there is of it.                  *)
LEMMA SizeStep ==
    ASSUME msg \in Messages, msg.kind = "chunked", SizeBuffer,
           NEW p, AtFrame(p), NEW n \in 1 .. SizeSpace, ReceiveSize(n)
    PROVE  SizeBuffer' /\ AtFrame(p)'
<1>s. SizeSpace \in Nat /\ SizeSpace >= 3
  BY SizeAssumption, HeaderAssumption
<1>w. PICK w \in Seq(Int) : w = wire
  BY MessagesAssumption DEF wire
<1>1. PICK l \in Nat, r \in Nat :
         l = Len(w) /\ r = already_received /\ p \in 1 .. l /\ read = p + r - 1 /\ read <= l
  <2>1. Len(w) \in Nat
    OBVIOUS
  <2>2. already_received \in Nat /\ read = p + already_received - 1 /\ read <= Len(w)
    BY <1>w DEF AtFrame
  <2>3. p \in 1 .. Len(w)
    BY <1>w DEF AtFrame, Sizes
  <2>. QED
    BY <2>1, <2>2, <2>3
<1>2. PICK t \in Seq(Int), k \in Nat :
         /\ t = Text /\ k = Len(t) /\ t # <<>> /\ k = Len(Buffer) - at + 1 /\ r < k /\ t[k] = NUL
         /\ \A i \in 1 .. r : t[i] = w[p + i - 1]
  BY <1>1, <1>w, TextFacts
<1>3. Lines(t) = {} /\ n \in Counts(SizeSpace - r)
  BY <1>1, <1>2 DEF ReceiveSize
<1>4. r < 3 /\ \A i \in 1 .. r : t[i] # NUL
  BY <1>1, <1>2, <1>3, LineStart
<1>5. PICK s \in Nat : s = StringLen(t) /\ s + 1 <= k /\ t[s + 1] = NUL /\ r <= s
  <2>1. StringLen(t) \in 0 .. k - 1 /\ t[StringLen(t) + 1] = NUL
    BY <1>2, StringLenOf
  <2>2. r <= StringLen(t)
    BY <1>2, <1>4, StringFrom
  <2>. QED
    BY <1>2, <2>1, <2>2
<1>6. s <= SizeSpace
  <2>1. CASE in_header
    <3>1. at + r = Len(Buffer) /\ at \in Nat
      BY <1>1, <2>1 DEF AtFrame
    <3>2. k = r + 1
      BY SMTT(30), <1>1, <1>2, <3>1
    <3>. QED
      BY <1>1, <1>4, <1>5, <1>s, <3>2
  <2>2. CASE ~in_header
    <3>1. Buffer = chunk_size_buffer /\ Len(chunk_size_buffer) = SizeSpace + 1
      BY <1>s, <2>2 DEF Buffer, SizeBuffer
    <3>2. at \in Nat \ {0}
      BY DEF AtFrame
    <3>3. k <= SizeSpace + 1
      BY <1>2, <1>s, <3>1, <3>2
    <3>. QED
      BY <1>2, <1>5, <1>s, <3>3
  <2>. QED
    BY <2>1, <2>2
<1>7. n \in Nat /\ 1 <= n /\ r + n <= SizeSpace /\ read + n <= l
  <2>1. n <= SizeSpace - r /\ n <= l - read /\ n \in Int
    BY <1>1, <1>3, <1>s, <1>w DEF Counts, AtMost, Remaining
  <2>. QED
    BY <1>1, <1>s, <2>1
<1>8. PICK c : /\ c = chunk_size_buffer'
               /\ c = [i \in 1 .. SizeSpace + 1 |->
                          IF i \in r + 1 .. r + n THEN w[read + i - r]
                          ELSE IF i <= s + 1 THEN t[i]
                          ELSE chunk_size_buffer[i]]
  BY <1>1, <1>2, <1>5, <1>w DEF ReceiveSize, Refilled
<1>i. read \in Int
  BY <1>1
<1>9. \A i \in 1 .. SizeSpace + 1 :
         (IF i \in r + 1 .. r + n THEN w[read + i - r]
          ELSE IF i <= s + 1 THEN t[i] ELSE chunk_size_buffer[i]) \in Int
  <2> TAKE i \in 1 .. SizeSpace + 1
  <2>1. i \in r + 1 .. r + n => w[read + i - r] \in Int
    <3> SUFFICES ASSUME i \in r + 1 .. r + n PROVE w[read + i - r] \in Int
      OBVIOUS
    <3>1. read + i - r \in 1 .. l
      BY <1>1, <1>7
    <3>. QED
      BY <1>1, <3>1
  <2>2. i <= s + 1 => t[i] \in Int
    <3> SUFFICES ASSUME i <= s + 1 PROVE t[i] \in Int
      OBVIOUS
    <3>1. i \in 1 .. k
      BY <1>2, <1>5
    <3>2. i \in 1 .. Len(t)
      BY <1>2, <3>1
    <3>. QED
      BY <3>2
  <2>3. chunk_size_buffer[i] \in Int
    BY DEF SizeBuffer
  <2>. QED
    BY <2>1, <2>2, <2>3
<1>10. c \in [1 .. SizeSpace + 1 -> Int]
  BY <1>8, <1>9
<1>11. c[SizeSpace + 1] = NUL
  <2>1. SizeSpace + 1 \in 1 .. SizeSpace + 1 /\ ~(SizeSpace + 1 \in r + 1 .. r + n)
    BY <1>1, <1>7, <1>s
  <2>2. c[SizeSpace + 1] = IF SizeSpace + 1 <= s + 1 THEN t[SizeSpace + 1] ELSE chunk_size_buffer[SizeSpace + 1]
    BY <1>8, <2>1
  <2>3. SizeSpace + 1 <= s + 1 => SizeSpace + 1 = s + 1
    BY <1>5, <1>6, <1>s
  <2>. QED
    BY <1>5, <2>2, <2>3 DEF SizeBuffer
<1>12. \A i \in 0 .. r + n - 1 : c[1 + i] = w[p + i]
  <2> TAKE i \in 0 .. r + n - 1
  <2>1. 1 + i \in 1 .. SizeSpace + 1
    BY <1>1, <1>7, <1>s
  <2>2. CASE i < r
    <3>1. ~(1 + i \in r + 1 .. r + n) /\ 1 + i <= s + 1 /\ 1 + i \in 1 .. r /\ p + (1 + i) - 1 = p + i
      BY <1>1, <1>5, <2>2
    <3>2. c[1 + i] = t[1 + i]
      BY <1>8, <2>1, <3>1
    <3>3. t[1 + i] = w[p + (1 + i) - 1]
      BY <1>2, <3>1
    <3>. QED
      BY <3>1, <3>2, <3>3
  <2>3. CASE ~(i < r)
    <3>1. 1 + i \in r + 1 .. r + n /\ read + (1 + i) - r = p + i
      BY <1>1, <1>7, <2>3
    <3>2. c[1 + i] = w[read + (1 + i) - r]
      BY <1>8, <2>1, <3>1
    <3>. QED
      BY <3>1, <3>2
  <2>. QED
    BY <2>2, <2>3
<1>13. /\ UNCHANGED <<msg, body>> /\ in_header' = FALSE /\ at' = 1
       /\ already_received' = r + n /\ read' = read + n
       /\ ragged' = (ragged \/ Cuts(n) \/ Short(n, SizeSpace - r))
  BY <1>1 DEF ReceiveSize, serverVars
<1>14. Buffer' = c /\ wire' = wire /\ c \in Seq(Int) /\ Len(c) = SizeSpace + 1
  <2>1. c \in Seq(Int) /\ Len(c) = SizeSpace + 1
    BY <1>10, <1>s
  <2>. QED
    BY <1>8, <1>13, <2>1 DEF Buffer, wire
<1>15. ~ragged' => c[1 + (r + n)] = NUL \/ read + n = l
  <2> SUFFICES ASSUME ~Short(n, SizeSpace - r) PROVE c[1 + (r + n)] = NUL \/ read + n = l
    BY <1>13
  <2>1. ~(n < IF SizeSpace - r <= l - read THEN SizeSpace - r ELSE l - read)
    BY <1>1, <1>w DEF Short, AtMost, Remaining
  <2>2. 1 + (r + n) = SizeSpace + 1 \/ read + n = l
    <3>1. PICK e \in Int : e = read /\ e + n <= l
      BY <1>7, <1>i
    <3>2. CASE SizeSpace - r <= l - e
      <4>1. ~(n < SizeSpace - r)
        BY <2>1, <3>1, <3>2
      <4>. QED
        BY <1>1, <1>7, <1>s, <4>1
    <3>3. CASE ~(SizeSpace - r <= l - e)
      <4>1. ~(n < l - e)
        BY <2>1, <3>1, <3>3
      <4>2. l \in Int /\ n \in Int
        BY <1>1
      <4>3. e + n = l
        BY <3>1, <4>1, <4>2
      <4>. QED
        BY <3>1, <4>3
    <3>. QED
      BY <3>2, <3>3
  <2>. QED
    BY <1>11, <2>2
<1>16. ~ragged' => ~(w[read + n] = CR /\ ~IsDigits(w[(read + n) - 1]))
  <2>1. read + n - 1 = (read + n) - 1
    BY <1>1, <1>7
  <2>. QED
    BY <1>13, <1>w, <2>1 DEF Cuts
<1>17. BodySoFar(p)'
  <2>1. BodySoFar(p)
    BY DEF AtFrame
  <2>. QED
    BY <1>13, <1>14, <2>1 DEF BodySoFar, SentBefore
<1>18. /\ r + n \in Nat /\ read + n = p + (r + n) - 1 /\ 1 + (r + n) <= SizeSpace + 1
  BY <1>1, <1>7, <1>s
<1>19. AtFrame(p)'
  <2>1. /\ p \in Sizes(wire') /\ already_received' = r + n /\ read' = read + n
        /\ read' = p + already_received' - 1 /\ read' <= Len(wire') /\ at' = 1
    BY <1>1, <1>7, <1>13, <1>14, <1>18, <1>w DEF AtFrame
  <2>2. /\ Buffer' \in Seq(Int) /\ at' + already_received' <= Len(Buffer')
        /\ Buffer'[Len(Buffer')] = NUL /\ 1 \in Nat \ {0}
    BY <1>11, <1>14, <1>18, <2>1
  <2>3. \A i \in 0 .. already_received' - 1 : Buffer'[at' + i] = wire'[p + i]
    <3>1. already_received' - 1 = r + n - 1
      BY <2>1
    <3>. QED
      BY <1>12, <1>14, <1>w, <2>1, <3>1
  <2>4. ~ragged' => Buffer'[at' + already_received'] = NUL \/ read' = Len(wire')
    BY <1>1, <1>14, <1>15, <1>w, <2>1
  <2>5. ~ragged' => ~(wire'[read'] = CR /\ ~IsDigits(wire'[read' - 1]))
    BY <1>14, <1>16, <1>w, <2>1
  <2>. QED
    BY <1>13, <1>17, <1>18, <2>1, <2>2, <2>3, <2>4, <2>5 DEF AtFrame
<1>. QED
  BY <1>8, <1>10, <1>11, <1>19 DEF SizeBuffer

(* As long as no recv cut the framing the loop finds its way.              *)
LEMMA AstrayOnlyRagged ==
    ASSUME msg \in Messages, msg.kind = "chunked", NEW p, AtFrame(p), GoAstray
    PROVE  ragged
<1> SUFFICES ASSUME ~ragged PROVE FALSE
  OBVIOUS
<1>1. PICK z \in Nat :
         /\ z = strtol(wire[p]) /\ p \in 1 .. Len(wire) /\ p + z + 4 <= Len(wire)
         /\ wire[p + z + 3] = CR /\ \A i \in 1 .. z : wire[p + 2 + i] > 0
  BY ChunkFacts DEF AtFrame
<1>2. PICK l \in Nat : l = Len(wire)
  BY MessagesAssumption DEF wire
<1>3. PICK r \in Nat : r = already_received /\ read = p + r - 1
  BY DEF AtFrame
<1>4. PICK t \in Seq(Int) : /\ t = Text /\ t # <<>> /\ t[Len(t)] = NUL /\ r < Len(t)
                            /\ t[r + 1] = Buffer[at + r]
  BY <1>3, TextFacts
<1>5. Lines(t) # {}
  BY <1>4 DEF GoAstray
<1>6. CASE r >= 3
  <2>1. LineReceived /\ ChunkSize = z /\ Behind = r - 3
    BY <1>1, <1>3, <1>4, <1>5, <1>6, LineKnown
  <2>2. z > 0 /\ ~(r - 3 >= z + 2) /\ r - 3 > z
    BY <2>1 DEF GoAstray, Whole
  <2>3. p \in Int
    BY <1>1
  <2>4. read = p + z + 3 /\ read - 1 = p + 2 + z
    BY <1>3, <2>2, <2>3
  <2>5. wire[read] = CR /\ wire[read - 1] > 0
    <3>1. z \in 1 .. z
      BY <2>2
    <3>2. wire[p + 2 + z] > 0
      BY <1>1, <3>1
    <3>. QED
      BY <1>1, <2>4, <3>2
  <2>6. ~IsDigits(wire[read - 1])
    <3>1. wire[read - 1] \in Int
      <4>1. PICK w \in Seq(Int) : w = wire
        BY MessagesAssumption DEF wire
      <4>2. p + 2 + z \in 1 .. l
        BY SMTT(30), <1>1, <1>2, <2>3
      <4>3. w[p + 2 + z] \in Int
        BY <1>2, <4>1, <4>2
      <4>. QED
        BY <2>4, <4>1, <4>3
    <3>. QED
      BY <2>5, <3>1 DEF IsDigits, Digits
  <2>. QED
    BY <2>5, <2>6 DEF AtFrame
<1>7. CASE r < 3
  <2>1. read # l
    BY <1>1, <1>2, <1>3, <1>7
  <2>2. t[r + 1] = NUL
    BY <1>2, <1>3, <1>4, <2>1 DEF AtFrame
  <2>3. \A i \in 1 .. r : t[i] # NUL
    BY <1>3, <1>4, <1>7, LineStart
  <2>4. StringLen(t) = r
    BY <1>4, <2>2, <2>3, StringFrom
  <2>5. PICK i \in 1 .. r - 1 : t[i] = CR
    BY <1>5, <2>4 DEF Lines
  <2>6. i = 1 /\ r >= 1
    BY <1>7, <2>5
  <2>7. t[1] # CR
    BY <1>3, <1>4, <2>6, LineStart
  <2>. QED
    BY <2>5, <2>6, <2>7
<1>. QED
  BY <1>6, <1>7

(* Behind the last size, the CRLF is there or is received, and the body is *)
(* complete.                                                               *)
LEMMA FinalStep ==
    ASSUME msg \in Messages, msg.kind = "chunked", body \in Seq(Int), NEW p, AtFrame(p),
           strtol(wire[p]) = 0, already_received >= 3
    PROVE  /\ body = msg.content
           /\ Final /\ ~ragged => read = Len(wire)
           /\ \A n \in 0 .. 8 : ReceiveFinal(n) => read + n \in 0 .. Len(wire)
           /\ \A n \in 0 .. 8 :
                 ReceiveFinal(n) /\ conn = "used" /\ ~ragged' => read + n = Len(wire)
<1>1. PICK w \in Seq(Int) : w = wire
  BY MessagesAssumption DEF wire
<1>2. PICK l \in Nat : l = Len(w)
  <2>1. Len(w) \in Nat
    OBVIOUS
  <2>. QED
    BY <2>1
<1>3. /\ p \in 1 .. l /\ p + 4 = l /\ SentBefore(w, p) = Len(msg.content)
      /\ w[p + 2] = LF /\ w[p + 3] = CR
  <2>1. PICK z \in Nat :
           /\ z = strtol(w[p]) /\ p \in 1 .. Len(w) /\ w[p + 2] = LF /\ w[p + z + 3] = CR
           /\ z = 0 => p + 4 = Len(w) /\ SentBefore(w, p) = Len(msg.content)
    BY <1>1, ChunkFacts DEF AtFrame
  <2>2. z = 0 /\ p + 0 + 3 = p + 3
    BY <1>1, <1>2, <2>1
  <2>. QED
    BY <1>2, <2>1, <2>2
<1>4. PICK r \in Nat : r = already_received /\ read = p + r - 1 /\ r >= 3 /\ read <= l
  BY <1>1, <1>2 DEF AtFrame
<1>5. r \in 3 .. 5 /\ read = l - 5 + r /\ p = l - 4
  <2>1. p \in Int
    BY <1>3
  <2>2. read <= l /\ p + 4 = l /\ read = p + r - 1
    BY <1>3, <1>4
  <2>. QED
    BY <1>4, <2>1, <2>2
<1>6. body = msg.content
  <2>1. msg.content \in Seq(Int)
    BY MessagesAssumption
  <2>2. Len(body) = Len(msg.content) /\ \A i \in 1 .. Len(body) : body[i] = msg.content[i]
    BY <1>1, <1>3 DEF AtFrame, BodySoFar
  <2>. QED
    BY <2>1, <2>2, SeqEqual
<1>7. ASSUME Final, ~ragged PROVE read = l
  <2> SUFFICES ASSUME read # l PROVE FALSE
    OBVIOUS
  <2>1. r \in 3 .. 4
    BY <1>5
  <2>2. PICK t \in Seq(Int), k \in Nat :
           t = Text /\ k = Len(t) /\ t[k] = NUL /\ r < k /\ t[r + 1] = NUL
    <3>1. Text \in Seq(Int) /\ Len(Text) \in Nat /\ Text[Len(Text)] = NUL /\ r < Len(Text)
          /\ Text[r + 1] = Buffer[at + r]
      BY <1>4, TextFacts
    <3>2. Buffer[at + r] = NUL
      BY <1>1, <1>2, <1>4, <1>7 DEF AtFrame
    <3>. QED
      BY <3>1, <3>2
  <2>3. PICK u : u = SubSeq(t, 4, k) /\ Lines(u) # {}
    BY <1>7, <2>2 DEF Final, FinalThere
  <2>4. u \in Seq(Int) /\ Len(u) = k - 3 /\ \A i \in 1 .. k - 3 : u[i] = t[4 + i - 1]
    <3>1. k - 4 + 1 = k - 3 /\ 4 <= k /\ 4 \in Int /\ k \in Int
      BY <2>1, <2>2
    <3>2. \A i \in 4 .. k : t[i] \in Int
      BY <2>2
    <3>. QED
      BY <2>3, <3>1, <3>2, SubSeqProperties
  <2>5. k - 3 \in 1 .. k - 3 /\ r - 2 \in 1 .. k - 3 /\ 4 + (k - 3) - 1 = k /\ 4 + (r - 2) - 1 = r + 1
    BY <2>1, <2>2
  <2>6. u[k - 3] = NUL /\ u[r - 2] = NUL
    BY <2>2, <2>4, <2>5
  <2>7. PICK s \in Nat : s = StringLen(u) /\ \A i \in 1 .. s : u[i] # NUL
    <3>1. u # <<>> /\ u[Len(u)] = NUL
      BY <2>4, <2>5, <2>6
    <3>. QED
      BY SMTT(30), <2>4, <3>1, StringLenOf
  <2>8. s - 1 < 1
    <3>1. ~(r - 2 \in 1 .. s)
      BY <2>6, <2>7
    <3>. QED
      BY <2>1, <2>7, <3>1
  <2>9. Lines(u) = {}
    <3>1. 1 .. s - 1 = {}
      BY <2>7, <2>8
    <3>. QED
      BY <2>7, <3>1 DEF Lines
  <2>. QED
    BY <2>3, <2>9
<1>8. ASSUME NEW n \in 0 .. 8, ReceiveFinal(n) PROVE read + n \in 0 .. l
  <2>1. n = 0 \/ n \in Counts(8)
    BY <1>8 DEF ReceiveFinal
  <2>2. n <= l - read
    BY <1>1, <1>2, <1>4, <1>5, <2>1 DEF Counts, AtMost, Remaining
  <2>. QED
    BY <1>3, <1>4, <1>5, <2>2
<1>9. ASSUME NEW n \in 0 .. 8, ReceiveFinal(n), conn = "used", ~ragged' PROVE read + n = l
  <2>1. n \in Counts(8) /\ ~ragged /\ ~(n > 0 /\ Cuts(n))
    BY <1>9 DEF ReceiveFinal
  <2>2. 1 <= n /\ n <= l - read
    BY <1>1, <1>2, <1>5, <2>1 DEF Counts, AtMost, Remaining
  <2>3. ~IsDigits(LF) /\ LF # CR
    BY DEF IsDigits, Digits, LF, CR
  <2>4. CASE r = 3
    <3>1. n = 1 \/ n = 2
      BY <1>5, <2>2, <2>4
    <3>2. n # 1
      <4> SUFFICES ASSUME n = 1 PROVE FALSE
        OBVIOUS
      <4>1. read + n = p + 3 /\ read + n - 1 = p + 2
        BY <1>2, <1>5, <2>4
      <4>2. w[read + n] = CR /\ ~IsDigits(w[read + n - 1])
        BY <1>3, <2>3, <4>1
      <4>. QED
        BY <1>1, <2>1, <2>2, <4>2 DEF Cuts
    <3>. QED
      BY <1>2, <1>5, <2>4, <3>1, <3>2
  <2>5. CASE r = 4
    <3>1. read = p + 3 /\ read - 1 = p + 2
      BY <1>2, <1>5, <2>5
    <3>2. w[read] = CR /\ ~IsDigits(w[read - 1])
      BY <1>3, <2>3, <3>1
    <3>. QED
      BY <1>1, <2>1, <3>2 DEF AtFrame
  <2>6. CASE r = 5
    BY <1>2, <1>5, <2>2, <2>6
  <2>. QED
    BY <1>5, <2>4, <2>5, <2>6
<1>. QED
  BY <1>1, <1>2, <1>6, <1>7, <1>8, <1>9

(* Behind the header the first chunk begins.                               *)
LEMMA NothingSent ==
    ASSUME NEW m \in Messages, m.kind = "chunked"
    PROVE  /\ HeaderLen + 1 \in Sizes(m.wire) /\ SentBefore(m.wire, HeaderLen + 1) = 0
<1>1. PICK w \in Seq(Int) : w = m.wire
  BY MessagesAssumption
<1>2. HeaderLen + 1 \in Sizes(w) /\ \A q \in 1 .. HeaderLen : w[q] \in Digits(0) + 1 .. LF - 1
  BY <1>1, FramingAssumption
<1>h. HeaderLen \in Nat
  BY HeaderAssumption
<1>3. {q \in 1 .. HeaderLen + 1 : w[q] > 0} = {}
  <2> SUFFICES ASSUME NEW q \in 1 .. HeaderLen + 1, w[q] > 0 PROVE FALSE
    OBVIOUS
  <2>1. CASE q \in 1 .. HeaderLen
    <3>1. w[q] \in -9 .. -3
      BY <1>2, <2>1 DEF Digits, LF
    <3>. QED
      BY <3>1
  <2>2. CASE q = HeaderLen + 1
    <3>1. w[q] <= -10 /\ w[q] \in Int
      BY <1>2, <2>2 DEF Sizes, IsDigits, Digits
    <3>. QED
      BY <3>1
  <2>. QED
    BY <1>h, <2>1, <2>2
<1>. QED
  BY <1>1, <1>2, <1>3, FS_EmptySet DEF SentBefore

LEMMA HeaderStep ==
    ASSUME msg \in Messages, msg.kind = "chunked",
           read \in 0 .. Len(wire), header_buffer = SubSeq(wire, 1, read),
           NEW n \in 1 .. HeaderSpace, ReceiveHeader(n)
    PROVE  \/ read' < HeaderLen /\ UNCHANGED <<pc, chunkVars, body, buffer_size>>
           \/ /\ pc' = "size" /\ body' = <<>> /\ SizeBuffer' /\ AtFrame(HeaderLen + 1)'
              /\ buffer_size' = HeaderSpace + HeaderSpace \div 2
<1>1. PICK w \in Seq(Int), l \in Nat, e \in Nat : w = wire /\ l = Len(w) /\ e = read + n
  <2>1. wire \in Seq(Int)
    BY MessagesAssumption DEF wire
  <2>2. Len(wire) \in Nat /\ read + n \in Nat
    BY <2>1, HeaderAssumption
  <2>. QED
    BY <2>1, <2>2
<1>h. HeaderLen \in Nat \ {0} /\ HeaderSpace \in Nat /\ SizeSpace \in Nat
  BY HeaderAssumption, SizeAssumption
<1>2. header_buffer' = SubSeq(w, 1, e) /\ Len(header_buffer') = e /\ e \in 1 .. l
  BY <1>1, HeaderGrows
<1>3. read' = e /\ msg' = msg /\ wire' = w /\ ragged' = (ragged \/ Cuts(n)) /\ Cuts(n) = (w[e] = CR /\ ~IsDigits(w[e - 1]))
  <2>1. read + n - 1 = (read + n) - 1
    OBVIOUS
  <2>. QED
    BY <1>1, <2>1 DEF ReceiveHeader, Cuts, serverVars, wire
<1>4. CASE e < HeaderLen
  BY <1>2, <1>3, <1>4 DEF ReceiveHeader
<1>5. CASE ~(e < HeaderLen)
  <2>1. /\ already_received' = e - HeaderLen /\ in_header' = TRUE /\ at' = HeaderLen + 1
        /\ chunk_size_buffer' = [i \in 1 .. SizeSpace + 1 |-> NUL]
        /\ body' = <<>> /\ pc' = "size" /\ buffer_size' = HeaderSpace + HeaderSpace \div 2
    BY <1>2, <1>5 DEF ReceiveHeader
  <2>2. PICK h \in Seq(Int) : h = header_buffer' /\ Len(h) = e /\ \A i \in 1 .. e : h[i] = w[i]
    <3>1. \A i \in 1 .. e : w[i] \in Int
      BY <1>1, <1>2
    <3>2. /\ header_buffer' \in Seq(Int)
          /\ \A i \in 1 .. e - 1 + 1 : header_buffer'[i] = w[1 + i - 1]
      BY <1>1, <1>2, <3>1, SubSeqProperties
    <3>3. ASSUME NEW i \in 1 .. e PROVE header_buffer'[i] = w[i]
      <4>1. i \in 1 .. e - 1 + 1 /\ 1 + i - 1 = i
        BY <1>1
      <4>. QED
        BY <3>2, <4>1
    <3>. QED
      BY <1>2, <3>2, <3>3
  <2>3. PICK b : b = Append(h, NUL)
    OBVIOUS
  <2>4. b \in Seq(Int) /\ Len(b) = e + 1 /\ b[e + 1] = NUL /\ \A i \in 1 .. e : b[i] = w[i]
    <3>1. NUL \in Int
      BY DEF NUL
    <3>2. /\ b \in Seq(Int) /\ Len(b) = Len(h) + 1 /\ b[Len(h) + 1] = NUL
          /\ \A i \in 1 .. Len(h) : b[i] = h[i]
      BY <2>3, <3>1, AppendProperties
    <3>. QED
      BY <2>2, <3>2
  <2>5. Buffer' = b
    BY <2>1, <2>2, <2>3 DEF Buffer
  <2>6. PICK r \in Nat, p \in Nat \ {0} :
           r = e - HeaderLen /\ p = HeaderLen + 1 /\ e = p + r - 1 /\ p + r = e + 1
    BY <1>1, <1>5, <1>h
  <2>7. p \in Sizes(w) /\ SentBefore(w, p) = 0
    BY <1>1, <2>6, NothingSent DEF wire
  <2>8. BodySoFar(p)'
    <3>1. Len(body') = 0 /\ \A i \in 1 .. 0 : FALSE
      BY <2>1
    <3>. QED
      BY <1>3, <2>7, <3>1 DEF BodySoFar, SentBefore
  <2>9. \A i \in 0 .. r - 1 : b[p + i] = w[p + i]
    <3> TAKE i \in 0 .. r - 1
    <3>0. i \in Int /\ 0 <= i /\ i <= r - 1 /\ r \in Int /\ p \in Int /\ 1 <= p
      BY <2>6
    <3>a. p + r = e + 1 /\ e \in Int
      BY <1>1, <2>6
    <3>1. p + i \in Int /\ p + i <= e /\ 1 <= p + i
      BY <3>0, <3>a
    <3>2. p + i \in 1 .. e
      BY <1>1, <3>1
    <3>. QED
      BY <2>4, <3>2
  <2>10. /\ read' = p + already_received' - 1 /\ read' <= Len(wire') /\ at' + already_received' = e + 1
         /\ already_received' = r /\ at' = p
    <3>1. already_received' = r /\ at' = p
      BY <2>1, <2>6
    <3>2. read' <= Len(wire') /\ read' = e
      BY <1>1, <1>2, <1>3
    <3>. QED
      BY <2>6, <3>1, <3>2
  <2>11. AtFrame(p)'
    <3>1. ~ragged' => ~(wire'[read'] = CR /\ ~IsDigits(wire'[read' - 1]))
      BY <1>3
    <3>2. \A i \in 0 .. already_received' - 1 : Buffer'[at' + i] = wire'[p + i]
      BY <1>3, <2>5, <2>9, <2>10
    <3>3. Buffer' \in Seq(Int) /\ Len(Buffer') = e + 1 /\ Buffer'[e + 1] = NUL
      BY <2>4, <2>5
    <3>4. p \in Sizes(wire') /\ r \in Nat /\ p \in Nat \ {0} /\ e + 1 <= e + 1
      BY <1>1, <1>3, <2>6, <2>7
    <3>. QED
      BY <2>8, <2>10, <3>1, <3>2, <3>3, <3>4 DEF AtFrame
  <2>12. SizeBuffer'
    <3>1. NUL \in Int /\ SizeSpace + 1 \in 1 .. SizeSpace + 1
      BY <1>h DEF NUL
    <3>. QED
      BY <2>1, <3>1 DEF SizeBuffer
  <2>13. AtFrame(HeaderLen + 1)'
    BY <2>6, <2>11
  <2>. QED
    BY <2>1, <2>12, <2>13
<1>. QED
  BY <1>4, <1>5

-----------------------------------------------------------------------------
(***************************************************************************)
(* The invariant of a chunked body.                                        *)
(***************************************************************************)
Framed ==
    msg.kind = "chunked" =>
        /\ pc = "write" => read = 0
        /\ pc = "header" => read < HeaderLen /\ header_buffer = SubSeq(wire, 1, read)
        /\ pc = "size" => \E p : AtFrame(p)
        /\ pc = "final" => \E p : AtFrame(p) /\ strtol(wire[p]) = 0 /\ already_received >= 3
        /\ pc = "returned" => body = msg.content

(* Only an answer that announced the end of its connection is received     *)
(* until that end.                                                         *)
Announced == pc = "until" => msg.close

FrameInv == FramingKept /\ Framed /\ Announced /\ InSync

(* The initial states satisfy it.                                          *)
LEMMA InitFrame == Init => FrameInv
<1> SUFFICES ASSUME Init PROVE FrameInv
  OBVIOUS
<1>1. wire \in Seq(Int)
  BY MessagesAssumption DEF Init, wire
<1>2. Len(wire) \in Nat
  BY <1>1
<1>3. HeaderSpace \in Nat /\ MaxLosses \in Nat /\ SizeSpace \in Nat
  BY HeaderAssumption, SizeAssumption, MaxLossesAssumption
<1>4. TypeOK
  BY <1>2, <1>3 DEF Init, TypeOK, NUL
<1>. QED
  BY <1>4 DEF Init, FrameInv, FramingKept, Framed, Announced, InSync

(* A step that leaves the answer, what was received of it and the buffers. *)
LEMMA SameFrame ==
    ASSUME NEW p, AtFrame(p), UNCHANGED <<msg, read, dataVars>>
    PROVE  AtFrame(p)'
  BY DEF AtFrame, BodySoFar, Buffer, wire, dataVars, chunkVars

(* Where a chunk begins is within the buffers.                             *)
LEMMA FrameWithin ==
    ASSUME wire' \in Seq(Int), (header_buffer \in Seq(Int) /\ Len(header_buffer) <= HeaderSpace)',
           SizeBuffer', NEW p, AtFrame(p)'
    PROVE  /\ at' \in 1 .. HeaderSpace + 1 /\ already_received' \in 0 .. HeaderSpace
           /\ at' + already_received' <= Len(Buffer') /\ read' \in 0 .. Len(wire')
<1>1. SizeSpace \in Nat /\ HeaderSpace \in Nat /\ SizeSpace <= HeaderSpace
  BY SizeAssumption, HeaderAssumption
<1>2. PICK k \in Nat : k = Len(Buffer') /\ k <= HeaderSpace + 1
  <2>1. CASE in_header'
    <3>1. NUL \in Int
      BY DEF NUL
    <3>2. Buffer' = Append(header_buffer', NUL)
      BY <2>1 DEF Buffer
    <3>3. Len(Buffer') = Len(header_buffer') + 1
      BY <3>1, <3>2, AppendProperties
    <3>4. Len(header_buffer') \in Nat
      OBVIOUS
    <3>. QED
      BY <1>1, <3>3, <3>4
  <2>2. CASE ~in_header'
    <3>1. Len(Buffer') = SizeSpace + 1
      BY <1>1, <2>2 DEF Buffer, SizeBuffer
    <3>. QED
      BY <1>1, <3>1
  <2>. QED
    BY <2>1, <2>2
<1>3. PICK a \in Nat \ {0}, r \in Nat, e \in {read'} : a = at' /\ r = already_received' /\ a + r <= k /\ e = read'
  BY <1>2 DEF AtFrame
<1>4. PICK l \in Nat : l = Len(wire') /\ p \in 1 .. l /\ e = p + r - 1 /\ e <= l
  <2>1. Len(wire') \in Nat
    OBVIOUS
  <2>2. p \in 1 .. Len(wire')
    <3>1. PICK w \in Seq(Int) : w = wire'
      OBVIOUS
    <3>2. p \in {q \in DOMAIN wire' : IsDigits(wire'[q])}
      BY DEF AtFrame, Sizes
    <3>3. p \in DOMAIN w
      BY <3>1, <3>2
    <3>. QED
      BY <3>1, <3>3
  <2>3. e = p + r - 1 /\ e <= Len(wire')
    BY <1>3 DEF AtFrame
  <2>. QED
    BY <2>1, <2>2, <2>3
<1>5. a \in 1 .. HeaderSpace + 1 /\ r \in 0 .. HeaderSpace
  BY <1>1, <1>2, <1>3
<1>6. e \in 0 .. l
  <2>1. p \in Nat /\ 1 <= p
    BY <1>4
  <2>a. r \in Nat
    BY <1>3
  <2>2. p + r - 1 \in Nat
    BY <2>1, <2>a
  <2>. QED
    BY <1>4, <2>2
<1>. QED
  BY <1>2, <1>3, <1>4, <1>5, <1>6

(* The next bytes are bytes.                                               *)
LEMMA PieceIsText ==
    ASSUME wire \in Seq(Int), NEW n \in Nat, read \in 0 .. Len(wire), read + n <= Len(wire)
    PROVE  Piece(n) \in Seq(Int)
<1>1. PICK w \in Seq(Int), e \in Nat, l \in Nat : w = wire /\ e = read /\ l = Len(w) /\ e + n <= l
  <2>1. Len(wire) \in Nat
    OBVIOUS
  <2>2. read \in Nat /\ read + n <= Len(wire)
    BY <2>1
  <2>. QED
    BY <2>1, <2>2
<1>2. \A i \in e + 1 .. e + n : w[i] \in Int
  BY <1>1
<1>. QED
  BY <1>1, <1>2, SubSeqProperties DEF Piece

(* Every step preserves it.                                                *)
LEMMA NextFrame == IndInv /\ IndInv' /\ FrameInv /\ [Next]_vars => FrameInv'
<1> SUFFICES ASSUME IndInv, IndInv', FrameInv, [Next]_vars PROVE FrameInv'
  OBVIOUS
<1>a. msg \in Messages /\ wire \in Seq(Int) /\ msg.content \in Seq(Int) /\ Len(wire) \in Nat
  BY MessagesAssumption DEF IndInv, Branches, wire
<1>b. TypeOK /\ (pc = "astray" => ragged) /\ Framed /\ Announced /\ InSync
  BY DEF FrameInv, FramingKept
<1>c. SizeBuffer /\ body \in Seq(Int) /\ header_buffer \in Seq(Int) /\ Len(header_buffer) <= HeaderSpace
  BY <1>b DEF TypeOK, SizeBuffer
<1>h. HeaderLen \in Nat \ {0} /\ HeaderSpace \in Nat /\ SizeSpace \in Nat /\ HeaderLen <= HeaderSpace
  BY HeaderAssumption, SizeAssumption
<1>m. MaxLosses \in Nat
  BY MaxLossesAssumption
<1>k. Simple' => read' \in 0 .. Len(wire')
  BY DEF IndInv, Prefix
<1> DEFINE Kept == UNCHANGED <<msg, read, dataVars>>
(* Steps to the end of the program or of the call, without a body.         *)
<1>1. ASSUME Kept, losses' \in 0 .. MaxLosses, conn' \in {"fresh", "used", "lost"},
             pc' \in {"null", "exited", "aborted"}
      PROVE  FrameInv'
  <2>1. TypeOK'
    BY <1>1, <1>b DEF TypeOK, dataVars, chunkVars, wire
  <2>. QED
    BY <1>1, <2>1 DEF FrameInv, FramingKept, Framed, Announced, InSync
(* Steps that only change the connection.                                  *)
<1>2. ASSUME Kept, losses' \in 0 .. MaxLosses, conn' \in {"fresh", "used", "lost"},
             pc' = pc, pc = "returned" => conn' = conn
      PROVE  FrameInv'
  <2>1. TypeOK'
    BY <1>2, <1>b DEF TypeOK, dataVars, chunkVars, wire, Buffer
  <2>2. Framed'
    <3> SUFFICES ASSUME msg'.kind = "chunked" PROVE
              /\ pc' = "write" => read' = 0
              /\ pc' = "header" => read' < HeaderLen /\ header_buffer' = SubSeq(wire', 1, read')
              /\ pc' = "size" => \E p : AtFrame(p)'
              /\ pc' = "final" => \E p : AtFrame(p)' /\ strtol(wire'[p]) = 0 /\ already_received' >= 3
              /\ pc' = "returned" => body' = msg'.content
      BY DEF Framed
    <3>0. /\ msg' = msg /\ read' = read /\ header_buffer' = header_buffer /\ body' = body
          /\ already_received' = already_received /\ wire' = wire /\ msg.kind = "chunked"
      BY <1>2 DEF dataVars, chunkVars, wire
    <3>1. \A p : AtFrame(p) => AtFrame(p)'
      BY <1>2, SameFrame
    <3>. QED
      BY <1>2, <1>b, <3>0, <3>1 DEF Framed
  <2>. QED
    BY <1>2, <1>b, <2>1, <2>2
       DEF FrameInv, FramingKept, Announced, InSync, Remaining, dataVars, wire
<1>3. ASSUME Retry PROVE FrameInv'
  <2>1. CASE pc' = "exited"
    <3>1. Kept /\ losses' = losses /\ conn' = conn
      BY <1>3, <2>1 DEF Retry, serverVars
    <3>2. losses \in 0 .. MaxLosses /\ conn \in {"fresh", "used", "lost"}
      BY <1>b DEF TypeOK
    <3>. QED
      BY <1>1, <2>1, <3>1, <3>2
  <2>2. CASE pc' # "exited"
    <3>1. pc' = "write" /\ conn' = "fresh" /\ read' = 0 /\ UNCHANGED <<serverVars, losses, dataVars>>
      BY <1>3, <2>2 DEF Retry, refresh_connection
    <3>2. TypeOK'
      <4>1. wire' = wire /\ 0 \in 0 .. Len(wire)
        BY <1>a, <3>1 DEF wire, serverVars
      <4>. QED
        BY <1>b, <3>1, <4>1 DEF TypeOK, dataVars, chunkVars
    <3>. QED
      BY <3>1, <3>2 DEF FrameInv, FramingKept, Framed, Announced, InSync
  <2>. QED
    BY <2>1, <2>2
<1>4. CASE UNCHANGED vars
  <2>1. Kept /\ losses' = losses /\ conn' = conn /\ pc' = pc
    BY <1>4 DEF vars, serverVars
  <2>2. losses \in 0 .. MaxLosses /\ conn \in {"fresh", "used", "lost"}
    BY <1>b DEF TypeOK
  <2>. QED
    BY <1>2, <2>1, <2>2
<1>5. CASE Lose
  <2>1. Kept /\ losses' = losses + 1 /\ losses < MaxLosses /\ conn' = "lost" /\ pc' = pc /\ pc # "returned"
    BY <1>5 DEF Lose, Ended, serverVars
  <2>2. losses' \in 0 .. MaxLosses
    BY <1>b, <1>m, <2>1 DEF TypeOK
  <2>. QED
    BY <1>2, <2>1, <2>2
<1>6. CASE ReceiveFails \/ TlsFails
  <2>1. Kept /\ losses' = losses /\ conn' = conn /\ pc' \in {"null", "exited"}
    BY <1>6 DEF ReceiveFails, Fail, AfterLoss, TlsFails, serverVars
  <2>2. losses \in 0 .. MaxLosses /\ conn \in {"fresh", "used", "lost"}
    BY <1>b DEF TypeOK
  <2>. QED
    BY <1>1, <2>1, <2>2
<1>7. CASE WriteFails
  BY <1>3, <1>7 DEF WriteFails
<1>8. CASE Write
  <2>1. /\ pc = "write" /\ pc' = "header" /\ header_buffer' = <<>> /\ conn' \in {"lost", "used"}
        /\ UNCHANGED <<serverVars, read, losses, chunkVars, body, buffer_size, ragged>> /\ wire' = wire
    BY <1>8 DEF Write, serverVars, wire
  <2>2. TypeOK'
    <3>1. Len(<<>>) = 0 /\ <<>> \in Seq(Int) /\ 0 <= HeaderSpace
      BY <1>h
    <3>. QED
      BY <1>b, <2>1, <3>1 DEF TypeOK, chunkVars
  <2>3. Framed'
    <3>1. SubSeq(wire, 1, 0) = <<>>
      BY SubSeqEmpty
    <3>. QED
      BY <1>b, <1>h, <2>1, <3>1 DEF Framed, serverVars
  <2>. QED
    BY <2>1, <2>2, <2>3 DEF FrameInv, FramingKept, Announced, InSync
(* The types, once the place of the next chunk is known.                   *)
<1>9. ASSUME NEW p, AtFrame(p)', msg' = msg, SizeBuffer',
             (header_buffer \in Seq(Int) /\ Len(header_buffer) <= HeaderSpace)',
             conn' = conn, losses' = losses, pc' \in {"size", "final"},
             body' \in Seq(Int), buffer_size' \in Nat
      PROVE  TypeOK'
  <2>1. wire' = wire
    BY <1>9 DEF wire
  <2>2. /\ at' \in 1 .. HeaderSpace + 1 /\ already_received' \in 0 .. HeaderSpace
        /\ at' + already_received' <= Len(Buffer') /\ read' \in 0 .. Len(wire')
    BY <1>a, <1>9, <2>1, FrameWithin
  <2>. QED
    BY <1>b, <1>9, <2>2 DEF TypeOK, SizeBuffer
<1>10. ASSUME NEW p, AtFrame(p)', msg' = msg, SizeBuffer',
              (header_buffer \in Seq(Int) /\ Len(header_buffer) <= HeaderSpace)',
              conn' = conn, losses' = losses, pc' = "size",
              body' \in Seq(Int), buffer_size' \in Nat
       PROVE  FrameInv'
  <2>1. TypeOK'
    BY <1>9, <1>10
  <2>. QED
    BY <1>10, <2>1 DEF FrameInv, FramingKept, Framed, Announced, InSync
(* A body is returned.                                                     *)
<1>11. ASSUME Return, msg' = msg, losses' = losses,
              UNCHANGED <<header_buffer, chunkVars, buffer_size>>,
              body' \in Seq(Int), read' \in 0 .. Len(wire),
              msg.kind = "chunked" => body' = msg.content,
              ~msg.close /\ conn = "used" /\ ~ragged' => read' = Len(wire)
       PROVE  FrameInv'
  <2>1. wire' = wire
    BY <1>11 DEF wire
  <2>2. /\ pc' \in {"returned", "exited"}
        /\ pc' = "returned" => conn' = "fresh" \/ (~msg.close /\ conn' = conn)
        /\ conn' \in {"fresh", conn}
    BY <1>11 DEF Return, refresh_connection
  <2>3. TypeOK'
    BY <1>11, <1>b, <2>1, <2>2 DEF TypeOK, chunkVars
  <2>4. InSync'
    <3>1. read' = Len(wire) => Remaining' = 0
      BY <1>a, <2>1 DEF Remaining
    <3>. QED
      BY <1>11, <2>2, <3>1 DEF InSync
  <2>. QED
    BY <1>11, <2>2, <2>3, <2>4 DEF FrameInv, FramingKept, Framed, Announced
<1>12. ASSUME NEW n \in 1 .. HeaderSpace, ReceiveHeader(n) PROVE FrameInv'
  <2>1. /\ pc = "header" /\ UNCHANGED <<msg, is_ssl, conn, losses>> /\ read' = read + n
        /\ read \in 0 .. Len(wire) /\ wire' = wire
    BY <1>12, <1>b DEF ReceiveHeader, serverVars, wire, TypeOK
  <2>2. header_buffer = SubSeq(wire, 1, read)
    BY <1>b, <2>1 DEF Framed, IndInv, Prefix, Simple
  <2>3. PICK e \in Nat :
           /\ e = read' /\ header_buffer' = SubSeq(wire, 1, e) /\ Len(header_buffer') = e
           /\ e \in 1 .. Len(wire) /\ e <= HeaderSpace
    <3>1. /\ header_buffer' = SubSeq(wire, 1, read + n) /\ Len(header_buffer') = read + n
          /\ read + n \in 1 .. Len(wire) /\ read + n <= HeaderSpace
      BY <1>12, <1>a, <2>1, <2>2, HeaderGrows
    <3>2. read + n \in Nat
      BY <1>a, <3>1
    <3>. QED
      BY <2>1, <3>1, <3>2
  <2>4. header_buffer' \in Seq(Int) /\ Len(header_buffer') <= HeaderSpace
    <3>1. \A i \in 1 .. e : wire[i] \in Int
      <4>1. PICK w \in Seq(Int) : w = wire /\ e \in 1 .. Len(w)
        BY <1>a, <2>3
      <4>. QED
        BY <4>1
    <3>2. header_buffer' \in Seq(Int)
      BY <2>3, <3>1, SubSeqProperties
    <3>. QED
      BY <2>3, <3>2
  <2>5. HeaderSpace \div 2 \in Nat /\ HeaderSpace + HeaderSpace \div 2 \in Nat
    BY <1>h
  <2>6. CASE UNCHANGED <<pc, chunkVars, body, buffer_size>> /\ read' < HeaderLen
    <3>1. TypeOK'
      BY <1>b, <2>1, <2>3, <2>4, <2>6 DEF TypeOK, chunkVars
    <3>2. Framed'
      BY <2>1, <2>3, <2>6 DEF Framed
    <3>. QED
      BY <2>1, <2>6, <3>1, <3>2 DEF FrameInv, FramingKept, Announced, InSync
  <2>7. CASE msg.kind = "chunked"
    <3>1. \/ read' < HeaderLen /\ UNCHANGED <<pc, chunkVars, body, buffer_size>>
          \/ /\ pc' = "size" /\ body' = <<>> /\ SizeBuffer' /\ AtFrame(HeaderLen + 1)'
             /\ buffer_size' = HeaderSpace + HeaderSpace \div 2
      BY <1>12, <1>a, <2>1, <2>2, <2>7, HeaderStep
    <3>2. PICK p : p = HeaderLen + 1
      OBVIOUS
    <3>3. <<>> \in Seq(Int)
      OBVIOUS
    <3>4. CASE AtFrame(p)' /\ pc' = "size" /\ body' = <<>> /\ SizeBuffer'
               /\ buffer_size' = HeaderSpace + HeaderSpace \div 2
      BY <1>10, <2>1, <2>4, <2>5, <3>3, <3>4
    <3>. QED
      BY <2>6, <3>1, <3>2, <3>4
  <2>8. CASE msg.kind # "chunked" /\ ~(e < HeaderLen)
    <3>1. /\ already_received' = e - HeaderLen /\ at' = HeaderLen + 1
          /\ chunk_size_buffer' = [i \in 1 .. SizeSpace + 1 |-> NUL]
          /\ body' = SubSeq(header_buffer', HeaderLen + 1, e)
          /\ buffer_size' = HeaderSpace + HeaderSpace \div 2
          /\ pc' \in {"rest", "until", "aborted"} /\ (pc' = "until" => msg.close)
      BY <1>12, <2>3, <2>8 DEF ReceiveHeader, FirstPart
    <3>2. body' \in Seq(Int)
      <4>1. HeaderLen + 1 \in Int /\ e \in Int
        BY <1>h
      <4>2. \A i \in HeaderLen + 1 .. e : header_buffer'[i] \in Int
        <5>1. \A i \in HeaderLen + 1 .. e : i \in 1 .. e
          BY <1>h
        <5>2. PICK h \in Seq(Int) : h = header_buffer' /\ Len(h) = e
          BY <2>3, <2>4
        <5>. QED
          BY <5>1, <5>2
      <4>. QED
        BY <3>1, <4>1, <4>2, SubSeqProperties
    <3>3. already_received' \in 0 .. HeaderSpace /\ at' \in 1 .. HeaderSpace + 1
      <4>a. e \in Nat /\ e <= HeaderSpace
        BY <2>3
      <4>1. e - HeaderLen \in 0 .. HeaderSpace /\ HeaderLen + 1 \in 1 .. HeaderSpace + 1
        BY <1>h, <2>8, <4>a
      <4>. QED
        BY <3>1, <4>1
    <3>4. chunk_size_buffer' \in [1 .. SizeSpace + 1 -> Int] /\ chunk_size_buffer'[SizeSpace + 1] = NUL
      <4>1. SizeSpace + 1 \in 1 .. SizeSpace + 1 /\ NUL \in Int
        BY <1>h DEF NUL
      <4>. QED
        BY <3>1, <4>1
    <3>5. read' \in 0 .. Len(wire')
      BY <1>a, <2>1, <2>3
    <3>6. TypeOK'
      BY <1>b, <2>1, <2>4, <2>5, <3>1, <3>2, <3>3, <3>4, <3>5 DEF TypeOK
    <3>. QED
      BY <2>1, <2>8, <3>1, <3>6 DEF FrameInv, FramingKept, Framed, Announced, InSync
  <2>9. CASE msg.kind # "chunked" /\ e < HeaderLen
    <3>1. UNCHANGED <<pc, chunkVars, body, buffer_size>>
      BY <1>12, <2>3, <2>9 DEF ReceiveHeader
    <3>. QED
      BY <2>3, <2>6, <2>9, <3>1
  <2>. QED
    BY <2>7, <2>8, <2>9
<1>13. CASE ReceiveRest
  <2> DEFINE n == Len(msg.content) - already_received
  <2>1. /\ pc = "rest" /\ msg' = msg /\ losses' = losses /\ is_ssl' = is_ssl
        /\ UNCHANGED <<header_buffer, chunkVars, buffer_size, ragged>>
        /\ msg.kind = "length" /\ wire' = wire
    BY <1>13 DEF ReceiveRest, serverVars, IndInv, Branches, wire
  <2>2. /\ Len(wire) = HeaderLen + Len(msg.content) /\ read \in 0 .. Len(wire)
        /\ HeaderLen <= read /\ already_received = read - HeaderLen
    BY <1>a, <2>1, MessagesAssumption DEF IndInv, Prefix, Simple, wire
  <2>3. n \in Nat /\ read + n = Len(wire)
    <3>1. Len(msg.content) \in Nat
      BY <1>a
    <3>. QED
      BY <1>h, <2>2, <3>1
  <2>4. CASE recv_all_fails(n)
    <3>1. Kept /\ conn' = conn /\ pc' = "null"
      BY <1>13, <2>1, <2>4 DEF ReceiveRest, dataVars
    <3>2. losses \in 0 .. MaxLosses /\ conn \in {"fresh", "used", "lost"}
      BY <1>b DEF TypeOK
    <3>. QED
      BY <1>1, <2>1, <3>1, <3>2
  <2>5. CASE ~recv_all_fails(n)
    <3>1. read' = read + n /\ body' = body \o Piece(n) /\ Return
      BY <1>13, <2>5 DEF ReceiveRest
    <3>2. Piece(n) \in Seq(Int)
      <4>1. read + n <= Len(wire)
        BY <1>a, <2>3
      <4> HIDE DEF n
      <4>. QED
        BY <1>a, <2>2, <2>3, <4>1, PieceIsText
    <3>3. body' \in Seq(Int)
      BY <1>c, <3>1, <3>2, ConcatProperties
    <3>4. read' = Len(wire) /\ read' \in 0 .. Len(wire)
      BY <1>a, <2>3, <3>1
    <3>. QED
      BY <1>11, <2>1, <3>1, <3>3, <3>4
  <2>. QED
    BY <2>4, <2>5
<1>14. ASSUME NEW n \in 1 .. SizeSpace, ReceiveSize(n) PROVE FrameInv'
  <2>1. /\ pc = "size" /\ pc' = "size" /\ conn' = conn
        /\ UNCHANGED <<msg, losses, header_buffer, body, buffer_size>>
    BY <1>14 DEF ReceiveSize, serverVars
  <2>2. msg.kind = "chunked"
    BY <2>1 DEF IndInv, Branches
  <2>3. PICK p : AtFrame(p)
    BY <1>b, <2>1, <2>2 DEF Framed
  <2>4. SizeBuffer' /\ AtFrame(p)'
    BY <1>14, <1>a, <1>c, <2>2, <2>3, SizeStep
  <2>5. buffer_size \in Nat
    BY <1>b DEF TypeOK
  <2>. QED
    BY <1>10, <1>c, <2>1, <2>4, <2>5
<1>15. CASE TakeWhole \/ TakePart
  <2>1. /\ pc = "size" /\ pc' = "size" /\ conn' = conn
        /\ UNCHANGED <<msg, losses, header_buffer, chunk_size_buffer, buffer_size>>
    BY <1>15 DEF TakeWhole, TakePart, ChunkLine, serverVars
  <2>2. msg.kind = "chunked"
    BY <2>1 DEF IndInv, Branches
  <2>3. PICK p : AtFrame(p)
    BY <1>b, <2>1, <2>2 DEF Framed
  <2>4. body' \in Seq(Int) /\ \E q : AtFrame(q)'
    BY <1>15, <1>a, <1>c, <2>2, <2>3, WholeStep, PartStep
  <2>5. PICK q : AtFrame(q)'
    BY <2>4
  <2>6. buffer_size \in Nat /\ SizeBuffer'
    BY <1>b, <1>c, <2>1 DEF TypeOK, SizeBuffer
  <2>. QED
    BY <1>10, <1>c, <2>1, <2>4, <2>5, <2>6
<1>16. CASE GoAstray
  <2>1. pc = "size" /\ pc' = "astray" /\ Kept /\ losses' = losses /\ conn' = conn
    BY <1>16 DEF GoAstray, serverVars
  <2>2. msg.kind = "chunked"
    BY <2>1 DEF IndInv, Branches
  <2>3. PICK p : AtFrame(p)
    BY <1>b, <2>1, <2>2 DEF Framed
  <2>4. ragged /\ ragged' = ragged
    BY <1>16, <1>a, <2>1, <2>2, <2>3, AstrayOnlyRagged DEF dataVars
  <2>5. TypeOK'
    BY <1>b, <2>1 DEF TypeOK, dataVars, chunkVars, wire
  <2>. QED
    BY <2>1, <2>4, <2>5 DEF FrameInv, FramingKept, Framed, Announced, InSync
<1>17. CASE LastChunk
  <2>1. /\ pc = "size" /\ pc' = "final" /\ Kept /\ losses' = losses /\ conn' = conn
        /\ Lines(Text) # {} /\ LineReceived /\ ChunkSize = 0
    BY <1>17 DEF LastChunk, serverVars
  <2>2. msg.kind = "chunked"
    BY <2>1 DEF IndInv, Branches
  <2>3. PICK p : AtFrame(p)
    BY <1>b, <2>1, <2>2 DEF Framed
  <2>4. already_received >= 3 /\ strtol(wire[p]) = 0
    BY <1>a, <2>1, <2>2, <2>3, LineKnown
  <2>5. AtFrame(p)' /\ already_received' = already_received /\ wire' = wire
    BY <2>1, <2>3, SameFrame DEF dataVars, chunkVars, wire
  <2>6. TypeOK'
    <3>1. UNCHANGED <<header_buffer, chunk_size_buffer, body, buffer_size>>
      BY <2>1 DEF dataVars, chunkVars
    <3>2. SizeBuffer' /\ buffer_size \in Nat
      BY <1>b, <1>c, <3>1 DEF SizeBuffer, TypeOK
    <3>. QED
      BY <1>9, <1>c, <2>1, <2>5, <3>1, <3>2
  <2>7. Framed'
    BY <2>1, <2>4, <2>5 DEF Framed
  <2>. QED
    BY <2>1, <2>6, <2>7 DEF FrameInv, FramingKept, Announced, InSync
<1>18. CASE Final \/ \E n \in 0 .. 8 : ReceiveFinal(n)
  <2>1. /\ pc = "final" /\ Return /\ msg' = msg /\ losses' = losses
        /\ UNCHANGED <<header_buffer, chunkVars, body, buffer_size>>
    BY <1>18 DEF Final, ReceiveFinal, serverVars, dataVars
  <2>2. msg.kind = "chunked"
    BY <2>1 DEF IndInv, Branches
  <2>3. PICK p : AtFrame(p) /\ strtol(wire[p]) = 0 /\ already_received >= 3
    BY <1>b, <2>1, <2>2 DEF Framed
  <2>4. /\ body = msg.content
        /\ Final /\ ~ragged => read = Len(wire)
        /\ \A n \in 0 .. 8 : ReceiveFinal(n) => read + n \in 0 .. Len(wire)
        /\ \A n \in 0 .. 8 : ReceiveFinal(n) /\ conn = "used" /\ ~ragged' => read + n = Len(wire)
    BY <1>a, <1>c, <2>2, <2>3, FinalStep
  <2>5. CASE Final
    <3>1. read' = read /\ ragged' = ragged /\ read \in 0 .. Len(wire)
      BY <1>b, <2>5 DEF Final, dataVars, TypeOK
    <3>. QED
      BY <1>11, <1>c, <2>1, <2>4, <2>5, <3>1
  <2>6. CASE \E n \in 0 .. 8 : ReceiveFinal(n)
    <3>1. PICK n \in 0 .. 8 : ReceiveFinal(n)
      BY <2>6
    <3>2. read' = read + n
      BY <3>1 DEF ReceiveFinal
    <3>3. read' \in 0 .. Len(wire) /\ (conn = "used" /\ ~ragged' => read' = Len(wire))
      BY <2>4, <3>1, <3>2
    <3>. QED
      BY <1>11, <1>c, <2>1, <2>4, <3>3
  <2>. QED
    BY <1>18, <2>5, <2>6
<1>19. ASSUME NEW n \in 1 .. buffer_size, ReceiveMore(n) PROVE FrameInv'
  <2>1. /\ pc = "until" /\ pc' = "until" /\ UNCHANGED <<msg, conn, losses, header_buffer, chunkVars>>
        /\ n \in Counts(buffer_size - Len(body)) /\ wire' = wire
        /\ body' = body \o Piece(n) /\ read' = read + n /\ buffer_size' = Grown(Len(body) + n)
    BY <1>19 DEF ReceiveMore, serverVars, wire
  <2>2. msg.kind # "chunked" /\ read \in 0 .. Len(wire) /\ buffer_size \in Nat
    BY <1>b, <2>1 DEF IndInv, Branches, TypeOK
  <2>3. read' \in 0 .. Len(wire')
    BY <1>k, <2>1, <2>2 DEF Simple
  <2>4. body' \in Seq(Int)
    <3>1. n \in Nat /\ read + n <= Len(wire)
      BY <1>a, <2>1, <2>2, <2>3
    <3>2. Piece(n) \in Seq(Int)
      BY <1>a, <2>2, <3>1, PieceIsText
    <3>. QED
      BY <1>c, <2>1, <3>2, ConcatProperties
  <2>5. buffer_size' \in Nat
    BY <2>1, <2>2 DEF Grown
  <2>6. TypeOK'
    BY <1>b, <2>1, <2>3, <2>4, <2>5 DEF TypeOK, chunkVars
  <2>. QED
    BY <1>b, <2>1, <2>2, <2>6 DEF FrameInv, FramingKept, Framed, Announced, InSync
<1>20. CASE EndOfStream \/ StreamLost
  <2>1. pc = "until" /\ msg' = msg /\ losses' = losses /\ msg.close /\ msg.kind # "chunked"
        /\ read \in 0 .. Len(wire)
    BY <1>20, <1>b
       DEF EndOfStream, StreamLost, Retry, serverVars, Announced, IndInv, Branches, TypeOK
  <2>2. CASE Retry
    BY <1>3, <2>2
  <2>3. CASE Return /\ UNCHANGED <<read, dataVars>>
    <3>1. UNCHANGED <<header_buffer, chunkVars, body, buffer_size>>
      BY <2>3 DEF dataVars
    <3>. QED
      BY <1>11, <1>c, <2>1, <2>3, <3>1
  <2>4. CASE pc' = "aborted" /\ UNCHANGED <<conn, read, dataVars>>
    <3>1. losses \in 0 .. MaxLosses /\ conn \in {"fresh", "used", "lost"}
      BY <1>b DEF TypeOK
    <3>. QED
      BY <1>1, <2>1, <2>4, <3>1
  <2>. QED
    BY <1>20, <2>2, <2>3, <2>4 DEF EndOfStream, StreamLost
<1>. QED
  BY <1>4, <1>5, <1>6, <1>7, <1>8, <1>12, <1>13, <1>14, <1>15, <1>16, <1>17, <1>18, <1>19, <1>20
     DEF Next, Step

(* The invariant of a chunked body holds in every reachable state.         *)
LEMMA FrameInvariance == Spec => []FrameInv
  BY Invariance, InitFrame, NextFrame, PTL DEF Spec

(* No chunk size is read from bytes of an earlier recv and no count turns  *)
(* negative, unless a recv cut the framing, and positions and counts stay  *)
(* within their buffers (socket_utils.c:219-249), for every chunked answer *)
(* and for every size of the buffers.                                      *)
THEOREM FramingKeptAlways == Spec => []FramingKept
<1>1. FrameInv => FramingKept
  BY DEF FrameInv
<1>. QED
  BY <1>1, FrameInvariance, PTL

(* The body returned is the body sent, chunked or not, however the stream  *)
(* was cut into pieces (socket_utils.c:211-284).                           *)
THEOREM BodyRightAlways == Spec => []BodyRight
<1>1. IndInv /\ FrameInv => BodyRight
  BY DEF IndInv, Branches, Finished, Simple, FrameInv, Framed, BodyRight
<1>. QED
  BY <1>1, Invariance, FrameInvariance, PTL

(* After a body was returned the connection can be used for the next       *)
(* request, unless a recv cut the framing (socket_utils.c:240-254, 283).   *)
THEOREM InSyncAlways == Spec => []InSync
<1>1. FrameInv => InSync
  BY DEF FrameInv
<1>. QED
  BY <1>1, FrameInvariance, PTL
=============================================================================
