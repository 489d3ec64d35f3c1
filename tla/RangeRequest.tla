---------------------------- MODULE RangeRequest ----------------------------
(***************************************************************************)
(* download_ranges() and response_to_ranges() of socket_utils.c: the       *)
(* chunks of one bundle are fetched with as few HTTP range requests as fit *)
(* into the request buffer, and the answers (the whole bundle, one range,  *)
(* or several ranges as a multipart body) are cut into chunks again; and   *)
(* get_ranges(), which reads them from a bundle on disk instead.           *)
(*                                                                         *)
(* A chunk is an interval of bytes of the bundle; the list is ordered by   *)
(* bundle_offset and holds a chunk once for every place it has in the      *)
(* file, so neighbours may be equal.  A byte of the bundle is modelled by  *)
(* its offset, or by Break where "\r\n\r\n" happens to stand in the data.  *)
(* How long the text of a range is depends on the digits of its ends: any  *)
(* of RangeLens.                                                           *)
(***************************************************************************)
EXTENDS Integers, Sequences, FiniteSets

CONSTANTS
    Bundles,        \* the chunks of a bundle, in their order
    MaxChunks,      \* bound of the model: chunks of a bundle needed by a file
    HeaderSize,     \* sizeof(request_header)
    RangeSize,      \* sizeof(current_range)
    PrefixLens,     \* lengths of the request up to "bytes="
    RangeLens       \* lengths of the text of a range

Chunk == [bundle_offset : Nat, compressed_size : Nat \ {0}]

ASSUME BundlesAssumption ==
    \A b \in Bundles :
        /\ b \in Seq(Chunk) /\ b # <<>>
        /\ b[1].bundle_offset = 0
        /\ \A k \in 2 .. Len(b) :
              b[k].bundle_offset = b[k - 1].bundle_offset + b[k - 1].compressed_size
ASSUME MaxChunksAssumption == MaxChunks \in Nat
ASSUME BuffersAssumption == HeaderSize \in Nat \ {0} /\ RangeSize \in Nat
ASSUME PrefixAssumption == PrefixLens \subseteq 0 .. HeaderSize - RangeSize - 3
ASSUME RangeLensAssumption == RangeLens \subseteq 0 .. RangeSize - 2

VARIABLES
    bundle,         \* the bundle on the server or on disk
    breaks,         \* offsets of its bytes that look like the end of a header
    chunks,         \* the list to fetch
    pc,
    first_chunk,    \* i in get_ranges
    range_start_chunk,
    header_len,     \* strlen(request_header)
    requested,      \* the ranges in the request
    chunk_count,
    ranges          \* what was fetched, by chunk

inputVars == <<bundle, breaks, chunks>>
vars == <<inputVars, pc, first_chunk, range_start_chunk, header_len, requested,
          chunk_count, ranges>>

-----------------------------------------------------------------------------

Break     == -1     \* a byte at the end of "\r\n\r\n"
Delimiter == -2     \* the end of a multipart body
Undefined == -3     \* memory beyond the body
None      == <<>>   \* nothing fetched

(* The lists of length n group_by_bundles can build: chunks of the bundle  *)
(* in their order, any of them repeated.                                   *)
Lists(b, n) ==
    {[j \in 0 .. n - 1 |-> b[pick[j]]] :
        pick \in {p \in [0 .. n - 1 -> 1 .. Len(b)] :
                     \A j \in 1 .. n - 1 : p[j - 1] <= p[j]}}

BundleSize == bundle[Len(bundle)].bundle_offset + bundle[Len(bundle)].compressed_size

Length == Cardinality(DOMAIN chunks)
Last   == Length - 1

Start(k) == chunks[k].bundle_offset
Size(k)  == chunks[k].compressed_size

Data(b) == IF b \in breaks THEN Break ELSE b

(* The bytes from .. to of the bundle.                                     *)
Bytes(from, to) == [n \in 1 .. to - from + 1 |-> Data(from + n - 1)]

Init ==
    /\ bundle \in Bundles
    /\ breaks \in SUBSET (0 .. BundleSize - 1)
    /\ \E n \in 1 .. MaxChunks : chunks \in Lists(bundle, n)
    /\ pc \in {"open", "next"}      \* filesystem_only or not
    /\ first_chunk = 0 /\ range_start_chunk = 0
    /\ header_len = 0 /\ requested = <<>> /\ chunk_count = 0
    /\ ranges = [k \in DOMAIN chunks |-> None]

-----------------------------------------------------------------------------
(***************************************************************************)
(* Building a request.                                                     *)
(***************************************************************************)

(* Faulty: a repeated chunk opens a range of its own.                      *)
GapAtRepeats(k) == Start(k - 1) + Size(k - 1) # Start(k)

(* A new range begins with chunk k: it neither follows its predecessor nor *)
(* is the same.                                                            *)
Gap(k) == Start(k - 1) + Size(k - 1) # Start(k) /\ Start(k - 1) # Start(k)

(* chunk_to_range_map.                                                     *)
RangeOf(k) == Cardinality({j \in 1 .. k : Gap(j)})

(* Chunk k is the last one of its range.                                   *)
EndsRange(k) == k < Last => RangeOf(k + 1) # RangeOf(k)

NewRequest ==
    /\ pc = "next" /\ first_chunk < Length
    /\ header_len' \in PrefixLens
    /\ requested' = <<>>
    /\ range_start_chunk' = first_chunk
    /\ pc' = "ranges"
    /\ UNCHANGED <<inputVars, first_chunk, chunk_count, ranges>>

(* Faulty: the separator and the next range are not reckoned with.         *)
HeaderFullTooLate(l) == header_len + l > HeaderSize - 4

(* No further range is guaranteed to fit.                                  *)
HeaderFull(l) == header_len + l > HeaderSize - RangeSize - 4

(* The next range, with a text of length l: the last one of this request   *)
(* (and the end of the header after it), or followed by a comma.           *)
AddRange(k, l) ==
    /\ pc = "ranges"
    /\ k \in range_start_chunk .. Last
    /\ EndsRange(k) /\ \A j \in range_start_chunk .. k - 1 : ~EndsRange(j)
    /\ requested' = Append(requested,
                           [from |-> Start(range_start_chunk), to |-> Start(k) + Size(k) - 1])
    /\ range_start_chunk' = k + 1
    /\ IF k = Last \/ HeaderFull(l)
       THEN /\ header_len' = header_len + l + 4
            /\ chunk_count' = k - first_chunk + 1
            /\ pc' = "send"
       ELSE /\ header_len' = header_len + l + 1
            /\ UNCHANGED <<chunk_count, pc>>
    /\ UNCHANGED <<inputVars, first_chunk, ranges>>

-----------------------------------------------------------------------------
(***************************************************************************)
(* The answer, and what response_to_ranges makes of it.                    *)
(***************************************************************************)

(* A 206 answer of the server: a single range as it is, several ranges     *)
(* each after the header of its part, with the closing delimiter at the    *)
(* end.                                                                    *)
PartialBody ==
    LET part(r) == <<Break>> \o Bytes(r.from, r.to)
        upTo[n \in 0 .. Len(requested)] ==
            IF n = 0 THEN <<>> ELSE upTo[n - 1] \o part(requested[n])
    IN  IF Len(requested) = 1
        THEN Bytes(requested[1].from, requested[1].to)
        ELSE upTo[Len(requested)] \o <<Delimiter>>

(* strstr(pos, "\r\n\r\n") + 4                                             *)
AfterBreak(body, pos) ==
    1 + CHOOSE p \in pos .. Len(body) :
            body[p] = Break /\ \A q \in pos .. p - 1 : body[q] # Break

(* memcpy of n bytes; what stands beyond the end of the body is undefined. *)
Copy(body, pos, n) ==
    [m \in 1 .. n |-> IF pos + m - 1 \in DOMAIN body THEN body[pos + m - 1] ELSE Undefined]

(* Faulty: the position moves on even if the next chunk is the same one.   *)
MoveAlways(pos, k) == pos + Size(k)

(* Past chunk k, unless the next one is the same.                          *)
Move(pos, k) == IF Start(k + 1) > Start(k) THEN pos + Size(k) ELSE pos

(* Where in the body the loop finds each chunk of the request.             *)
Positions(body) ==
    LET last == first_chunk + chunk_count - 1
        at[k \in first_chunk .. last] ==
            IF k = first_chunk
            THEN IF RangeOf(last) # RangeOf(first_chunk) THEN AfterBreak(body, 1) ELSE 1
            ELSE LET pos == Move(at[k - 1], k - 1)
                 IN  IF RangeOf(k) > RangeOf(k - 1) THEN AfterBreak(body, pos) ELSE pos
    IN  at

(* chunks_handled if the whole bundle came.                                *)
Rest == Length - first_chunk

(* The next request begins behind the chunks that were handled; fewer of   *)
(* them than the request was for fail the assertion.                       *)
Handled(chunks_handled) ==
    IF chunks_handled >= chunk_count
    THEN first_chunk' = first_chunk + chunks_handled /\ pc' = "next"
    ELSE pc' = "aborted" /\ UNCHANGED first_chunk

(* Status 200: the server ignored the ranges and sent the bundle.          *)
ReceiveWhole ==
    /\ pc = "send"
    /\ ranges' = [k \in DOMAIN chunks |->
                     IF k < first_chunk THEN ranges[k]
                     ELSE Copy(Bytes(0, BundleSize - 1), Start(k) + 1, Size(k))]
    /\ Handled(Rest)
    /\ UNCHANGED <<inputVars, range_start_chunk, header_len, requested, chunk_count>>

(* Status 206 for one chunk: the body is the chunk.                        *)
ReceiveOne ==
    /\ pc = "send" /\ chunk_count = 1
    /\ ranges' = [ranges EXCEPT ![first_chunk] = PartialBody]
    /\ Handled(1)
    /\ UNCHANGED <<inputVars, range_start_chunk, header_len, requested, chunk_count>>

(* Status 206 for several chunks, of one range or more.                    *)
ReceiveMany ==
    /\ pc = "send" /\ chunk_count # 1
    /\ LET body == PartialBody
           at   == Positions(body)
       IN  ranges' = [k \in DOMAIN chunks |->
                         IF k \in first_chunk .. first_chunk + chunk_count - 1
                         THEN Copy(body, at[k], Size(k))
                         ELSE ranges[k]]
    /\ Handled(chunk_count)
    /\ UNCHANGED <<inputVars, range_start_chunk, header_len, requested, chunk_count>>

(* No answer, or a status of 400 and above: download_ranges returns NULL.  *)
ReceiveFails ==
    /\ pc = "send"
    /\ pc' = "failed"
    /\ UNCHANGED <<inputVars, first_chunk, range_start_chunk, header_len, requested>>
    /\ UNCHANGED <<chunk_count, ranges>>

Return ==
    /\ pc = "next" /\ first_chunk >= Length
    /\ pc' = "done"
    /\ UNCHANGED <<inputVars, first_chunk, range_start_chunk, header_len, requested>>
    /\ UNCHANGED <<chunk_count, ranges>>

-----------------------------------------------------------------------------
(***************************************************************************)
(* A bundle on disk.                                                       *)
(***************************************************************************)

OpenBundle ==
    /\ pc = "open"
    /\ pc' \in {"local", "failed"}
    /\ UNCHANGED <<inputVars, first_chunk, range_start_chunk, header_len, requested>>
    /\ UNCHANGED <<chunk_count, ranges>>

(* Seek to the next chunk and read it; a file that ends before the chunk   *)
(* does fails the assertion.                                               *)
ReadChunk ==
    /\ pc = "local" /\ first_chunk < Length
    /\ \/ /\ ranges' = [ranges EXCEPT ![first_chunk] =
                            Copy(Bytes(0, BundleSize - 1), Start(first_chunk) + 1, Size(first_chunk))]
          /\ first_chunk' = first_chunk + 1
          /\ UNCHANGED pc
       \/ pc' = "aborted" /\ UNCHANGED <<first_chunk, ranges>>
    /\ UNCHANGED <<inputVars, range_start_chunk, header_len, requested, chunk_count>>

CloseBundle ==
    /\ pc = "local" /\ first_chunk >= Length
    /\ pc' = "done"
    /\ UNCHANGED <<inputVars, first_chunk, range_start_chunk, header_len, requested>>
    /\ UNCHANGED <<chunk_count, ranges>>

-----------------------------------------------------------------------------

Ended == pc \in {"done", "failed", "aborted"}

Next ==
    \/ NewRequest
    \/ \E k \in DOMAIN chunks, l \in RangeLens : AddRange(k, l)
    \/ ReceiveWhole \/ ReceiveOne \/ ReceiveMany \/ ReceiveFails
    \/ Return
    \/ OpenBundle \/ ReadChunk \/ CloseBundle
    \/ Ended /\ UNCHANGED vars

Spec == Init /\ [][Next]_vars

-----------------------------------------------------------------------------

(* Every variable has its type; in particular first_chunk never passes the *)
(* end of the list.                                                        *)
TypeOK ==
    /\ pc \in {"open", "local", "next", "ranges", "send", "done", "failed", "aborted"}
    /\ first_chunk \in 0 .. Length
    /\ range_start_chunk \in 0 .. Length
    /\ header_len \in Nat
    /\ chunk_count \in 0 .. Length
    /\ requested \in Seq([from : Nat, to : Nat])
    /\ DOMAIN ranges = DOMAIN chunks

(* The request with its terminating zero fits into request_header, with    *)
(* the "\r\n\r\n" of socket_utils.c:379 at the end: the test of line 368   *)
(* leaves room for one more range of any length.                           *)
HeaderFits == header_len + 1 <= HeaderSize

(* Every chunk that was fetched has its own bytes, whichever way the       *)
(* server answered and whatever the bytes look like, and when              *)
(* download_ranges or get_ranges returns all of them were (socket_utils.c: *)
(* 287-339).                                                               *)
FetchedRight ==
    \A k \in DOMAIN chunks :
        \/ ranges[k] = Bytes(Start(k), Start(k) + Size(k) - 1)
        \/ ranges[k] = None /\ pc # "done"

(* A request asks for exactly the bytes of the chunks it is for, in ranges *)
(* that ascend and do not touch, so that a server has no reason to merge   *)
(* two of them and each comes back as one part (socket_utils.c:347-377).   *)
RequestExact ==
    pc = "send" =>
        /\ UNION {r.from .. r.to : r \in {requested[n] : n \in 1 .. Len(requested)}}
             = UNION {Start(k) .. Start(k) + Size(k) - 1 :
                         k \in first_chunk .. first_chunk + chunk_count - 1}
        /\ \A n \in 2 .. Len(requested) : requested[n - 1].to + 1 < requested[n].from

(* A bundle that takes several requests is cut between them where it may   *)
(* be: no request asks again for a byte of a chunk that was fetched before *)
(* it, also where a chunk occurs twice (socket_utils.c:349, 363-374 and    *)
(* 398-400).                                                               *)
NothingTwice ==
    pc = "send" =>
        \A n \in 1 .. Len(requested), k \in DOMAIN chunks :
            ranges[k] # None => Start(k) + Size(k) - 1 < requested[n].from

=============================================================================
