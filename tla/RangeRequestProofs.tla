------------------------- MODULE RangeRequestProofs -------------------------
(***************************************************************************)
(* Proofs about RangeRequest for every bundle, every list of chunks and    *)
(* every size of the two buffers that leaves room for one range.           *)
(*                                                                         *)
(* The argument for the buffer: while ranges are added the request leaves  *)
(* room for a range of any length, the end of the header and the           *)
(* terminating zero (Room); the test for a full header restores this       *)
(* before a comma is added, and otherwise the range is the last one.       *)
(*                                                                         *)
(* The argument for the request: chunks lie one behind the other in their  *)
(* bundle (Placed), and the chunks of a request are cut into ranges where  *)
(* there is a gap (Cut), so within a range there is no hole.  For the      *)
(* bytes: a body has the ranges in this order with a break before each     *)
(* (Shape), so the walk finds the beginning of each, and every chunk       *)
(* before first_chunk has its bytes (Fetched).                             *)
(***************************************************************************)
EXTENDS RangeRequest, FiniteSetTheorems, Induction, TLAPS

(* The list is indexed from 0.                                             *)
Listed ==
    /\ Length \in Nat \ {0}
    /\ chunks \in [0 .. Length - 1 -> Chunk]

Room == pc = "ranges" => header_len <= HeaderSize - RangeSize - 3

(* Ranges are added up to the end of the list and not beyond.              *)
Scan ==
    /\ pc = "ranges" => first_chunk < Length /\ range_start_chunk \in first_chunk .. Length
    /\ pc = "send" => chunk_count \in 1 .. Length - first_chunk

IndInv == TypeOK /\ Listed /\ Room /\ Scan /\ HeaderFits

(* The initial states satisfy the invariant.                               *)
LEMMA InitInv == Init => IndInv
<1> SUFFICES ASSUME Init PROVE IndInv
  OBVIOUS
<1>1. PICK n \in 1 .. MaxChunks : chunks \in Lists(bundle, n)
  BY DEF Init
<1>2. n \in Nat \ {0}
  BY MaxChunksAssumption
<1>3. chunks \in [0 .. n - 1 -> Chunk]
  <2>1. bundle \in Seq(Chunk)
    BY BundlesAssumption DEF Init
  <2>2. PICK p \in [0 .. n - 1 -> 1 .. Len(bundle)] :
            chunks = [j \in 0 .. n - 1 |-> bundle[p[j]]]
    BY <1>1 DEF Lists
  <2>3. \A j \in 0 .. n - 1 : bundle[p[j]] \in Chunk
    BY <2>1, <2>2
  <2>. QED
    BY <2>2, <2>3
<1>4. DOMAIN chunks = 0 .. n - 1
  BY <1>3
<1>5. Length = n
  BY <1>2, <1>4, FS_Interval DEF Length
<1>6. Listed
  BY <1>2, <1>3, <1>5 DEF Listed
<1>7. TypeOK
  BY <1>2, <1>5 DEF Init, TypeOK
<1>8. Room /\ Scan /\ HeaderFits
  BY BuffersAssumption DEF Init, Room, Scan, HeaderFits
<1>. QED
  BY <1>6, <1>7, <1>8 DEF IndInv

(* The assertion on the number of chunks handled holds.                    *)
LEMMA AnswerCounted ==
    ASSUME TypeOK, Listed, Scan
    PROVE  /\ ReceiveWhole => first_chunk' = Length /\ pc' = "next"
           /\ ReceiveOne => first_chunk' = first_chunk + 1 /\ pc' = "next"
           /\ ReceiveMany => first_chunk' = first_chunk + chunk_count /\ pc' = "next"
<1>1. Length \in Nat /\ first_chunk \in 0 .. Length
    BY DEF TypeOK, Listed
<1>2. pc = "send" => chunk_count \in 1 .. Length - first_chunk
    BY DEF Scan
<1>3. ReceiveWhole => first_chunk' = Length /\ pc' = "next"
    BY <1>1, <1>2 DEF ReceiveWhole, Handled, Rest
<1>4. ReceiveOne => first_chunk' = first_chunk + 1 /\ pc' = "next"
    BY <1>1, <1>2 DEF ReceiveOne, Handled
<1>5. ReceiveMany => first_chunk' = first_chunk + chunk_count /\ pc' = "next"
    BY <1>1, <1>2 DEF ReceiveMany, Handled
<1>. QED BY <1>3, <1>4, <1>5

(* Every step preserves the invariant.                                     *)
LEMMA NextInv == IndInv /\ [Next]_vars => IndInv'
<1> SUFFICES ASSUME IndInv, [Next]_vars PROVE IndInv'
  OBVIOUS
<1>0. UNCHANGED <<chunks, Length>>
  BY DEF Next, NewRequest, AddRange, ReceiveWhole, ReceiveOne, ReceiveMany, ReceiveFails,
     Return, OpenBundle, ReadChunk, CloseBundle, vars, inputVars, Length
<1>a. Listed'
  BY <1>0 DEF IndInv, Listed
<1>b. \A h \in Nat : h <= HeaderSize - RangeSize - 3 => h + 1 <= HeaderSize
  BY BuffersAssumption
<1> USE BuffersAssumption DEF IndInv, TypeOK, Listed, Room, Scan, HeaderFits
<1>1. CASE NewRequest
  <2>1. header_len' \in Nat /\ header_len' <= HeaderSize - RangeSize - 3
    BY <1>1, PrefixAssumption DEF NewRequest
  <2>2. /\ pc' = "ranges" /\ first_chunk < Length /\ range_start_chunk' = first_chunk
        /\ requested' = <<>> /\ UNCHANGED <<first_chunk, chunk_count, ranges>>
    BY <1>1 DEF NewRequest
  <2>3. TypeOK' /\ Scan'
    BY <1>0, <2>1, <2>2
  <2>4. Room'
    BY <2>1 DEF Room
  <2>5. HeaderFits'
    BY <2>1, <1>b
  <2>. QED
    BY <1>a, <2>3, <2>4, <2>5
<1>2. ASSUME NEW k \in DOMAIN chunks, NEW l \in RangeLens, AddRange(k, l)
      PROVE  IndInv'
  <2>1. l \in Nat /\ l <= RangeSize - 2
    BY RangeLensAssumption
  <2>2. k \in Nat /\ range_start_chunk <= k /\ k <= Length - 1
    BY <1>2 DEF AddRange, Last
  <2>3. requested' \in Seq([from : Nat, to : Nat])
    <3>1. range_start_chunk \in 0 .. Length - 1
      BY <2>2
    <3>2. chunks[range_start_chunk] \in Chunk /\ chunks[k] \in Chunk
      BY <3>1, <2>2
    <3>3. Start(range_start_chunk) \in Nat /\ Start(k) \in Nat /\ Size(k) \in Nat \ {0}
      BY <3>2 DEF Start, Size, Chunk
    <3>4. Start(k) + Size(k) - 1 \in Nat
      BY <3>3
    <3>. QED
      BY <1>2, <3>3, <3>4 DEF AddRange
  <2>4. range_start_chunk' = k + 1 /\ UNCHANGED <<first_chunk, ranges>>
    BY <1>2 DEF AddRange
  <2>5. CASE k = Last \/ HeaderFull(l)
    <3>1. header_len' = header_len + l + 4 /\ chunk_count' = k - first_chunk + 1 /\ pc' = "send"
      BY <1>2, <2>5 DEF AddRange
    <3>2. pc = "ranges"
      BY <1>2 DEF AddRange
    <3>3. TypeOK' /\ Scan'
      BY <1>0, <2>2, <2>1, <2>3, <2>4, <3>1, <3>2
    <3>4. HeaderFits' /\ Room'
      BY <2>1, <3>1, <3>2
    <3>. QED
      BY <1>a, <3>3, <3>4
  <2>6. CASE ~(k = Last \/ HeaderFull(l))
    <3>1. header_len' = header_len + l + 1 /\ chunk_count' = chunk_count /\ pc' = "ranges"
      BY <1>2, <2>6 DEF AddRange
    <3>2. pc = "ranges"
      BY <1>2 DEF AddRange
    <3>3. TypeOK' /\ Scan'
      BY <1>0, <2>2, <2>1, <2>3, <2>4, <3>1, <3>2
    <3>4. header_len + l <= HeaderSize - RangeSize - 4
      BY <2>1, <2>6 DEF HeaderFull
    <3>5. HeaderFits' /\ Room'
      BY <2>1, <3>1, <3>4
    <3>. QED
      BY <1>a, <3>3, <3>5
  <2>. QED
    BY <2>5, <2>6
<1>3. CASE ReceiveWhole
  BY <1>0, <1>3, <1>a, AnswerCounted DEF ReceiveWhole
<1>4. CASE ReceiveOne
  BY <1>0, <1>4, <1>a, AnswerCounted DEF ReceiveOne
<1>5. CASE ReceiveMany
  BY <1>0, <1>5, <1>a, AnswerCounted DEF ReceiveMany
<1>6. CASE ReceiveFails
  BY <1>0, <1>6, <1>a DEF ReceiveFails
<1>7. CASE Return
  BY <1>0, <1>7, <1>a DEF Return
<1>8. CASE UNCHANGED vars
  BY <1>0, <1>8, <1>a DEF vars, inputVars
<1>9. CASE OpenBundle
  BY <1>0, <1>9, <1>a DEF OpenBundle
<1>10. CASE ReadChunk
  BY <1>0, <1>10, <1>a DEF ReadChunk
<1>11. CASE CloseBundle
  BY <1>0, <1>11, <1>a DEF CloseBundle
<1>. QED
  BY <1>1, <1>2, <1>3, <1>4, <1>5, <1>6, <1>7, <1>8, <1>9, <1>10, <1>11 DEF Next

(* IndInv is an invariant.                                                 *)
LEMMA Invariance == Spec => []IndInv
<1>. QED
  BY InitInv, NextInv, PTL DEF Spec

-----------------------------------------------------------------------------

(* The request never overflows request_header (socket_utils.c:354-379),    *)
(* for buffers of any size, whatever the lengths of the ranges and however *)
(* many of them there are.                                                 *)
THEOREM HeaderFitsAlways == Spec => []HeaderFits
<1>1. IndInv => HeaderFits
  BY DEF IndInv
<1>. QED
  BY Invariance, <1>1, PTL

(* Type correctness: first_chunk and chunk_count stay within the list, so  *)
(* no chunk beyond it is read or written.                                  *)
THEOREM TypeCorrect == Spec => []TypeOK
<1>1. IndInv => TypeOK
  BY DEF IndInv
<1>. QED
  BY Invariance, <1>1, PTL

-----------------------------------------------------------------------------
(***************************************************************************)
(* The list of chunks.                                                     *)
(***************************************************************************)

(* A chunk is the same as the one before it or lies behind it, and no      *)
(* chunk reaches beyond the bundle.                                        *)
Placed ==
    /\ BundleSize \in Nat
    /\ \A j \in 0 .. Length - 1 : Start(j) \in Nat /\ Size(j) \in Nat \ {0}
    /\ \A j \in 1 .. Length - 1 :
          \/ Start(j) = Start(j - 1) /\ Size(j) = Size(j - 1)
          \/ Start(j) >= Start(j - 1) + Size(j - 1)
    /\ \A j \in 0 .. Length - 1 : Start(j) + Size(j) <= BundleSize

(* In a bundle every chunk lies behind all earlier ones.                   *)
LEMMA BundleOrder ==
    ASSUME NEW b \in Bundles, NEW x \in 1 .. Len(b), NEW y \in 1 .. Len(b), x < y
    PROVE  b[x].bundle_offset + b[x].compressed_size <= b[y].bundle_offset
<1>1. /\ \A k \in 1 .. Len(b) : b[k].bundle_offset \in Nat /\ b[k].compressed_size \in Nat \ {0}
      /\ \A k \in 2 .. Len(b) :
            b[k].bundle_offset = b[k - 1].bundle_offset + b[k - 1].compressed_size
      /\ Len(b) \in Nat
  <2>1. b \in Seq(Chunk)
      BY BundlesAssumption
  <2>2. \A k \in 1 .. Len(b) : b[k] \in Chunk
      BY <2>1
  <2>. QED BY SMTT(30), <2>1, <2>2, BundlesAssumption DEF Chunk
<1>2. PICK l \in Nat : l = Len(b) /\ x \in 1 .. l /\ y \in 1 .. l
    BY <1>1
<1>3. PICK off \in [1 .. l -> Nat], size \in [1 .. l -> Nat] :
         \A k \in 1 .. l : off[k] = b[k].bundle_offset /\ size[k] = b[k].compressed_size
  <2> DEFINE o == [k \in 1 .. l |-> b[k].bundle_offset]
             z == [k \in 1 .. l |-> b[k].compressed_size]
  <2>1. o \in [1 .. l -> Nat] /\ z \in [1 .. l -> Nat]
      BY <1>1, <1>2
  <2>2. \A k \in 1 .. l : o[k] = b[k].bundle_offset /\ z[k] = b[k].compressed_size
      OBVIOUS
  <2>. QED BY <2>1, <2>2
<1>4. \A k \in 2 .. l : off[k] = off[k - 1] + size[k - 1]
  <2> TAKE k \in 2 .. l
  <2>1. k \in 1 .. l /\ k - 1 \in 1 .. l
      OBVIOUS
  <2>. QED BY <1>1, <1>2, <1>3, <2>1
<1>5. PICK end \in Nat : end = off[x] + size[x]
    BY <1>2
<1> DEFINE T == {m \in Int : m <= l => end <= off[m]}
<1>6. x + 1 \in T
  <2>1. x + 1 \in Int /\ (x + 1) - 1 = x
      BY <1>2
  <2>2. ASSUME x + 1 <= l PROVE end <= off[x + 1]
    <3>1. x + 1 \in 2 .. l
        BY <1>2, <2>2
    <3>2. off[x + 1] = end
        BY <1>4, <1>5, <2>1, <3>1
    <3>. QED BY <3>2
  <2>. QED BY <2>1, <2>2
<1>7. ASSUME NEW m \in Int, m >= x + 1, m \in T PROVE m + 1 \in T
  <2>1. m + 1 \in Int /\ (m + 1) - 1 = m
      OBVIOUS
  <2>2. ASSUME m + 1 <= l PROVE end <= off[m + 1]
    <3>1. m + 1 \in 2 .. l /\ m \in 1 .. l /\ m <= l
        BY <1>2, <1>7, <2>2
    <3>2. PICK u \in Nat, v \in Nat : u = off[m] /\ v = size[m]
        BY <3>1
    <3>3. off[m + 1] = u + v
        BY <1>4, <2>1, <3>1, <3>2
    <3>4. end <= u
        BY <1>7, <3>1, <3>2
    <3>. QED BY <3>3, <3>4
  <2>. QED BY <2>1, <2>2
<1> HIDE DEF T
<1>8. \A m \in Int : m >= x + 1 => m \in T
  <2>1. x + 1 \in Int
      BY <1>2
  <2>2. \A m \in Int : m >= x + 1 /\ m \in T => m + 1 \in T
      BY <1>7
  <2>. QED BY ONLY <1>6, <2>1, <2>2, InductionFrom
<1>9. y \in T
    BY <1>2, <1>8
<1>10. end <= off[y]
    BY <1>2, <1>9 DEF T
<1>. QED BY <1>2, <1>3, <1>5, <1>10

(* The lists that group_by_bundles builds.                                 *)
LEMMA InitPlaced == Init => Placed
<1> SUFFICES ASSUME Init PROVE Placed
    OBVIOUS
<1>1. Listed
    BY InitInv DEF IndInv
<1>2. PICK n \in 1 .. MaxChunks : chunks \in Lists(bundle, n)
    BY DEF Init
<1>3. n \in Nat \ {0} /\ bundle \in Bundles /\ bundle \in Seq(Chunk) /\ Len(bundle) \in Nat \ {0}
  <2>1. bundle \in Bundles
      BY DEF Init
  <2>2. bundle \in Seq(Chunk) /\ bundle # <<>>
      BY <2>1, BundlesAssumption
  <2>. QED BY <2>1, <2>2, MaxChunksAssumption
<1>4. PICK p \in [0 .. n - 1 -> 1 .. Len(bundle)] :
          /\ chunks = [j \in 0 .. n - 1 |-> bundle[p[j]]]
          /\ \A j \in 1 .. n - 1 : p[j - 1] <= p[j]
    BY <1>2 DEF Lists
<1>5. Length = n
  <2>1. DOMAIN chunks = 0 .. n - 1
      BY <1>4
  <2>. QED BY <1>3, <2>1, FS_Interval DEF Length
<1>6. \A x \in 1 .. Len(bundle) : bundle[x].bundle_offset \in Nat /\ bundle[x].compressed_size \in Nat \ {0}
  <2>1. \A x \in 1 .. Len(bundle) : bundle[x] \in Chunk
      BY <1>3
  <2>. QED BY <2>1 DEF Chunk
<1>7. BundleSize \in Nat
  <2>1. Len(bundle) \in 1 .. Len(bundle)
      BY <1>3
  <2>. QED BY <1>6, <2>1 DEF BundleSize
<1>8. \A j \in 0 .. n - 1 : Start(j) = bundle[p[j]].bundle_offset /\ Size(j) = bundle[p[j]].compressed_size
    BY <1>4 DEF Start, Size
<1>9. \A j \in 0 .. n - 1 : Start(j) \in Nat /\ Size(j) \in Nat \ {0}
    BY <1>6, <1>8
<1>10. ASSUME NEW j \in 1 .. n - 1
       PROVE  \/ Start(j) = Start(j - 1) /\ Size(j) = Size(j - 1)
              \/ Start(j) >= Start(j - 1) + Size(j - 1)
  <2>1. j - 1 \in 0 .. n - 1 /\ j \in 0 .. n - 1
      BY <1>3
  <2>2. p[j - 1] <= p[j] /\ p[j - 1] \in 1 .. Len(bundle) /\ p[j] \in 1 .. Len(bundle)
      BY <1>4, <2>1
  <2>3. CASE p[j - 1] = p[j]
      BY <1>8, <2>1, <2>3
  <2>4. CASE p[j - 1] < p[j]
    <3>1. bundle[p[j - 1]].bundle_offset + bundle[p[j - 1]].compressed_size <= bundle[p[j]].bundle_offset
        BY <1>3, <2>2, <2>4, BundleOrder
    <3>2. \A u, v \in Int : u <= v => v >= u
        OBVIOUS
    <3>3. Start(j - 1) + Size(j - 1) <= Start(j)
        BY <1>8, <2>1, <3>1
    <3>. QED BY <1>9, <2>1, <3>3
  <2>5. p[j - 1] = p[j] \/ p[j - 1] < p[j]
      BY <2>2
  <2>. QED BY <2>3, <2>4, <2>5
<1>11. ASSUME NEW j \in 0 .. n - 1
       PROVE  Start(j) + Size(j) <= BundleSize
  <2>1. p[j] \in 1 .. Len(bundle)
      BY <1>4
  <2>2. Len(bundle) \in 1 .. Len(bundle)
      BY <1>3
  <2>3. CASE p[j] = Len(bundle)
    <3>1. Start(j) + Size(j) = BundleSize
        BY <1>8, <2>3 DEF BundleSize
    <3>. QED BY <1>7, <3>1
  <2>4. CASE p[j] < Len(bundle)
    <3>1. bundle[p[j]].bundle_offset + bundle[p[j]].compressed_size <= bundle[Len(bundle)].bundle_offset
        BY <1>3, <2>1, <2>2, <2>4, BundleOrder
    <3>2. \A u, v \in Nat, w \in Nat : u <= v => u <= v + w
        OBVIOUS
    <3>3. Start(j) + Size(j) <= bundle[Len(bundle)].bundle_offset
        BY <1>8, <3>1
    <3>4. Start(j) + Size(j) \in Nat
        BY SMTT(30), <1>9
    <3>5. bundle[Len(bundle)].bundle_offset \in Nat /\ bundle[Len(bundle)].compressed_size \in Nat
        BY <1>6, <2>2
    <3>. QED BY <3>2, <3>3, <3>4, <3>5 DEF BundleSize
  <2>5. p[j] = Len(bundle) \/ p[j] < Len(bundle)
      BY <2>1, <2>2
  <2>. QED BY <2>3, <2>4, <2>5
<1>. QED BY <1>5, <1>7, <1>9, <1>10, <1>11 DEF Placed

(* Later chunks begin and end not earlier.                                 *)
LEMMA PlacesAscend ==
    ASSUME Listed, Placed, NEW a \in 0 .. Length - 1, NEW b \in 0 .. Length - 1, a <= b
    PROVE  Start(a) <= Start(b) /\ Start(a) + Size(a) <= Start(b) + Size(b)
<1> DEFINE T == {m \in Int : m <= Length - 1 =>
                    Start(a) <= Start(m) /\ Start(a) + Size(a) <= Start(m) + Size(m)}
<1>1. Length \in Nat /\ \A j \in 0 .. Length - 1 : Start(j) \in Nat /\ Size(j) \in Nat \ {0}
    BY DEF Listed, Placed
<1>2. a \in T
    BY <1>1
<1>3. ASSUME NEW m \in Int, m >= a, m \in T, m + 1 <= Length - 1
      PROVE  Start(a) <= Start(m + 1) /\ Start(a) + Size(a) <= Start(m + 1) + Size(m + 1)
  <2>1. m + 1 \in 1 .. Length - 1 /\ (m + 1) - 1 = m /\ m <= Length - 1 /\ m \in 0 .. Length - 1
        /\ m + 1 \in 0 .. Length - 1
      BY <1>1, <1>3
  <2>2. \/ Start(m + 1) = Start(m) /\ Size(m + 1) = Size(m)
        \/ Start(m + 1) >= Start(m) + Size(m)
      BY <2>1 DEF Placed
  <2>3. Start(a) <= Start(m) /\ Start(a) + Size(a) <= Start(m) + Size(m)
      BY <1>3, <2>1
  <2>. QED BY <1>1, <2>1, <2>2, <2>3
<1>4. \A m \in Int : m >= a /\ m \in T => m + 1 \in T
    BY <1>3
<1> HIDE DEF T
<1>5. \A m \in Int : m >= a => m \in T
    BY <1>2, <1>4, InductionFrom
<1>6. b \in T
    BY <1>5
<1>. QED BY <1>1, <1>6 DEF T

(* chunk_to_range_map does not descend, and two chunks have the same entry *)
(* iff there is no gap from one to the other.                              *)
LEMMA SameRange ==
    ASSUME NEW a \in Nat, NEW b \in Nat, a <= b
    PROVE  /\ RangeOf(a) \in Nat /\ RangeOf(b) \in Nat /\ RangeOf(a) <= RangeOf(b)
           /\ RangeOf(a) = RangeOf(b) <=> \A j \in a + 1 .. b : ~Gap(j)
<1> DEFINE A == {j \in 1 .. a : Gap(j)}
           B == {j \in 1 .. b : Gap(j)}
<1>1. IsFiniteSet(1 .. b) /\ IsFiniteSet(1 .. a)
    BY FS_Interval
<1>2. IsFiniteSet(B) /\ IsFiniteSet(A)
    BY <1>1, FS_Subset
<1>3. A \subseteq B
    OBVIOUS
<1>4. Cardinality(A) <= Cardinality(B) /\ (Cardinality(B) = Cardinality(A) => B = A)
    BY <1>2, <1>3, FS_Subset
<1>5. Cardinality(A) \in Nat /\ Cardinality(B) \in Nat
    BY <1>2, FS_CardinalityType
<1>6. A = B <=> \A j \in a + 1 .. b : ~Gap(j)
  <2>1. ASSUME A = B, NEW j \in a + 1 .. b PROVE ~Gap(j)
    <3>1. j \in 1 .. b /\ j \notin 1 .. a
        BY <2>1
    <3>. QED BY <2>1, <3>1
  <2>2. ASSUME \A j \in a + 1 .. b : ~Gap(j) PROVE B \subseteq A
    <3>1. \A j \in 1 .. b : j \in 1 .. a \/ j \in a + 1 .. b
        OBVIOUS
    <3>. QED BY <2>2, <3>1
  <2>. QED BY <1>3, <2>1, <2>2
<1> HIDE DEF A, B
<1>7. RangeOf(a) = Cardinality(A) /\ RangeOf(b) = Cardinality(B)
    BY DEF RangeOf, A, B
<1>. QED BY <1>4, <1>5, <1>6, <1>7

(* A range ends with the list or before a gap.                             *)
LEMMA RangeEnds ==
    ASSUME Listed, NEW k \in 0 .. Length - 1
    PROVE  EndsRange(k) <=> (k < Length - 1 => Gap(k + 1))
<1>1. k \in Nat /\ k + 1 \in Nat /\ k <= k + 1 /\ \A j \in k + 1 .. k + 1 : j = k + 1
    OBVIOUS
<1>2. RangeOf(k) = RangeOf(k + 1) <=> \A j \in k + 1 .. k + 1 : ~Gap(j)
    BY <1>1, SameRange
<1>3. k + 1 \in k + 1 .. k + 1
    BY <1>1
<1>4. RangeOf(k) = RangeOf(k + 1) <=> ~Gap(k + 1)
    BY <1>1, <1>2, <1>3
<1>. QED BY <1>4 DEF EndsRange, Last

-----------------------------------------------------------------------------
(***************************************************************************)
(* The request.                                                            *)
(***************************************************************************)

(* The chunks of the request so far are cut into ranges at g: range m is   *)
(* made of chunks g[m] to g[m + 1] - 1, which follow each other without a  *)
(* gap, and a gap or the end of the list follows.                          *)
Cut(g) ==
    LET n == Len(requested) IN
    /\ n \in Nat /\ g \in [1 .. n + 1 -> 0 .. Length]
    /\ g[1] = first_chunk /\ g[n + 1] = range_start_chunk
    /\ \A l, m \in 1 .. n + 1 : l < m => g[l] < g[m]
    /\ \A k \in first_chunk .. range_start_chunk - 1 : \E m \in 1 .. n : k \in g[m] .. g[m + 1] - 1
    /\ \A m \in 1 .. n :
          /\ requested[m].from = Start(g[m])
          /\ requested[m].to = Start(g[m + 1] - 1) + Size(g[m + 1] - 1) - 1
          /\ \A j \in g[m] + 1 .. g[m + 1] - 1 : ~Gap(j)
          /\ g[m + 1] < Length => Gap(g[m + 1])

CutInv ==
    /\ pc \in {"ranges", "send"} => \E g : Cut(g)
    /\ pc = "send" => range_start_chunk = first_chunk + chunk_count

RequestInv == IndInv /\ Placed /\ CutInv

(* An empty request.                                                       *)
LEMMA CutBegins ==
    ASSUME RequestInv, NewRequest
    PROVE  CutInv'
<1>1. /\ requested' = <<>> /\ range_start_chunk' = first_chunk /\ pc' = "ranges"
      /\ UNCHANGED <<chunks, first_chunk>> /\ first_chunk < Length
    BY DEF NewRequest, inputVars
<1>2. first_chunk \in 0 .. Length /\ Length \in Nat /\ Length' = Length
    BY <1>1 DEF RequestInv, IndInv, TypeOK, Listed, Length
<1>0. PICK g : g = [m \in 1 .. 1 |-> first_chunk]
    OBVIOUS
<1>3. Len(requested') = 0
    BY <1>1
<1>4. g \in [1 .. 1 -> 0 .. Length] /\ g[1] = first_chunk
    BY <1>0, <1>2
<1>5. /\ \A l, m \in 1 .. 1 : ~(l < m)
      /\ \A k \in first_chunk .. first_chunk - 1 : FALSE
      /\ \A m \in 1 .. 0 : FALSE
    BY <1>2
<1>6. Cut(g)'
  <2>1. /\ Len(requested') + 1 = 1 /\ Len(requested') \in Nat /\ g \in [1 .. 1 -> 0 .. Length']
        /\ g[1] = first_chunk' /\ g[1] = range_start_chunk'
      BY <1>1, <1>2, <1>3, <1>4
  <2>2. \A k \in first_chunk' .. range_start_chunk' - 1 : FALSE
      BY <1>1, <1>5
  <2>3. \A m \in 1 .. Len(requested') : FALSE
      BY <1>3, <1>5
  <2>. QED BY <1>5, <2>1, <2>2, <2>3 DEF Cut
<1>. QED BY <1>1, <1>6 DEF CutInv

(* One more range.                                                         *)
LEMMA CutGrows ==
    ASSUME RequestInv, NEW k \in DOMAIN chunks, NEW l \in RangeLens, AddRange(k, l)
    PROVE  CutInv'
<1> DEFINE n == Len(requested)
           r == [from |-> Start(range_start_chunk), to |-> Start(k) + Size(k) - 1]
<1>1. /\ pc = "ranges" /\ k \in range_start_chunk .. Length - 1
      /\ EndsRange(k) /\ \A j \in range_start_chunk .. k - 1 : ~EndsRange(j)
      /\ requested' = Append(requested, r) /\ range_start_chunk' = k + 1
      /\ UNCHANGED <<chunks, first_chunk>>
    BY DEF AddRange, inputVars, Last
<1>2. /\ first_chunk \in Nat /\ range_start_chunk \in first_chunk .. Length /\ Length \in Nat
      /\ Listed /\ Placed /\ requested \in Seq([from : Nat, to : Nat])
    BY <1>1 DEF RequestInv, IndInv, TypeOK, Listed, Scan
<1>3. PICK g : Cut(g)
    BY <1>1 DEF RequestInv, CutInv
<1>4. /\ n \in Nat /\ Len(requested') = n + 1 /\ requested'[n + 1] = r
      /\ \A m \in 1 .. n : requested'[m] = requested[m]
    BY <1>1, <1>2
<1>0. PICK h : h = [m \in 1 .. n + 2 |-> IF m <= n + 1 THEN g[m] ELSE k + 1]
    OBVIOUS
<1>5. /\ h[n + 2] = k + 1 /\ \A m \in 1 .. n + 1 : h[m] = g[m]
    BY <1>0, <1>4
<1>6. /\ g \in [1 .. n + 1 -> 0 .. Length] /\ g[1] = first_chunk /\ g[n + 1] = range_start_chunk
      /\ \A m \in 1 .. n + 1 : g[m] <= range_start_chunk
  <2>1. /\ g \in [1 .. n + 1 -> 0 .. Length] /\ g[1] = first_chunk /\ g[n + 1] = range_start_chunk
        /\ \A m \in 1 .. n + 1 : m < n + 1 => g[m] < g[n + 1]
    <3>1. n + 1 \in 1 .. n + 1
        BY <1>4
    <3>. QED BY <1>3, <3>1 DEF Cut
  <2>2. ASSUME NEW m \in 1 .. n + 1 PROVE g[m] <= range_start_chunk
    <3>1. g[m] \in Int /\ range_start_chunk \in Int
        BY <1>2, <2>1
    <3>2. m < n + 1 \/ m = n + 1
        BY <1>4
    <3>3. g[m] < range_start_chunk \/ g[m] = range_start_chunk
        BY <2>1, <3>2
    <3>. QED BY <3>1, <3>3
  <2>. QED BY <2>1, <2>2
<1>7. k \in Nat /\ range_start_chunk <= k /\ k + 1 \in 0 .. Length
    BY <1>1, <1>2
<1>8. h \in [1 .. (n + 1) + 1 -> 0 .. Length]
  <2>1. \A m \in 1 .. n + 2 : h[m] \in 0 .. Length
    <3> TAKE m \in 1 .. n + 2
    <3>1. CASE m <= n + 1
        BY <1>4, <1>5, <1>6, <3>1
    <3>2. CASE m = n + 2
        BY <1>4, <1>5, <1>7, <3>2
    <3>. QED BY <1>4, <3>1, <3>2
  <2>2. 1 .. n + 2 = 1 .. (n + 1) + 1
      BY <1>4
  <2>. QED BY <1>0, <2>1, <2>2
<1>9. h[1] = first_chunk /\ h[(n + 1) + 1] = k + 1 /\ h[n + 1] = range_start_chunk
  <2>1. 1 \in 1 .. n + 1 /\ n + 1 \in 1 .. n + 1 /\ (n + 1) + 1 = n + 2
      BY <1>4
  <2>. QED BY <1>5, <1>6, <2>1
<1>10. ASSUME NEW a \in 1 .. (n + 1) + 1, NEW m \in 1 .. (n + 1) + 1, a < m
       PROVE  h[a] < h[m]
  <2>1. CASE m <= n + 1
    <3>1. a \in 1 .. n + 1 /\ m \in 1 .. n + 1
        BY <1>4, <1>10, <2>1
    <3>. QED BY <1>3, <1>5, <1>10, <3>1 DEF Cut
  <2>2. CASE m = n + 2
    <3>1. a \in 1 .. n + 1
        BY <1>4, <1>10, <2>2
    <3>2. h[a] <= range_start_chunk /\ h[a] \in 0 .. Length /\ h[m] = k + 1
        BY <1>5, <1>6, <2>2, <3>1
    <3>. QED BY <1>2, <1>7, <3>2
  <2>. QED BY <1>4, <2>1, <2>2
<1>11. ASSUME NEW j \in first_chunk .. k
       PROVE  \E m \in 1 .. n + 1 : j \in h[m] .. h[m + 1] - 1
  <2>1. CASE j < range_start_chunk
    <3>1. j \in first_chunk .. range_start_chunk - 1
        BY <1>2, <2>1
    <3>2. PICK m \in 1 .. n : j \in g[m] .. g[m + 1] - 1
        BY <1>3, <3>1 DEF Cut
    <3>3. m \in 1 .. n + 1 /\ m + 1 \in 1 .. n + 1
        BY <1>4
    <3>4. h[m] = g[m] /\ h[m + 1] = g[m + 1]
        BY <1>5, <3>3
    <3>. QED BY <3>2, <3>3, <3>4
  <2>2. CASE j >= range_start_chunk
    <3>1. n + 1 \in 1 .. n + 1 /\ j \in range_start_chunk .. (k + 1) - 1
        BY <1>2, <1>4, <1>7, <2>2
    <3>. QED BY <1>9, <3>1
  <2>. QED BY <1>2, <2>1, <2>2
<1>12. ASSUME NEW m \in 1 .. n + 1
       PROVE  /\ requested'[m].from = Start(h[m])
              /\ requested'[m].to = Start(h[m + 1] - 1) + Size(h[m + 1] - 1) - 1
              /\ \A j \in h[m] + 1 .. h[m + 1] - 1 : ~Gap(j)
              /\ h[m + 1] < Length => Gap(h[m + 1])
  <2>1. CASE m <= n
    <3>1. m \in 1 .. n /\ m \in 1 .. n + 1 /\ m + 1 \in 1 .. n + 1
        BY <1>4, <2>1
    <3>2. h[m] = g[m] /\ h[m + 1] = g[m + 1] /\ requested'[m] = requested[m]
        BY <1>4, <1>5, <3>1
    <3>. QED BY <1>3, <3>1, <3>2 DEF Cut
  <2>2. CASE m = n + 1
    <3>1. h[m] = range_start_chunk /\ h[m + 1] = k + 1 /\ (k + 1) - 1 = k /\ requested'[m] = r
        BY <1>4, <1>7, <1>9, <2>2
    <3>2. ASSUME NEW j \in range_start_chunk + 1 .. k PROVE ~Gap(j)
      <4>1. /\ j - 1 \in range_start_chunk .. k - 1 /\ j - 1 \in 0 .. Length - 1 /\ (j - 1) + 1 = j
            /\ j - 1 < Length - 1
          BY <1>1, <1>2, <1>7
      <4>2. ~EndsRange(j - 1)
          BY <1>1, <4>1
      <4>. QED BY <1>2, <4>1, <4>2, RangeEnds
    <3>3. k + 1 < Length => Gap(k + 1)
      <4>1. k \in 0 .. Length - 1 /\ (k + 1 < Length => k < Length - 1)
          BY <1>1, <1>2, <1>7
      <4>. QED BY <1>1, <1>2, <4>1, RangeEnds
    <3>. QED BY <3>1, <3>2, <3>3
  <2>. QED BY <1>4, <2>1, <2>2
<1>13. /\ Length' = Length /\ first_chunk' = first_chunk /\ range_start_chunk' = k + 1
       /\ \A j : Start(j)' = Start(j) /\ Size(j)' = Size(j) /\ Gap(j)' = Gap(j)
    BY <1>1 DEF Length, Start, Size, Gap
<1>14. Cut(h)'
  <2>1. /\ Len(requested') \in Nat /\ h \in [1 .. Len(requested') + 1 -> 0 .. Length']
        /\ h[1] = first_chunk' /\ h[Len(requested') + 1] = range_start_chunk'
      BY <1>4, <1>8, <1>9, <1>13
  <2>2. \A a, m \in 1 .. Len(requested') + 1 : a < m => h[a] < h[m]
      BY <1>4, <1>10
  <2>3. \A j \in first_chunk' .. range_start_chunk' - 1 :
            \E m \in 1 .. Len(requested') : j \in h[m] .. h[m + 1] - 1
    <3>1. (k + 1) - 1 = k
        BY <1>7
    <3>. QED BY <1>4, <1>11, <1>13, <3>1
  <2>4. \A m \in 1 .. Len(requested') :
          /\ requested'[m].from = Start(h[m])'
          /\ requested'[m].to = Start(h[m + 1] - 1)' + Size(h[m + 1] - 1)' - 1
          /\ \A j \in h[m] + 1 .. h[m + 1] - 1 : ~Gap(j)'
          /\ h[m + 1] < Length' => Gap(h[m + 1])'
      BY <1>4, <1>12, <1>13
  <2>. QED BY <2>1, <2>2, <2>3, <2>4 DEF Cut
<1>15. pc' = "send" => range_start_chunk' = first_chunk' + chunk_count'
  <2>1. pc' = "send" => chunk_count' = k - first_chunk + 1
      BY <1>1 DEF AddRange
  <2>. QED BY <1>2, <1>7, <1>13, <2>1
<1>. QED BY <1>14, <1>15 DEF CutInv

(* The list, and what the request covers, in every state.                  *)
LEMMA RequestInvariance == Spec => []RequestInv
<1>1. Init => RequestInv
  <2> SUFFICES ASSUME Init PROVE RequestInv
      OBVIOUS
  <2>1. pc \in {"open", "next"}
      BY DEF Init
  <2>. QED BY <2>1, InitInv, InitPlaced DEF RequestInv, CutInv
<1>2. RequestInv /\ [Next]_vars => RequestInv'
  <2> SUFFICES ASSUME RequestInv, [Next]_vars PROVE RequestInv'
      OBVIOUS
  <2>1. IndInv'
      BY NextInv DEF RequestInv
  <2>2. UNCHANGED <<chunks, bundle>>
      BY DEF Next, NewRequest, AddRange, ReceiveWhole, ReceiveOne, ReceiveMany, ReceiveFails,
         Return, OpenBundle, ReadChunk, CloseBundle, vars, inputVars
  <2>3. Placed'
      BY <2>2 DEF RequestInv, Placed, BundleSize, Length, Start, Size
  <2>4. CutInv'
    <3>1. CASE NewRequest
        BY <3>1, CutBegins
    <3>2. CASE \E k \in DOMAIN chunks, l \in RangeLens : AddRange(k, l)
        BY <3>2, CutGrows
    <3>3. CASE UNCHANGED vars
        BY <3>3 DEF RequestInv, CutInv, Cut, vars, inputVars, Length, Start, Size, Gap
    <3>4. CASE pc' \in {"next", "failed", "done", "local", "aborted"}
        BY <3>4 DEF CutInv
    <3>5. CASE ReadChunk
      <4>1. pc' \in {"local", "aborted"}
          BY <3>5 DEF ReadChunk
      <4>. QED BY <3>4, <4>1
    <3>6. CASE ReceiveWhole \/ ReceiveOne \/ ReceiveMany
      <4>1. pc' \in {"next", "aborted"}
          BY <3>6 DEF ReceiveWhole, ReceiveOne, ReceiveMany, Handled
      <4>. QED BY <3>4, <4>1
    <3>. QED BY <3>1, <3>2, <3>3, <3>4, <3>5, <3>6 DEF Next, ReceiveFails, Return, OpenBundle,
              CloseBundle
  <2>. QED BY <2>1, <2>3, <2>4 DEF RequestInv
<1>. QED BY <1>1, <1>2, PTL DEF Spec

(* Within a range every byte is one of a chunk.                            *)
LEMMA NoHole ==
    ASSUME Listed, Placed, NEW a \in 0 .. Length - 1, NEW b \in 0 .. Length - 1, a <= b,
           \A j \in a + 1 .. b : ~Gap(j),
           NEW x \in Start(a) .. Start(b) + Size(b) - 1
    PROVE  \E k \in a .. b : x \in Start(k) .. Start(k) + Size(k) - 1
<1> DEFINE S == {k \in a .. b : Start(k) <= x}
<1>1. /\ Length \in Nat /\ \A j \in 0 .. Length - 1 : Start(j) \in Nat /\ Size(j) \in Nat \ {0}
      /\ \A j \in a .. b : j \in 0 .. Length - 1
    BY DEF Listed, Placed
<1>2. a \in S /\ S \in SUBSET Nat /\ \A k \in S : k <= b
    BY <1>1
<1> HIDE DEF S
<1>3. PICK k \in S : \A y \in S : y <= k
  <2>1. b \in Nat /\ S # {}
      BY <1>2
  <2>. QED BY <1>2, <2>1, GreatestOf
<1>4. k \in a .. b /\ Start(k) <= x /\ k \in 0 .. Length - 1
    BY <1>1, <1>3 DEF S
<1>5. x <= Start(k) + Size(k) - 1
  <2>1. CASE k = b
      BY <1>1, <1>4, <2>1
  <2>2. CASE k # b
    <3>1. k + 1 \in a + 1 .. b /\ k + 1 \in a .. b /\ (k + 1) - 1 = k /\ ~(k + 1 <= k)
        BY <1>4, <2>2
    <3>2. ~(Start(k + 1) <= x)
        BY <1>3, <3>1 DEF S
    <3>3. Start(k) + Size(k) = Start(k + 1) \/ Start(k) = Start(k + 1)
        BY <3>1 DEF Gap
    <3>. QED BY <1>1, <1>4, <3>1, <3>2, <3>3
  <2>. QED BY <2>1, <2>2
<1>6. x \in Start(k) .. Start(k) + Size(k) - 1
    BY <1>1, <1>4, <1>5
<1>. QED BY <1>4, <1>6

(* The range of a request and the chunks it is made of.                    *)
LEMMA RangeBounds ==
    ASSUME RequestInv, NEW g, Cut(g), NEW m \in 1 .. Len(requested)
    PROVE  /\ g[m] \in 0 .. Length - 1 /\ g[m + 1] - 1 \in 0 .. Length - 1 /\ g[m] <= g[m + 1] - 1
           /\ g[m + 1] \in 0 .. Length /\ first_chunk <= g[m] /\ g[m + 1] <= range_start_chunk
<1> DEFINE n == Len(requested)
<1>1. /\ n \in Nat /\ m \in 1 .. n + 1 /\ m + 1 \in 1 .. n + 1 /\ m < m + 1 /\ n + 1 \in 1 .. n + 1
      /\ 1 \in 1 .. n + 1
    BY DEF Cut
<1>2. g[m] \in 0 .. Length /\ g[m + 1] \in 0 .. Length /\ g[m] < g[m + 1] /\ Length \in Nat
    BY <1>1 DEF Cut, RequestInv, IndInv, Listed
<1>3. first_chunk <= g[m]
  <2>1. first_chunk = g[1] /\ first_chunk \in Int
      BY DEF Cut, RequestInv, IndInv, TypeOK
  <2>2. 1 < m => g[1] < g[m]
      BY <1>1 DEF Cut
  <2>3. m = 1 \/ 1 < m
      BY <1>1
  <2>4. first_chunk = g[m] \/ first_chunk < g[m]
      BY <2>1, <2>2, <2>3
  <2>. QED BY <1>2, <2>1, <2>4
<1>4. g[m + 1] <= range_start_chunk
  <2>1. range_start_chunk = g[n + 1] /\ range_start_chunk \in Int
      BY DEF Cut, RequestInv, IndInv, TypeOK
  <2>2. m + 1 < n + 1 => g[m + 1] < g[n + 1]
      BY <1>1 DEF Cut
  <2>3. m + 1 = n + 1 \/ m + 1 < n + 1
      BY <1>1
  <2>4. g[m + 1] = range_start_chunk \/ g[m + 1] < range_start_chunk
      BY <2>1, <2>2, <2>3
  <2>. QED BY <1>2, <2>1, <2>4
<1>. QED BY <1>2, <1>3, <1>4

(* A request asks for exactly the bytes of the chunks it is for, in ranges *)
(* that ascend and do not touch, for every bundle, list and buffer.  The   *)
(* invariant is that the request so far is cut into ranges at the gaps     *)
(* (Cut); within a range there is no hole (NoHole), and after it there is  *)
(* one, since chunks of a bundle do not overlap (Placed).                  *)
THEOREM RequestExactAlways == Spec => []RequestExact
<1> SUFFICES ASSUME RequestInv PROVE RequestExact
  <2>1. RequestInv => RequestExact
      OBVIOUS
  <2>. QED BY <2>1, RequestInvariance, PTL
<1> SUFFICES ASSUME pc = "send"
             PROVE  /\ UNION {r.from .. r.to : r \in {requested[n] : n \in 1 .. Len(requested)}}
                         = UNION {Start(k) .. Start(k) + Size(k) - 1 :
                                     k \in first_chunk .. first_chunk + chunk_count - 1}
                    /\ \A n \in 2 .. Len(requested) : requested[n - 1].to + 1 < requested[n].from
    BY DEF RequestExact
<1>1. PICK g : Cut(g)
    BY DEF RequestInv, CutInv
<1>2. /\ range_start_chunk - 1 = first_chunk + chunk_count - 1 /\ Listed /\ Placed
      /\ Length \in Nat /\ Len(requested) \in Nat /\ range_start_chunk \in Int /\ first_chunk \in Int
      /\ \A j \in 0 .. Length - 1 : Start(j) \in Nat /\ Size(j) \in Nat \ {0}
    BY <1>1 DEF RequestInv, CutInv, Cut, IndInv, TypeOK, Listed, Placed
<1>3. ASSUME NEW m \in 1 .. Len(requested), NEW x \in requested[m].from .. requested[m].to
      PROVE  \E k \in first_chunk .. range_start_chunk - 1 : x \in Start(k) .. Start(k) + Size(k) - 1
  <2>1. /\ g[m] \in 0 .. Length - 1 /\ g[m + 1] - 1 \in 0 .. Length - 1 /\ g[m] <= g[m + 1] - 1
        /\ g[m + 1] \in Int /\ first_chunk <= g[m] /\ g[m + 1] <= range_start_chunk
      BY <1>1, RangeBounds
  <2>2. /\ x \in Start(g[m]) .. Start(g[m + 1] - 1) + Size(g[m + 1] - 1) - 1
        /\ \A j \in g[m] + 1 .. g[m + 1] - 1 : ~Gap(j)
      BY <1>1, <1>3 DEF Cut
  <2>3. PICK k \in g[m] .. g[m + 1] - 1 : x \in Start(k) .. Start(k) + Size(k) - 1
      BY <1>2, <2>1, <2>2, NoHole
  <2>4. k \in first_chunk .. range_start_chunk - 1
    <3>1. g[m] \in Int /\ g[m + 1] \in Int /\ k \in g[m] .. g[m + 1] - 1
        BY <2>1, <2>3
    <3>2. k \in Int /\ g[m] <= k /\ k <= g[m + 1] - 1
        BY <3>1
    <3>3. first_chunk \in Int /\ range_start_chunk \in Int /\ first_chunk <= g[m] /\ g[m + 1] <= range_start_chunk
        BY <1>2, <2>1
    <3>. QED BY <3>1, <3>2, <3>3
  <2>. QED BY <2>3, <2>4
<1>4. ASSUME NEW k \in first_chunk .. range_start_chunk - 1, NEW x \in Start(k) .. Start(k) + Size(k) - 1
      PROVE  \E m \in 1 .. Len(requested) : x \in requested[m].from .. requested[m].to
  <2>1. PICK m \in 1 .. Len(requested) : k \in g[m] .. g[m + 1] - 1
      BY <1>1 DEF Cut
  <2>2. PICK a \in 0 .. Length - 1, e \in 0 .. Length - 1 :
           a = g[m] /\ e = g[m + 1] - 1 /\ k \in a .. e
      BY <1>1, <2>1, RangeBounds
  <2>3. k \in 0 .. Length - 1 /\ a <= k /\ k <= e
      BY SMTT(30), <1>2, <2>2
  <2>4. Start(a) <= Start(k) /\ Start(k) + Size(k) <= Start(e) + Size(e)
      BY <1>2, <2>3, PlacesAscend
  <2>5. Start(a) \in Nat /\ Start(k) \in Nat /\ Size(k) \in Nat /\ Start(e) \in Nat /\ Size(e) \in Nat
      BY <1>2, <2>3
  <2>6. x \in Start(a) .. Start(e) + Size(e) - 1
      BY SMTT(30), <1>4, <2>4, <2>5
  <2>7. requested[m].from = Start(a) /\ requested[m].to = Start(e) + Size(e) - 1
      BY <1>1, <2>2 DEF Cut
  <2>. QED BY <2>6, <2>7
<1>5. ASSUME NEW m \in 2 .. Len(requested)
      PROVE  requested[m - 1].to + 1 < requested[m].from
  <2>1. m - 1 \in 1 .. Len(requested) /\ m \in 1 .. Len(requested) /\ (m - 1) + 1 = m
      BY <1>2
  <2>2. g[m] \in 0 .. Length - 1 /\ g[m] - 1 \in 0 .. Length - 1 /\ g[m] < Length
    <3>1. g[m] \in 0 .. Length - 1
        BY <1>1, <2>1, RangeBounds
    <3>2. g[(m - 1) + 1] - 1 \in 0 .. Length - 1
        BY <1>1, <2>1, RangeBounds
    <3>. QED BY <1>2, <2>1, <3>1, <3>2
  <2>3. /\ requested[m - 1].to = Start(g[m] - 1) + Size(g[m] - 1) - 1 /\ requested[m].from = Start(g[m])
        /\ Gap(g[m])
      BY <1>1, <2>1, <2>2 DEF Cut
  <2>4. g[m] \in 1 .. Length - 1
      BY <1>2, <2>2
  <2>5. Start(g[m]) = Start(g[m] - 1) \/ Start(g[m]) >= Start(g[m] - 1) + Size(g[m] - 1)
      BY <1>2, <2>4 DEF Placed
  <2>6. Start(g[m] - 1) + Size(g[m] - 1) # Start(g[m]) /\ Start(g[m] - 1) # Start(g[m])
      BY <2>3 DEF Gap
  <2>7. Start(g[m]) \in Nat /\ Start(g[m] - 1) \in Nat /\ Size(g[m] - 1) \in Nat
      BY <1>2, <2>2
  <2>8. (Start(g[m] - 1) + Size(g[m] - 1) - 1) + 1 < Start(g[m])
      BY <2>5, <2>6, <2>7
  <2>. QED BY <2>3, <2>8
<1> DEFINE U == UNION {r.from .. r.to : r \in {requested[n] : n \in 1 .. Len(requested)}}
           V == UNION {Start(k) .. Start(k) + Size(k) - 1 : k \in first_chunk .. range_start_chunk - 1}
<1>6. \A x : x \in U <=> \E m \in 1 .. Len(requested) : x \in requested[m].from .. requested[m].to
    OBVIOUS
<1>7. \A x : x \in V <=> \E k \in first_chunk .. range_start_chunk - 1 : x \in Start(k) .. Start(k) + Size(k) - 1
    OBVIOUS
<1> HIDE DEF U, V
<1>8. U = V
    BY <1>3, <1>4, <1>6, <1>7
<1>. QED BY <1>2, <1>5, <1>8 DEF U, V

-----------------------------------------------------------------------------
(***************************************************************************)
(* The answer.                                                             *)
(***************************************************************************)

(* A piece of the bundle.                                                  *)
LEMMA BytesFacts ==
    ASSUME NEW from \in Nat, NEW to \in Nat, from <= to
    PROVE  /\ Bytes(from, to) \in Seq(Int) /\ Len(Bytes(from, to)) = to - from + 1
           /\ DOMAIN Bytes(from, to) = 1 .. to - from + 1
           /\ \A y \in 1 .. to - from + 1 : Bytes(from, to)[y] = Data(from + y - 1)
<1>1. PICK n \in Nat : n = to - from + 1
    OBVIOUS
<1>2. \A y \in 1 .. n : Data(from + y - 1) \in Int
    BY <1>1 DEF Data, Break
<1>3. Bytes(from, to) = [y \in 1 .. n |-> Data(from + y - 1)]
    BY <1>1 DEF Bytes
<1>4. Bytes(from, to) \in Seq(Int) /\ Len(Bytes(from, to)) = n
    BY <1>1, <1>2, <1>3
<1>. QED BY <1>1, <1>3, <1>4

(* n bytes of the bundle stand in the body at pos.                         *)
Holds(body, pos, from, n) ==
    \A y \in 1 .. n : pos + y - 1 \in DOMAIN body /\ body[pos + y - 1] = Data(from + y - 1)

(* memcpy of such bytes.                                                   *)
LEMMA CopyIsBytes ==
    ASSUME NEW body, NEW pos \in Int, NEW from \in Int, NEW n \in Nat, Holds(body, pos, from, n)
    PROVE  Copy(body, pos, n) = Bytes(from, from + n - 1)
<1>1. (from + n - 1) - from + 1 = n
    OBVIOUS
<1>2. Bytes(from, from + n - 1) = [y \in 1 .. n |-> Data(from + y - 1)]
    BY <1>1 DEF Bytes
<1>3. Copy(body, pos, n) = [y \in 1 .. n |-> Data(from + y - 1)]
    BY DEF Copy, Holds
<1>. QED BY <1>2, <1>3

(* A break that stands at the position itself is the one that is found.    *)
LEMMA AfterBreakHere ==
    ASSUME NEW body, NEW pos \in Int, Len(body) \in Int, pos <= Len(body), body[pos] = Break
    PROVE  AfterBreak(body, pos) = pos + 1
<1> DEFINE F(p) == body[p] = Break /\ \A q \in pos .. p - 1 : body[q] # Break
<1>1. pos \in pos .. Len(body) /\ F(pos)
    OBVIOUS
<1>2. PICK c : c = CHOOSE p \in pos .. Len(body) : F(p)
    OBVIOUS
<1>3. c \in pos .. Len(body) /\ F(c)
    BY <1>1, <1>2
<1>4. c = pos
  <2>1. ASSUME c > pos PROVE FALSE
    <3>1. pos \in pos .. c - 1
        BY <1>3, <2>1
    <3>. QED BY <1>3, <3>1
  <2>. QED BY <1>3, <2>1
<1>5. AfterBreak(body, pos) = 1 + c
    BY <1>2 DEF AfterBreak
<1>. QED BY <1>4, <1>5

(* The first position of the loop of response_to_ranges, and the one after *)
(* it.                                                                     *)
FirstAt(body) ==
    IF RangeOf(first_chunk + chunk_count - 1) # RangeOf(first_chunk) THEN AfterBreak(body, 1) ELSE 1

NextAt(body, x, k) ==
    IF RangeOf(k) > RangeOf(k - 1) THEN AfterBreak(body, Move(x, k - 1)) ELSE Move(x, k - 1)

(* h is what the loop computes.                                            *)
Walked(body, h) ==
    h = [k \in first_chunk .. first_chunk + chunk_count - 1 |->
            IF k = first_chunk THEN FirstAt(body) ELSE NextAt(body, h[k - 1], k)]

(* The loop computes one thing.                                            *)
LEMMA OneWalk ==
    ASSUME first_chunk \in Int, chunk_count \in Int, NEW body, NEW h, Walked(body, h)
    PROVE  \A k \in first_chunk .. first_chunk + chunk_count - 1 : Positions(body)[k] = h[k]
<1> DEFINE last == first_chunk + chunk_count - 1
<1>1. PICK at : at = Positions(body)
    OBVIOUS
<1>2. Walked(body, at)
  <2>1. at = CHOOSE f : f = [k \in first_chunk .. last |->
            IF k = first_chunk THEN FirstAt(body) ELSE NextAt(body, f[k - 1], k)]
      BY <1>1 DEF Positions, FirstAt, NextAt
  <2>2. at = CHOOSE f : Walked(body, f)
      BY <2>1 DEF Walked
  <2>. QED BY <2>2
<1>3. \A k \in first_chunk .. last :
         /\ at[k] = IF k = first_chunk THEN FirstAt(body) ELSE NextAt(body, at[k - 1], k)
         /\ h[k] = IF k = first_chunk THEN FirstAt(body) ELSE NextAt(body, h[k - 1], k)
    BY <1>2 DEF Walked
<1> DEFINE S == {k \in Int : k <= last => at[k] = h[k]}
<1>4. first_chunk \in S
  <2>1. first_chunk <= last => first_chunk \in first_chunk .. last
      OBVIOUS
  <2>. QED BY <1>3, <2>1
<1>5. \A k \in Int : k >= first_chunk /\ k \in S => k + 1 \in S
  <2> SUFFICES ASSUME NEW k \in Int, k >= first_chunk, k \in S, k + 1 <= last
               PROVE  at[k + 1] = h[k + 1]
      OBVIOUS
  <2>1. k <= last /\ k + 1 \in first_chunk .. last /\ k + 1 # first_chunk /\ (k + 1) - 1 = k
      OBVIOUS
  <2>2. at[k] = h[k]
      BY <2>1
  <2>. QED BY <1>3, <2>1, <2>2
<1> HIDE DEF S
<1>6. \A k \in Int : k >= first_chunk => k \in S
    BY <1>4, <1>5, InductionFrom
<1>. QED BY <1>1, <1>6 DEF S

(* Range m begins at B[m] in the body; if there are several, a break       *)
(* stands before each.                                                     *)
Shape(body, B) ==
    LET N == Len(requested)
        l(m) == requested[m].to - requested[m].from + 1
    IN  /\ Len(body) \in Nat
        /\ \A m \in 1 .. N : B[m] \in Nat
        /\ \A m \in 1 .. N : \A y \in 1 .. l(m) :
              B[m] + y - 1 \in DOMAIN body /\ body[B[m] + y - 1] = Data(requested[m].from + y - 1)
        /\ N = 1 => B[1] = 1
        /\ N > 1 => B[1] = 2 /\ 1 <= Len(body) /\ body[1] = Break
        /\ \A m \in 1 .. N - 1 :
              B[m + 1] = B[m] + l(m) + 1 /\ B[m] + l(m) <= Len(body) /\ body[B[m] + l(m)] = Break

(* A range is not empty.                                                   *)
LEMMA RangeProper ==
    ASSUME RequestInv, NEW g, Cut(g), NEW m \in 1 .. Len(requested)
    PROVE  requested[m].from \in Nat /\ requested[m].to \in Nat /\ requested[m].from <= requested[m].to
<1>1. PICK a \in 0 .. Length - 1, e \in 0 .. Length - 1 : a = g[m] /\ e = g[m + 1] - 1 /\ a <= e
    BY RangeBounds
<1>2. Start(a) <= Start(e) /\ Start(a) \in Nat /\ Start(e) \in Nat /\ Size(e) \in Nat \ {0}
  <2>1. Listed /\ Placed
      BY DEF RequestInv, IndInv
  <2>. QED BY <1>1, <2>1, PlacesAscend DEF Placed
<1>3. requested[m].from = Start(a) /\ requested[m].to = Start(e) + Size(e) - 1
    BY <1>1 DEF Cut
<1>. QED BY <1>2, <1>3

(* The body of a 206 answer.                                               *)
LEMMA BodyShape ==
    ASSUME RequestInv, NEW g, Cut(g), Len(requested) # 0
    PROVE  \E B : Shape(PartialBody, B)
<1>1. PICK N \in Nat \ {0} : N = Len(requested)
    BY DEF Cut
<1>2. \A m \in 1 .. N :
         requested[m].from \in Nat /\ requested[m].to \in Nat /\ requested[m].from <= requested[m].to
    BY <1>1, RangeProper
<1>3. CASE N = 1
  <2>1. PICK from \in Nat, to \in Nat : from = requested[1].from /\ to = requested[1].to /\ from <= to
      BY <1>2, <1>3
  <2>2. PartialBody = Bytes(from, to)
      BY <1>1, <1>3, <2>1 DEF PartialBody
  <2>3. PICK B : B = [m \in 1 .. 1 |-> 1]
      OBVIOUS
  <2>4. /\ Len(Bytes(from, to)) \in Nat
        /\ \A y \in 1 .. to - from + 1 :
              1 + y - 1 \in DOMAIN Bytes(from, to) /\ Bytes(from, to)[1 + y - 1] = Data(from + y - 1)
    <3>1. /\ Len(Bytes(from, to)) = to - from + 1
          /\ DOMAIN Bytes(from, to) = 1 .. to - from + 1
          /\ \A y \in 1 .. to - from + 1 : Bytes(from, to)[y] = Data(from + y - 1)
        BY <2>1, BytesFacts
    <3>2. \A y \in 1 .. to - from + 1 : 1 + y - 1 = y
        BY <2>1
    <3>. QED BY <2>1, <3>1, <3>2
  <2>5. \A m \in 1 .. 1 : m = 1 /\ B[m] = 1
      BY <2>3
  <2>. QED BY <1>1, <1>3, <2>1, <2>2, <2>4, <2>5 DEF Shape
<1>4. CASE N > 1
  <2> DEFINE part(r) == <<Break>> \o Bytes(r.from, r.to)
  <2>1. PICK P : P = [m \in 1 .. N |-> part(requested[m])]
      OBVIOUS
  <2>2. ASSUME NEW m \in 1 .. N
        PROVE  /\ P[m] \in Seq(Int)
               /\ Len(P[m]) = requested[m].to - requested[m].from + 2
               /\ P[m][1] = Break
               /\ \A y \in 1 .. requested[m].to - requested[m].from + 1 :
                     P[m][y + 1] = Data(requested[m].from + y - 1)
    <3>1. PICK from \in Nat, to \in Nat : from = requested[m].from /\ to = requested[m].to /\ from <= to
        BY <1>2
    <3>2. PICK b \in Seq(Int) :
             b = Bytes(from, to) /\ Len(b) = to - from + 1 /\ \A y \in 1 .. to - from + 1 : b[y] = Data(from + y - 1)
        BY <3>1, BytesFacts
    <3>3. P[m] = <<Break>> \o b
        BY <2>1, <3>1, <3>2
    <3>4. <<Break>> \in Seq(Int) /\ Len(<<Break>>) = 1 /\ <<Break>>[1] = Break
        BY DEF Break
    <3>5. /\ <<Break>> \o b \in Seq(Int) /\ Len(<<Break>> \o b) = 1 + Len(b)
          /\ (<<Break>> \o b)[1] = Break
          /\ \A y \in 1 .. Len(b) : (<<Break>> \o b)[1 + y] = b[y]
        BY <3>2, <3>4, TwoTexts
    <3>6. \A y \in 1 .. Len(b) : 1 + y = y + 1
        BY <3>2
    <3>7. P[m] \in Seq(Int) /\ P[m][1] = Break
        BY <3>3, <3>5
    <3>8. Len(P[m]) = to - from + 2
        BY SMTT(30), <3>1, <3>2, <3>3, <3>5
    <3>9. \A y \in 1 .. to - from + 1 : P[m][y + 1] = Data(from + y - 1)
        BY <3>2, <3>3, <3>5, <3>6
    <3>. QED BY <3>1, <3>7, <3>8, <3>9
  <2>3. P \in [1 .. N -> Seq(Int)]
      BY <2>1, <2>2
  <2>4. PICK u : u = CHOOSE f : f = [n \in 0 .. Len(requested) |-> IF n = 0 THEN <<>> ELSE f[n - 1] \o part(requested[n])]
      OBVIOUS
  <2>5. PartialBody = u[N] \o <<Delimiter>>
    <3>1. Len(requested) # 1
        BY <1>1, <1>4
    <3>2. PartialBody = u[Len(requested)] \o <<Delimiter>>
        BY <2>4, <3>1 DEF PartialBody
    <3>. QED BY <1>1, <3>2
  <2>6. Joined(u, P, N)
    <3>1. \A n \in 0 .. N : n # 0 => P[n] = part(requested[n])
        BY <2>1
    <3>2. ASSUME NEW f
          PROVE  [n \in 0 .. Len(requested) |-> IF n = 0 THEN <<>> ELSE f[n - 1] \o part(requested[n])]
                    = [n \in 0 .. N |-> IF n = 0 THEN <<>> ELSE f[n - 1] \o P[n]]
        BY <1>1, <3>1
    <3> HIDE DEF part
    <3>3. u = CHOOSE f : f = [n \in 0 .. N |-> IF n = 0 THEN <<>> ELSE f[n - 1] \o P[n]]
        BY <2>4, <3>2
    <3>4. \E f : f = [n \in 0 .. N |-> IF n = 0 THEN <<>> ELSE f[n - 1] \o P[n]]
        BY <1>1, JoinExists
    <3>. QED BY <3>3, <3>4 DEF Joined
  <2> HIDE DEF part
  <2>7. /\ \A n \in 0 .. N : u[n] \in Seq(Int)
        /\ u[0] = <<>>
        /\ \A n \in 1 .. N : Len(u[n]) = Len(u[n - 1]) + Len(P[n])
        /\ \A n \in 1 .. N : \A y \in 1 .. Len(P[n]) :
              Len(u[n - 1]) + y <= Len(u[N]) /\ u[N][Len(u[n - 1]) + y] = P[n][y]
    <3>1. N \in Nat
        BY <1>1
    <3>2. InPlace(u, P, N, Int)
        BY <2>3, <2>6, <3>1, JoinParts
    <3>. QED BY <3>2 DEF InPlace
  <2>8. PICK body \in Seq(Int) : body = PartialBody /\ Len(body) = Len(u[N]) + 1
                                 /\ \A x \in 1 .. Len(u[N]) : body[x] = u[N][x]
    <3>1. N \in 0 .. N
        BY <1>1
    <3>2. u[N] \in Seq(Int) /\ <<Delimiter>> \in Seq(Int) /\ Len(<<Delimiter>>) = 1
        BY <2>7, <3>1 DEF Delimiter
    <3>3. /\ u[N] \o <<Delimiter>> \in Seq(Int)
          /\ Len(u[N] \o <<Delimiter>>) = Len(u[N]) + Len(<<Delimiter>>)
          /\ \A x \in 1 .. Len(u[N]) : (u[N] \o <<Delimiter>>)[x] = u[N][x]
        BY <3>2, TwoTexts
    <3>. QED BY <2>5, <3>2, <3>3
  <2>9. PICK B : B = [m \in 1 .. N |-> Len(u[m - 1]) + 2]
      OBVIOUS
  <2>10. \A m \in 1 .. N : Len(u[m - 1]) \in Nat /\ B[m] \in Nat /\ B[m] = Len(u[m - 1]) + 2
    <3> TAKE m \in 1 .. N
    <3>1. m - 1 \in 0 .. N
        OBVIOUS
    <3>2. Len(u[m - 1]) \in Nat
        BY <2>7, <3>1, TwoTexts
    <3>. QED BY <2>9, <3>2
  <2>11. ASSUME NEW m \in 1 .. N, NEW y \in 1 .. requested[m].to - requested[m].from + 2
         PROVE  (B[m] - 2) + y \in 1 .. Len(body) /\ body[(B[m] - 2) + y] = P[m][y]
    <3>1. PICK d \in Nat : d = Len(u[m - 1]) /\ B[m] - 2 = d
        BY SMTT(30), <2>10
    <3>2. y \in 1 .. Len(P[m]) /\ y \in Nat /\ y >= 1
        BY <1>2, <2>2
    <3>3. d + y <= Len(u[N]) /\ u[N][d + y] = P[m][y]
        BY <2>7, <3>1, <3>2
    <3>4. Len(u[N]) \in Nat
      <4>1. N \in 0 .. N
          BY <1>1
      <4>. QED BY <2>7, <4>1, TwoTexts
    <3>5. d + y \in 1 .. Len(u[N])
        BY <3>1, <3>2, <3>3, <3>4
    <3>6. d + y \in 1 .. Len(body)
        BY <2>8, <3>4, <3>5
    <3>. QED BY <2>8, <3>1, <3>3, <3>5, <3>6
  <2>12. ASSUME NEW m \in 1 .. N, NEW y \in 1 .. requested[m].to - requested[m].from + 1
         PROVE  B[m] + y - 1 \in DOMAIN body /\ body[B[m] + y - 1] = Data(requested[m].from + y - 1)
    <3>1. y + 1 \in 1 .. requested[m].to - requested[m].from + 2 /\ (B[m] - 2) + (y + 1) = B[m] + y - 1
      <4>1. PICK f \in Nat, t \in Nat : f = requested[m].from /\ t = requested[m].to /\ f <= t
          BY <1>2
      <4>2. y + 1 \in 1 .. t - f + 2
          BY SMTT(30), <4>1
      <4>3. PICK b \in Nat : b = B[m]
          BY <2>10
      <4>4. (b - 2) + (y + 1) = b + y - 1
          BY <4>1
      <4>. QED BY <4>1, <4>2, <4>3, <4>4
    <3>2. P[m][y + 1] = Data(requested[m].from + y - 1)
        BY <2>2
    <3>3. DOMAIN body = 1 .. Len(body)
        BY <2>8
    <3>4. (B[m] - 2) + (y + 1) \in 1 .. Len(body) /\ body[(B[m] - 2) + (y + 1)] = P[m][y + 1]
        BY <2>11, <3>1
    <3>. QED BY <3>1, <3>2, <3>3, <3>4
  <2>13. ASSUME NEW m \in 1 .. N
         PROVE  B[m] - 1 <= Len(body) /\ body[B[m] - 1] = Break
    <3>1. 1 \in 1 .. requested[m].to - requested[m].from + 2 /\ (B[m] - 2) + 1 = B[m] - 1
        BY <1>2, <2>10
    <3>2. Len(body) \in Nat
        BY <2>8
    <3>3. (B[m] - 2) + 1 \in 1 .. Len(body) /\ body[(B[m] - 2) + 1] = P[m][1]
        BY <2>11, <3>1
    <3>. QED BY <2>2, <3>1, <3>2, <3>3
  <2>14. B[1] = 2 /\ 2 - 1 = 1 /\ 1 \in 1 .. N
    <3>1. 1 \in 1 .. N /\ 1 - 1 = 0
        BY <1>4
    <3>. QED BY <2>7, <2>10, <3>1
  <2>15. ASSUME NEW m \in 1 .. N - 1
         PROVE  LET l == requested[m].to - requested[m].from + 1 IN
                B[m + 1] = B[m] + l + 1 /\ B[m] + l <= Len(body) /\ body[B[m] + l] = Break
    <3>1. m \in 1 .. N /\ m + 1 \in 1 .. N /\ (m + 1) - 1 = m
        OBVIOUS
    <3>2. PICK l \in Nat : l = requested[m].to - requested[m].from + 1
        BY <1>2, <3>1
    <3>3. Len(P[m]) = l + 1
        BY <1>2, <2>2, <3>1, <3>2
    <3>4. Len(u[m]) = Len(u[m - 1]) + (l + 1)
        BY <2>7, <3>1, <3>3
    <3>5. /\ Len(u[m - 1]) \in Nat /\ B[m] = Len(u[m - 1]) + 2
          /\ B[m + 1] = Len(u[m]) + 2 /\ Len(u[m]) \in Nat
        BY <2>10, <3>1
    <3>6. B[m + 1] = B[m] + l + 1 /\ B[m + 1] - 1 = B[m] + l
      <4>1. PICK d, e \in Nat : d = Len(u[m - 1]) /\ e = Len(u[m])
          BY <3>5
      <4>2. PICK x, z \in Nat : x = B[m] /\ z = B[m + 1]
          BY <2>10, <3>1
      <4>3. e = d + (l + 1) /\ x = d + 2 /\ z = e + 2
          BY <3>4, <3>5, <4>1, <4>2
      <4>4. z = x + l + 1 /\ z - 1 = x + l
          BY <4>3
      <4>. QED BY <4>2, <4>4
    <3>7. B[m + 1] - 1 <= Len(body) /\ body[B[m + 1] - 1] = Break
        BY <2>13, <3>1
    <3>. QED BY <3>2, <3>6, <3>7
  <2>16. Len(body) \in Nat /\ 1 <= Len(body) /\ body[1] = Break
      BY <2>8, <2>13, <2>14
  <2>17. Shape(body, B)
    <3>1. N # 1 /\ Len(body) \in Nat /\ \A m \in 1 .. N : B[m] \in Nat
        BY <1>4, <2>10, <2>16
    <3>. QED BY ONLY <1>1, <2>12, <2>14, <2>15, <2>16, <3>1 DEF Shape
  <2>. QED BY <2>8, <2>17
<1>. QED BY <1>1, <1>3, <1>4

(* A chunk is in one range.                                                *)
LEMMA OneRange ==
    ASSUME RequestInv, NEW g, Cut(g), NEW l \in 1 .. Len(requested), NEW m \in 1 .. Len(requested),
           NEW k \in Int, k \in g[l] .. g[l + 1] - 1, k \in g[m] .. g[m + 1] - 1
    PROVE  l = m
<1>1. ASSUME NEW x \in 1 .. Len(requested), NEW y \in 1 .. Len(requested), x < y,
             k \in g[x] .. g[x + 1] - 1, k \in g[y] .. g[y + 1] - 1
      PROVE  FALSE
  <2>1. PICK n \in Nat : n = Len(requested)
      BY DEF Cut
  <2>2. x + 1 \in 1 .. n + 1 /\ y \in 1 .. n + 1 /\ (x + 1 = y \/ x + 1 < y)
      BY <1>1, <2>1
  <2>3. PICK c, d \in 0 .. Length : c = g[x + 1] /\ d = g[y]
      BY <2>1, <2>2 DEF Cut
  <2>4. c = d \/ c < d
      BY <2>1, <2>2, <2>3 DEF Cut
  <2>5. PICK a, b \in 0 .. Length : a = g[x] /\ b = g[y + 1]
    <3>1. g[x] \in 0 .. Length - 1 /\ g[y + 1] \in 0 .. Length
        BY <1>1, RangeBounds
    <3>2. Length \in Nat
        BY DEF RequestInv, IndInv, Listed
    <3>. QED BY SMTT(30), <3>1, <3>2
  <2>6. k \in a .. c - 1 /\ k \in d .. b - 1
      BY <1>1, <2>3, <2>5
  <2>. QED BY SMTT(30), <2>3, <2>4, <2>5, <2>6
<1>2. l < m \/ m < l \/ l = m
    BY DEF Cut
<1>. QED BY <1>1, <1>2

(* The next chunk is in the same range, or is the first one of the next.   *)
LEMMA RangeOfNext ==
    ASSUME RequestInv, NEW g, Cut(g), NEW k \in first_chunk + 1 .. range_start_chunk - 1,
           NEW m \in 1 .. Len(requested), k - 1 \in g[m] .. g[m + 1] - 1
    PROVE  \/ ~Gap(k) /\ k \in g[m] .. g[m + 1] - 1
           \/ /\ Gap(k) /\ m + 1 \in 1 .. Len(requested)
              /\ k = g[m + 1] /\ k - 1 = g[m + 1] - 1 /\ k \in g[m + 1] .. g[(m + 1) + 1] - 1
<1>1. PICK n \in Nat : n = Len(requested)
    BY DEF Cut
<1>0. Length \in Nat
    BY DEF RequestInv, IndInv, Listed
<1>2. PICK a, e \in 0 .. Length : a = g[m] /\ e = g[m + 1]
  <2>1. g[m] \in 0 .. Length - 1 /\ g[m + 1] \in 0 .. Length
      BY RangeBounds
  <2>. QED BY <1>0, <2>1
<1>3. /\ first_chunk \in Int /\ range_start_chunk \in 0 .. Length /\ Length \in Nat
      /\ k \in Int
    BY DEF RequestInv, IndInv, TypeOK, Listed
<1>4. k - 1 \in a .. e - 1 /\ k <= range_start_chunk - 1
    BY <1>2, <1>3
<1>5. CASE k < e
  <2>1. k \in a + 1 .. e - 1 /\ k \in a .. e - 1
      BY <1>2, <1>3, <1>4, <1>5
  <2>2. ~Gap(k)
      BY <1>2, <2>1 DEF Cut
  <2>. QED BY <1>2, <2>1, <2>2
<1>6. CASE k = e
  <2>1. m # n
    <3>1. m = n => e = range_start_chunk
        BY <1>1, <1>2 DEF Cut
    <3>. QED BY <1>3, <1>4, <1>6, <3>1
  <2>2. m + 1 \in 1 .. n
      BY <1>1, <2>1
  <2>3. Gap(k)
    <3>1. e < Length
        BY <1>2, <1>3, <1>4, <1>6
    <3>. QED BY <1>2, <1>6, <3>1 DEF Cut
  <2>4. PICK b \in 0 .. Length : b = g[(m + 1) + 1] /\ e <= b - 1
      BY <1>1, <1>2, <2>2, RangeBounds
  <2>5. k \in e .. b - 1
      BY <1>2, <1>6, <2>4
  <2>. QED BY <1>1, <1>2, <1>6, <2>2, <2>3, <2>4, <2>5
<1>. QED BY <1>2, <1>3, <1>4, <1>5, <1>6

(* The map tells where a range begins,                                     *)
LEMMA NewRangeAtGap ==
    ASSUME NEW k \in Nat \ {0}
    PROVE  RangeOf(k) > RangeOf(k - 1) <=> Gap(k)
<1>1. k - 1 \in Nat /\ k - 1 <= k /\ (k - 1) + 1 = k
    OBVIOUS
<1>2. /\ RangeOf(k - 1) \in Nat /\ RangeOf(k) \in Nat /\ RangeOf(k - 1) <= RangeOf(k)
      /\ RangeOf(k - 1) = RangeOf(k) <=> \A j \in (k - 1) + 1 .. k : ~Gap(j)
    BY <1>1, SameRange
<1>3. \A j : j \in (k - 1) + 1 .. k <=> j = k
    BY <1>1
<1>4. RangeOf(k - 1) = RangeOf(k) <=> ~Gap(k)
    BY <1>2, <1>3
<1>. QED BY <1>2, <1>4

(* and whether the request has more than one.                              *)
LEMMA SeveralRanges ==
    ASSUME RequestInv, pc = "send", NEW g, Cut(g)
    PROVE  /\ Len(requested) \in Nat \ {0}
           /\ RangeOf(first_chunk + chunk_count - 1) # RangeOf(first_chunk) <=> Len(requested) > 1
<1>1. PICK n \in Nat : n = Len(requested)
    BY DEF Cut
<1>2. PICK f \in 0 .. Length, e \in 0 .. Length :
         /\ f = first_chunk /\ e = range_start_chunk /\ f < e
         /\ first_chunk + chunk_count - 1 = e - 1 /\ Length \in Nat
    BY DEF RequestInv, IndInv, TypeOK, Scan, CutInv, Listed
<1>3. g[1] = f /\ g[n + 1] = e
    BY <1>1, <1>2 DEF Cut
<1>4. n # 0
    BY <1>2, <1>3
<1>5. RangeOf(f) = RangeOf(e - 1) <=> \A j \in f + 1 .. e - 1 : ~Gap(j)
  <2>1. f \in Nat /\ e - 1 \in Nat /\ f <= e - 1
      BY <1>2
  <2>. QED BY <2>1, SameRange
<1>6. CASE n = 1
  <2>1. 1 \in 1 .. Len(requested) /\ g[1 + 1] = e
      BY <1>1, <1>3, <1>6
  <2>2. \A j \in f + 1 .. e - 1 : ~Gap(j)
      BY <1>3, <2>1 DEF Cut
  <2>. QED BY <1>1, <1>2, <1>5, <1>6, <2>2
<1>7. CASE n > 1
  <2>1. 1 \in 1 .. n + 1 /\ 2 \in 1 .. n + 1 /\ n + 1 \in 1 .. n + 1 /\ 2 < n + 1 /\ 1 < 2
        /\ 1 \in 1 .. n /\ 1 + 1 = 2
      BY <1>7
  <2>2. PICK c \in 0 .. Length : c = g[2]
      BY <1>1, <2>1 DEF Cut
  <2>3. f < c /\ c < e
      BY <1>1, <1>3, <2>1, <2>2 DEF Cut
  <2>4. c < Length /\ c \in f + 1 .. e - 1
      BY <1>2, <2>2, <2>3
  <2>5. Gap(c)
      BY <1>1, <2>1, <2>2, <2>4 DEF Cut
  <2>. QED BY <1>1, <1>2, <1>5, <1>7, <2>4, <2>5
<1>. QED BY <1>1, <1>4, <1>6, <1>7

(* Where the loop finds the chunks: chunk k of range m as far behind the   *)
(* first byte of the range as it is in the bundle.                         *)
LEMMA ChunksFound ==
    ASSUME RequestInv, pc = "send", NEW g, Cut(g), NEW body, NEW B, Shape(body, B)
    PROVE  \A m \in 1 .. Len(requested) : \A k \in g[m] .. g[m + 1] - 1 :
              Positions(body)[k] = B[m] + Start(k) - Start(g[m])
<1> DEFINE last == first_chunk + chunk_count - 1
           N == Len(requested)
<1>1. /\ N \in Nat \ {0} /\ first_chunk \in Nat /\ chunk_count \in Nat /\ Length \in Nat
      /\ last = range_start_chunk - 1 /\ range_start_chunk \in 0 .. Length
      /\ Listed /\ Placed /\ first_chunk <= last
    BY SeveralRanges DEF RequestInv, IndInv, TypeOK, Scan, CutInv, Listed
<1>2. PICK M : M = [k \in first_chunk .. last |-> CHOOSE m \in 1 .. N : k \in g[m] .. g[m + 1] - 1]
    OBVIOUS
<1>3. \A k \in first_chunk .. last : M[k] \in 1 .. N /\ k \in g[M[k]] .. g[M[k] + 1] - 1
  <2> TAKE k \in first_chunk .. last
  <2>1. \E m \in 1 .. N : k \in g[m] .. g[m + 1] - 1
      BY <1>1 DEF Cut
  <2>. QED BY <1>2, <2>1
<1>4. PICK h : h = [k \in first_chunk .. last |-> B[M[k]] + Start(k) - Start(g[M[k]])]
    OBVIOUS
<1>5. ASSUME NEW m \in 1 .. N, NEW k \in g[m] .. g[m + 1] - 1
      PROVE  k \in first_chunk .. last /\ M[k] = m /\ h[k] = B[m] + Start(k) - Start(g[m])
  <2>1. PICK a \in 0 .. Length, e \in 0 .. Length :
           a = g[m] /\ e = g[m + 1] /\ first_chunk <= a /\ e <= range_start_chunk
    <3>1. /\ g[m] \in 0 .. Length - 1 /\ g[m + 1] \in 0 .. Length
          /\ first_chunk <= g[m] /\ g[m + 1] <= range_start_chunk
        BY RangeBounds
    <3>. QED BY <1>1, <3>1
  <2>2. k \in a .. e - 1
      BY <2>1
  <2>3. k \in first_chunk .. last /\ k \in Int
      BY <1>1, <2>1, <2>2
  <2>4. M[k] \in 1 .. N /\ k \in g[M[k]] .. g[M[k] + 1] - 1
      BY <1>3, <2>3
  <2>5. M[k] = m
      BY <2>3, <2>4, OneRange
  <2>. QED BY <1>4, <2>3, <2>5
<1>6. h[first_chunk] = FirstAt(body)
  <2>1. /\ 1 \in 1 .. N /\ g[1] = first_chunk /\ first_chunk \in g[1] .. g[1 + 1] - 1
        /\ first_chunk \in 0 .. Length - 1
    <3>1. 1 \in 1 .. N /\ g[1] = first_chunk
        BY <1>1 DEF Cut
    <3>2. PICK a \in 0 .. Length - 1, e \in 0 .. Length : a = g[1] /\ e = g[1 + 1] /\ a <= e - 1
        BY <3>1, RangeBounds
    <3>3. a \in a .. e - 1
        BY <1>1, <3>2
    <3>. QED BY <3>1, <3>2, <3>3
  <2>2. Start(first_chunk) \in Nat
      BY <1>1, <2>1 DEF Placed
  <2>3. B[1] \in Nat
      BY <2>1 DEF Shape
  <2>4. h[first_chunk] = B[1] + Start(first_chunk) - Start(first_chunk)
      BY <1>5, <2>1
  <2>5. h[first_chunk] = B[1]
      BY <2>2, <2>3, <2>4
  <2>6. RangeOf(last) # RangeOf(first_chunk) <=> N > 1
      BY SeveralRanges
  <2>7. CASE N = 1
    <3>1. B[1] = 1
        BY <2>7 DEF Shape
    <3>. QED BY <2>5, <2>6, <2>7, <3>1 DEF FirstAt
  <2>8. CASE N > 1
    <3>1. B[1] = 2 /\ 1 <= Len(body) /\ body[1] = Break /\ Len(body) \in Int
        BY <2>8 DEF Shape
    <3>2. AfterBreak(body, 1) = 1 + 1
        BY <3>1, AfterBreakHere
    <3>. QED BY <2>5, <2>6, <2>8, <3>1, <3>2 DEF FirstAt
  <2>9. N = 1 \/ N > 1
      BY <1>1
  <2>. QED BY <2>7, <2>8, <2>9
<1>7. ASSUME NEW k \in first_chunk + 1 .. last
      PROVE  h[k] = NextAt(body, h[k - 1], k)
  <2>1. /\ k \in 1 .. Length - 1 /\ k - 1 \in 0 .. Length - 1 /\ k \in 0 .. Length - 1 /\ k \in Nat \ {0}
        /\ k - 1 \in first_chunk .. last /\ k \in first_chunk + 1 .. range_start_chunk - 1
        /\ (k - 1) + 1 = k
      BY <1>1
  <2>2. PICK m \in 1 .. N : k - 1 \in g[m] .. g[m + 1] - 1
      BY <1>3, <2>1
  <2>3. /\ g[m] \in 0 .. Length - 1
        /\ requested[m].from = Start(g[m])
        /\ requested[m].to = Start(g[m + 1] - 1) + Size(g[m + 1] - 1) - 1
    <3>1. g[m] \in 0 .. Length - 1
        BY RangeBounds
    <3>. QED BY <3>1 DEF Cut
  <2>4. PICK s, t, z, a, x \in Nat :
           s = Start(k - 1) /\ z = Size(k - 1) /\ t = Start(k) /\ a = Start(g[m]) /\ x = B[m] /\ z # 0
    <3>1. B[m] \in Nat
        BY DEF Shape
    <3>. QED BY <1>1, <2>1, <2>3, <3>1 DEF Placed
  <2>5. h[k - 1] = x + s - a
      BY <1>5, <2>2, <2>4
  <2>6. /\ Move(h[k - 1], k - 1) = IF t > s THEN (x + s - a) + z ELSE x + s - a
      BY <2>1, <2>4, <2>5 DEF Move
  <2>7. t = s \/ t >= s + z
      BY <1>1, <2>1, <2>4 DEF Placed
  <2>8. CASE ~Gap(k)
    <3>1. k \in g[m] .. g[m + 1] - 1
        BY <2>1, <2>2, <2>8, RangeOfNext
    <3>2. h[k] = x + t - a
        BY <1>5, <2>4, <3>1
    <3>3. s + z = t \/ s = t
        BY <2>4, <2>8 DEF Gap
    <3>4. Move(h[k - 1], k - 1) = x + t - a
        BY SMTT(30), <2>4, <2>6, <3>3
    <3>5. ~(RangeOf(k) > RangeOf(k - 1))
        BY <2>1, <2>8, NewRangeAtGap
    <3>. QED BY <3>2, <3>4, <3>5 DEF NextAt
  <2>9. CASE Gap(k)
    <3>1. m + 1 \in 1 .. N /\ k = g[m + 1] /\ k - 1 = g[m + 1] - 1 /\ k \in g[m + 1] .. g[(m + 1) + 1] - 1
        BY <2>1, <2>2, <2>9, RangeOfNext
    <3>2. h[k] = B[m + 1] + Start(k) - Start(g[m + 1])
        BY <1>5, <3>1
    <3>3. requested[m].to = s + z - 1 /\ requested[m].from = a
        BY <2>3, <2>4, <3>1
    <3>0. s \in Int /\ t \in Int /\ z \in Int /\ a \in Int /\ x \in Int
        BY <2>4
    <3>4. PICK l \in Int : l = requested[m].to - requested[m].from + 1 /\ l = s + z - a
        BY <3>0, <3>3
    <3>a. l \in Int /\ l = s + z - a
        BY <3>4
    <3>5. m \in 1 .. N - 1
        BY <1>1, <3>1
    <3>6. B[m + 1] = x + l + 1 /\ x + l <= Len(body) /\ body[x + l] = Break /\ Len(body) \in Int
        BY <2>4, <3>4, <3>5 DEF Shape
    <3>7. AfterBreak(body, x + l) = (x + l) + 1
      <4>1. x + l \in Int
          BY <3>0, <3>a
      <4>. QED BY <3>6, <4>1, AfterBreakHere
    <3>8. t > s
        BY SMTT(30), <2>4, <2>7, <2>9 DEF Gap
    <3>9. Move(h[k - 1], k - 1) = x + l
      <4>1. Move(h[k - 1], k - 1) = (x + s - a) + z
          BY <2>6, <3>8
      <4>. QED BY <3>0, <3>a, <4>1
    <3>10. h[k] = (x + l) + 1
      <4>1. h[k] = (x + l + 1) + t - t
          BY <2>4, <3>1, <3>2, <3>6
      <4>. QED BY <3>0, <3>a, <4>1
    <3>11. RangeOf(k) > RangeOf(k - 1)
        BY <2>1, <2>9, NewRangeAtGap
    <3>. QED BY <3>7, <3>9, <3>10, <3>11 DEF NextAt
  <2>. QED BY <2>8, <2>9
<1>8. Walked(body, h)
  <2>1. \A k \in first_chunk .. last : h[k] = IF k = first_chunk THEN FirstAt(body) ELSE NextAt(body, h[k - 1], k)
    <3> TAKE k \in first_chunk .. last
    <3>1. k = first_chunk \/ k \in first_chunk + 1 .. last
        BY <1>1
    <3>2. k \in first_chunk + 1 .. last => k # first_chunk
        BY <1>1
    <3>. QED BY <1>6, <1>7, <3>1, <3>2
  <2>2. h = [k \in first_chunk .. last |-> h[k]]
      BY <1>4
  <2>. QED BY <2>1, <2>2 DEF Walked
<1>9. \A k \in first_chunk .. last : Positions(body)[k] = h[k]
    BY <1>1, <1>8, OneWalk
<1>. QED BY <1>5, <1>9

-----------------------------------------------------------------------------
(***************************************************************************)
(* What was fetched.                                                       *)
(***************************************************************************)

(* The chunks before first_chunk have their bytes and the others nothing.  *)
Fetched ==
    /\ \A k \in 0 .. Length - 1 :
          ranges[k] = IF k < first_chunk THEN Bytes(Start(k), Start(k) + Size(k) - 1) ELSE None
    /\ pc = "done" => first_chunk = Length

FetchInv == RequestInv /\ Fetched

(* A chunk copied out of the bundle.                                       *)
LEMMA FromBundle ==
    ASSUME RequestInv, NEW k \in 0 .. Length - 1
    PROVE  Copy(Bytes(0, BundleSize - 1), Start(k) + 1, Size(k)) = Bytes(Start(k), Start(k) + Size(k) - 1)
<1>1. PICK s \in Nat, z \in Nat, b \in Nat :
         s = Start(k) /\ z = Size(k) /\ b = BundleSize /\ s + z <= b /\ z # 0
    BY DEF RequestInv, Placed
<1>2. PICK w : w = Bytes(0, b - 1)
    OBVIOUS
<1>3. DOMAIN w = 1 .. b /\ \A y \in 1 .. b : w[y] = Data(0 + y - 1)
  <2>1. b - 1 \in Nat /\ 0 <= b - 1 /\ (b - 1) - 0 + 1 = b
      BY <1>1
  <2>2. /\ DOMAIN Bytes(0, b - 1) = 1 .. (b - 1) - 0 + 1
        /\ \A y \in 1 .. (b - 1) - 0 + 1 : Bytes(0, b - 1)[y] = Data(0 + y - 1)
      BY <2>1, BytesFacts
  <2>. QED BY <1>2, <2>1, <2>2
<1>4. \A y \in 1 .. z : (s + 1) + y - 1 \in DOMAIN w /\ w[(s + 1) + y - 1] = Data(s + y - 1)
  <2> TAKE y \in 1 .. z
  <2>1. (s + 1) + y - 1 \in 1 .. b /\ 0 + ((s + 1) + y - 1) - 1 = s + y - 1
      BY <1>1
  <2>2. w[(s + 1) + y - 1] = Data(0 + ((s + 1) + y - 1) - 1)
      BY <1>3, <2>1
  <2>. QED BY <1>3, <2>1, <2>2
<1>5. Copy(w, s + 1, z) = Bytes(s, s + z - 1)
  <2>1. s + 1 \in Int /\ s \in Int /\ z \in Nat
      BY <1>1
  <2>2. Holds(w, s + 1, s, z)
      BY <1>4 DEF Holds
  <2>. QED BY <2>1, <2>2, CopyIsBytes
<1>. QED BY <1>1, <1>2, <1>5

(* A chunk copied out of the body of a 206 answer for several chunks.      *)
LEMMA FromBody ==
    ASSUME RequestInv, pc = "send", NEW k \in first_chunk .. first_chunk + chunk_count - 1
    PROVE  Copy(PartialBody, Positions(PartialBody)[k], Size(k)) = Bytes(Start(k), Start(k) + Size(k) - 1)
<1>1. PICK g : Cut(g)
    BY DEF RequestInv, CutInv
<1>2. PICK body : body = PartialBody
    OBVIOUS
<1>3. PICK B : Shape(body, B)
  <2>1. Len(requested) # 0
      BY <1>1, SeveralRanges
  <2>. QED BY <1>1, <1>2, <2>1, BodyShape
<1>4. PICK m \in 1 .. Len(requested) : k \in g[m] .. g[m + 1] - 1
  <2>1. first_chunk + chunk_count - 1 = range_start_chunk - 1
      BY DEF RequestInv, CutInv, IndInv, TypeOK
  <2>. QED BY <1>1, <2>1 DEF Cut
<1>5. Positions(body)[k] = B[m] + Start(k) - Start(g[m])
    BY <1>1, <1>3, <1>4, ChunksFound
<1>6. PICK i \in 0 .. Length - 1, e \in 0 .. Length - 1 :
         i = g[m] /\ e = g[m + 1] - 1 /\ k \in i .. e
    BY <1>1, <1>4, RangeBounds
<1>7. k \in 0 .. Length - 1 /\ i <= k /\ k <= e /\ Listed /\ Placed
  <2>1. Length \in Nat /\ Listed /\ Placed
      BY DEF RequestInv, IndInv, Listed
  <2>. QED BY <1>6, <2>1
<1>8. PICK s, z, a, t, v, x \in Nat :
         /\ s = Start(k) /\ z = Size(k) /\ a = Start(i) /\ t = Start(e) /\ v = Size(e) /\ x = B[m]
         /\ a <= s /\ s + z <= t + v
  <2>1. Start(i) <= Start(k) /\ Start(k) + Size(k) <= Start(e) + Size(e)
      BY <1>6, <1>7, PlacesAscend
  <2>2. B[m] \in Nat
      BY <1>3 DEF Shape
  <2>. QED BY <1>6, <1>7, <2>1, <2>2 DEF Placed
<1>9. s \in Int /\ z \in Nat /\ a \in Int /\ t \in Int /\ v \in Int /\ x \in Int /\ a <= s /\ s + z <= t + v
    BY SMTT(30), <1>8
<1>10. requested[m].from = a /\ requested[m].to = t + v - 1
    BY <1>1, <1>6, <1>8 DEF Cut
<1>11. \A y \in 1 .. (t + v - 1) - a + 1 : x + y - 1 \in DOMAIN body /\ body[x + y - 1] = Data(a + y - 1)
    BY <1>3, <1>8, <1>10 DEF Shape
<1>12. PICK p \in Int : p = x + s - a
    BY <1>9
<1>13. \A y \in 1 .. z : p + y - 1 \in DOMAIN body /\ body[p + y - 1] = Data(s + y - 1)
  <2> TAKE y \in 1 .. z
  <2>1. PICK q \in Int : q = s - a + y
      BY <1>9
  <2>2. q \in 1 .. (t + v - 1) - a + 1 /\ x + q - 1 = p + y - 1 /\ a + q - 1 = s + y - 1
      BY <1>9, <1>12, <2>1
  <2>3. x + q - 1 \in DOMAIN body /\ body[x + q - 1] = Data(a + q - 1)
      BY <1>11, <2>2
  <2>. QED BY <2>2, <2>3
<1>14. Copy(body, p, z) = Bytes(s, s + z - 1)
  <2>1. Holds(body, p, s, z)
      BY <1>13 DEF Holds
  <2>. QED BY <1>9, <1>12, <2>1, CopyIsBytes
<1>15. Positions(body)[k] = p
    BY <1>5, <1>6, <1>8, <1>12
<1>. QED BY <1>2, <1>8, <1>14, <1>15

(* A 206 answer for one chunk is the chunk.                                *)
LEMMA BodyOfOne ==
    ASSUME RequestInv, pc = "send", chunk_count = 1
    PROVE  PartialBody = Bytes(Start(first_chunk), Start(first_chunk) + Size(first_chunk) - 1)
<1>1. PICK g : Cut(g)
    BY DEF RequestInv, CutInv
<1>2. PICK n \in Nat : n = Len(requested) /\ n # 0
    BY <1>1, SeveralRanges
<1>3. first_chunk \in Int /\ range_start_chunk = first_chunk + 1
    BY DEF RequestInv, CutInv, IndInv, TypeOK
<1>4. ~(RangeOf(first_chunk + chunk_count - 1) # RangeOf(first_chunk))
    BY <1>3
<1>5. n = 1
    BY <1>1, <1>2, <1>4, SeveralRanges
<1>6. g[1] = first_chunk /\ g[1 + 1] = first_chunk + 1 /\ 1 \in 1 .. Len(requested) /\ (first_chunk + 1) - 1 = first_chunk
    BY <1>1, <1>2, <1>3, <1>5 DEF Cut
<1>7. /\ requested[1].from = Start(first_chunk)
      /\ requested[1].to = Start(first_chunk) + Size(first_chunk) - 1
    BY <1>1, <1>6 DEF Cut
<1>. QED BY <1>2, <1>5, <1>7 DEF PartialBody

(* An answer, or a chunk on disk, is cut right, and nothing else changes   *)
(* what was fetched.                                                       *)
LEMMA FetchStep ==
    ASSUME FetchInv, [Next]_vars
    PROVE  Fetched'
<1>1. /\ Length \in Nat /\ first_chunk \in 0 .. Length /\ DOMAIN chunks = 0 .. Length - 1
      /\ DOMAIN ranges = 0 .. Length - 1
    BY DEF FetchInv, RequestInv, IndInv, TypeOK, Listed
<1>2. UNCHANGED <<chunks, breaks, Length>>
  <2>1. UNCHANGED <<chunks, breaks>>
      BY DEF Next, NewRequest, AddRange, ReceiveWhole, ReceiveOne, ReceiveMany, ReceiveFails,
         Return, OpenBundle, ReadChunk, CloseBundle, vars, inputVars
  <2>. QED BY <2>1 DEF Length
<1>3. \A k : (Bytes(Start(k), Start(k) + Size(k) - 1))' = Bytes(Start(k), Start(k) + Size(k) - 1)
    BY <1>2 DEF Bytes, Start, Size, Data
<1> DEFINE Own(k) == Bytes(Start(k), Start(k) + Size(k) - 1)
<1>4. /\ \A k \in 0 .. Length - 1 : ranges[k] = IF k < first_chunk THEN Own(k) ELSE None
      /\ pc = "done" => first_chunk = Length
    BY DEF FetchInv, Fetched
<1>5. ASSUME \A k \in 0 .. Length - 1 : ranges'[k] = IF k < first_chunk' THEN Own(k) ELSE None,
             pc' = "done" => first_chunk' = Length
      PROVE  Fetched'
    BY <1>2, <1>3, <1>5 DEF Fetched
<1> HIDE DEF Own
<1>6. CASE UNCHANGED <<ranges, first_chunk>> /\ (pc' = "done" => first_chunk >= Length \/ pc = "done")
    BY <1>1, <1>4, <1>5, <1>6
<1>7. CASE ReceiveWhole
  <2>1. first_chunk' = Length /\ pc' # "done"
      BY <1>7, AnswerCounted DEF FetchInv, RequestInv, IndInv
  <2>2. ASSUME NEW k \in 0 .. Length - 1 PROVE k < first_chunk' /\ ranges'[k] = Own(k)
    <3>1. k < Length
        BY <1>1
    <3>2. Copy(Bytes(0, BundleSize - 1), Start(k) + 1, Size(k)) = Own(k)
        BY FromBundle DEF FetchInv, Own
    <3>3. ranges'[k] = IF k < first_chunk THEN ranges[k] ELSE Own(k)
        BY <1>1, <1>7, <3>2 DEF ReceiveWhole
    <3>. QED BY <1>4, <2>1, <3>1, <3>3
  <2>. QED BY <1>5, <2>1, <2>2
<1>8. ASSUME first_chunk \in 0 .. Length - 1, ranges' = [ranges EXCEPT ![first_chunk] = Own(first_chunk)],
             first_chunk' = first_chunk + 1, pc' # "done"
      PROVE  Fetched'
  <2>1. ASSUME NEW k \in 0 .. Length - 1
        PROVE  ranges'[k] = IF k < first_chunk' THEN Own(k) ELSE None
    <3>1. CASE k = first_chunk
        BY <1>1, <1>8, <3>1
    <3>2. CASE k # first_chunk
      <4>1. k < first_chunk' <=> k < first_chunk
          BY <1>1, <1>8, <3>2
      <4>2. ranges'[k] = ranges[k]
          BY <1>1, <1>8, <3>2
      <4>. QED BY <1>4, <4>1, <4>2
    <3>. QED BY <3>1, <3>2
  <2>. QED BY <1>5, <1>8, <2>1
<1>9. CASE ReceiveOne
  <2>1. /\ pc = "send" /\ chunk_count = 1 /\ first_chunk' = first_chunk + 1 /\ pc' = "next"
        /\ ranges' = [ranges EXCEPT ![first_chunk] = PartialBody]
      BY <1>9, AnswerCounted DEF ReceiveOne, FetchInv, RequestInv, IndInv
  <2>2. PartialBody = Own(first_chunk)
      BY <2>1, BodyOfOne DEF FetchInv, Own
  <2>3. first_chunk \in 0 .. Length - 1
      BY <1>1, <2>1 DEF FetchInv, RequestInv, IndInv, Scan
  <2>. QED BY <1>8, <2>1, <2>2, <2>3
<1>10. CASE ReceiveMany
  <2>1. /\ pc = "send" /\ first_chunk' = first_chunk + chunk_count /\ pc' = "next"
        /\ ranges' = [k \in DOMAIN chunks |->
                         IF k \in first_chunk .. first_chunk + chunk_count - 1
                         THEN Copy(PartialBody, Positions(PartialBody)[k], Size(k))
                         ELSE ranges[k]]
      BY <1>10, AnswerCounted DEF ReceiveMany, FetchInv, RequestInv, IndInv
  <2>2. chunk_count \in 1 .. Length - first_chunk
      BY <2>1 DEF FetchInv, RequestInv, IndInv, Scan
  <2>3. ASSUME NEW k \in 0 .. Length - 1
        PROVE  ranges'[k] = IF k < first_chunk' THEN Own(k) ELSE None
    <3>1. CASE k \in first_chunk .. first_chunk + chunk_count - 1
      <4>1. Copy(PartialBody, Positions(PartialBody)[k], Size(k)) = Own(k)
          BY <2>1, <3>1, FromBody DEF FetchInv, Own
      <4>2. k < first_chunk'
          BY <1>1, <2>1, <2>2, <3>1
      <4>. QED BY <1>1, <2>1, <3>1, <4>1, <4>2
    <3>2. CASE k \notin first_chunk .. first_chunk + chunk_count - 1
      <4>1. k < first_chunk' <=> k < first_chunk
          BY <1>1, <2>1, <2>2, <3>2
      <4>2. ranges'[k] = ranges[k]
          BY <1>1, <2>1, <3>2
      <4>. QED BY <1>4, <4>1, <4>2
    <3>. QED BY <3>1, <3>2
  <2>. QED BY <1>5, <2>1, <2>3
<1>11. CASE ReadChunk
  <2>1. CASE UNCHANGED <<ranges, first_chunk>>
      BY <1>6, <1>11, <2>1 DEF ReadChunk
  <2>2. CASE ~UNCHANGED <<ranges, first_chunk>>
    <3>1. /\ pc = "local" /\ first_chunk < Length /\ first_chunk' = first_chunk + 1 /\ pc' = pc
          /\ ranges' = [ranges EXCEPT ![first_chunk] =
                            Copy(Bytes(0, BundleSize - 1), Start(first_chunk) + 1, Size(first_chunk))]
        BY <1>11, <2>2 DEF ReadChunk
    <3>2. first_chunk \in 0 .. Length - 1
        BY <1>1, <3>1
    <3>3. Copy(Bytes(0, BundleSize - 1), Start(first_chunk) + 1, Size(first_chunk)) = Own(first_chunk)
        BY <3>2, FromBundle DEF FetchInv, Own
    <3>. QED BY <1>8, <3>1, <3>2, <3>3
  <2>. QED BY <2>1, <2>2
<1>12. CASE NewRequest \/ ReceiveFails \/ Return \/ OpenBundle \/ CloseBundle \/ UNCHANGED vars
    BY <1>6, <1>12 DEF NewRequest, ReceiveFails, Return, OpenBundle, CloseBundle, vars
<1>13. CASE \E k \in DOMAIN chunks, l \in RangeLens : AddRange(k, l)
    BY <1>6, <1>13 DEF AddRange
<1>. QED BY <1>7, <1>9, <1>10, <1>11, <1>12, <1>13 DEF Next

(* What was fetched, in every state.                                       *)
LEMMA FetchInvariance == Spec => []FetchInv
<1>1. Init => FetchInv
  <2> SUFFICES ASSUME Init PROVE Fetched
    <3>1. Init => RequestInv
      <4> SUFFICES ASSUME Init PROVE RequestInv
          OBVIOUS
      <4>1. pc \in {"open", "next"}
          BY DEF Init
      <4>. QED BY <4>1, InitInv, InitPlaced DEF RequestInv, CutInv
    <3>. QED BY <3>1 DEF FetchInv
  <2>1. Listed
      BY InitInv DEF IndInv
  <2>2. pc # "done" /\ first_chunk = 0 /\ ranges = [k \in DOMAIN chunks |-> None]
      BY DEF Init
  <2>3. DOMAIN chunks = 0 .. Length - 1 /\ \A k \in 0 .. Length - 1 : ~(k < 0)
      BY <2>1 DEF Listed
  <2>. QED BY <2>2, <2>3 DEF Fetched
<1>2. Fetched /\ RequestInv /\ RequestInv' /\ [Next]_vars => Fetched'
    BY FetchStep DEF FetchInv
<1>3. Spec => []Fetched
  <2>1. Init => Fetched
      BY <1>1 DEF FetchInv
  <2>. QED BY <1>2, <2>1, RequestInvariance, PTL DEF Spec
<1>. QED BY <1>3, RequestInvariance, PTL DEF FetchInv

(* Every chunk that was fetched has its own bytes, and when                *)
(* download_ranges or get_ranges returns all of them were: for every       *)
(* bundle and list, for every way the request is split by the size of the  *)
(* buffer, for every answer of the server and whatever the bytes look      *)
(* like.  The positions the loop of response_to_ranges walks through are   *)
(* those of the chunks (ChunksFound), because a range ends exactly where   *)
(* chunk_to_range_map steps up, so strstr starts on the break itself.      *)
THEOREM FetchedRightAlways == Spec => []FetchedRight
<1>1. FetchInv => FetchedRight
  <2> SUFFICES ASSUME RequestInv, Fetched, NEW k \in DOMAIN chunks
               PROVE  \/ ranges[k] = Bytes(Start(k), Start(k) + Size(k) - 1)
                      \/ ranges[k] = None /\ pc # "done"
      BY DEF FetchedRight, FetchInv
  <2>1. k \in 0 .. Length - 1 /\ Length \in Nat
      BY DEF RequestInv, IndInv, Listed
  <2>2. pc = "done" => k < first_chunk
      BY <2>1 DEF Fetched
  <2>. QED BY <2>1, <2>2 DEF Fetched
<1>. QED BY <1>1, FetchInvariance, PTL

-----------------------------------------------------------------------------
(***************************************************************************)
(* Several requests.                                                       *)
(***************************************************************************)

(* A request begins with the list or behind a gap.                         *)
Behind ==
    pc \in {"next", "ranges", "send"} /\ 0 < first_chunk /\ first_chunk < Length
        => Gap(first_chunk)

(* The last range of a request ends with the list or before a gap, so the  *)
(* next request begins behind it.                                          *)
LEMMA BehindStep ==
    ASSUME RequestInv, Behind, [Next]_vars
    PROVE  Behind'
<1>1. /\ Length \in Nat /\ first_chunk \in 0 .. Length
      /\ TypeOK /\ Listed /\ Scan
    BY DEF RequestInv, IndInv, TypeOK, Listed
<1>2. UNCHANGED <<chunks, Length>>
  <2>1. UNCHANGED chunks
      BY DEF Next, NewRequest, AddRange, ReceiveWhole, ReceiveOne, ReceiveMany, ReceiveFails,
         Return, OpenBundle, ReadChunk, CloseBundle, vars, inputVars
  <2>. QED BY <2>1 DEF Length
<1>3. \A k : Gap(k)' = Gap(k)
    BY <1>2 DEF Gap, Start, Size
<1>4. CASE pc' \notin {"next", "ranges", "send"}
    BY <1>4 DEF Behind
<1>5. CASE first_chunk' = first_chunk /\ pc \in {"next", "ranges", "send"}
    BY <1>2, <1>3, <1>5 DEF Behind
<1>6. CASE ReceiveWhole
    BY <1>1, <1>2, <1>6, AnswerCounted DEF Behind
<1>7. CASE ReceiveOne \/ ReceiveMany
  <2>1. pc = "send" /\ first_chunk' = first_chunk + chunk_count
    <3>1. CASE ReceiveOne
        BY <1>1, <3>1, AnswerCounted DEF ReceiveOne
    <3>2. CASE ReceiveMany
        BY <1>1, <3>2, AnswerCounted DEF ReceiveMany
    <3>. QED BY <1>7, <3>1, <3>2
  <2>2. PICK g : Cut(g)
      BY <2>1 DEF RequestInv, CutInv
  <2>3. first_chunk' = range_start_chunk /\ chunk_count \in 1 .. Length - first_chunk
      BY <1>1, <2>1 DEF RequestInv, CutInv, Scan
  <2>4. PICK n \in Nat : n = Len(requested)
      BY <2>2 DEF Cut
  <2>5. g[1] = first_chunk /\ g[n + 1] = range_start_chunk
      BY <2>2, <2>4 DEF Cut
  <2>6. n # 0
    <3>1. first_chunk # range_start_chunk
        BY <1>1, <2>1, <2>3
    <3>2. n = 0 => n + 1 = 1
        BY <2>4
    <3>. QED BY <2>5, <3>1, <3>2
  <2>7. n \in 1 .. n
      BY <2>4, <2>6
  <2>8. g[n + 1] < Length => Gap(g[n + 1])
      BY <2>2, <2>4, <2>7 DEF Cut
  <2>. QED BY <1>2, <1>3, <2>3, <2>5, <2>8 DEF Behind
<1>8. CASE OpenBundle \/ ReadChunk \/ CloseBundle \/ ReceiveFails \/ Return
  <2>1. pc' \notin {"next", "ranges", "send"}
      BY <1>8 DEF OpenBundle, ReadChunk, CloseBundle, ReceiveFails, Return
  <2>. QED BY <1>4, <2>1
<1>9. CASE NewRequest
  <2>1. first_chunk' = first_chunk /\ pc = "next"
      BY <1>9 DEF NewRequest
  <2>. QED BY <1>5, <2>1
<1>10. CASE \E k \in DOMAIN chunks, l \in RangeLens : AddRange(k, l)
  <2>1. first_chunk' = first_chunk /\ pc = "ranges"
      BY <1>10 DEF AddRange
  <2>. QED BY <1>5, <2>1
<1>11. CASE UNCHANGED vars
  <2>1. first_chunk' = first_chunk /\ pc' = pc
      BY <1>11 DEF vars
  <2>. QED BY <1>4, <1>5, <2>1
<1>. QED BY <1>6, <1>7, <1>8, <1>9, <1>10, <1>11 DEF Next

(* No request asks again for a byte of a chunk fetched before, for every   *)
(* bundle, list and buffer: a request begins behind a gap (Behind), before *)
(* which all earlier chunks end (PlacesAscend).                            *)
THEOREM NothingTwiceAlways == Spec => []NothingTwice
<1>1. Spec => []Behind
  <2>1. Init => Behind
      BY DEF Init, Behind
  <2>2. Behind /\ RequestInv /\ [Next]_vars => Behind'
      BY BehindStep
  <2>. QED BY <2>1, <2>2, RequestInvariance, PTL DEF Spec
<1>2. Behind /\ FetchInv => NothingTwice
  <2> SUFFICES ASSUME Behind, FetchInv, pc = "send", NEW n \in 1 .. Len(requested),
                      NEW k \in DOMAIN chunks, ranges[k] # None
               PROVE  Start(k) + Size(k) - 1 < requested[n].from
      BY DEF NothingTwice
  <2>1. RequestInv /\ Listed /\ Placed /\ Length \in Nat /\ first_chunk \in 0 .. Length
      BY DEF FetchInv, RequestInv, IndInv, Listed, TypeOK
  <2>2. k \in 0 .. Length - 1 /\ k < first_chunk
    <3>1. k \in 0 .. Length - 1
        BY <2>1 DEF Listed
    <3>. QED BY <3>1 DEF FetchInv, Fetched
  <2>3. PICK g : Cut(g)
      BY <2>1 DEF RequestInv, CutInv
  <2>4. /\ g[n] \in 0 .. Length - 1 /\ first_chunk <= g[n]
        /\ requested[n].from = Start(g[n])
    <3>1. g[n] \in 0 .. Length - 1 /\ first_chunk <= g[n]
        BY <2>1, <2>3, RangeBounds
    <3>. QED BY <2>3, <3>1 DEF Cut
  <2>5. PICK f \in Nat : f = first_chunk /\ f \in 1 .. Length - 1
      BY <2>1, <2>2, <2>4
  <2>6. f - 1 \in 0 .. Length - 1 /\ f \in 0 .. Length - 1 /\ k <= f - 1 /\ f <= g[n]
      BY <2>1, <2>2, <2>4, <2>5
  <2>7. Start(k) + Size(k) <= Start(f - 1) + Size(f - 1)
      BY <2>1, <2>2, <2>6, PlacesAscend
  <2>8. Start(f) <= Start(g[n])
      BY <2>1, <2>4, <2>6, PlacesAscend
  <2>9. Start(f) >= Start(f - 1) + Size(f - 1)
    <3>1. Gap(f)
        BY <2>1, <2>5 DEF Behind
    <3>2. Start(f - 1) # Start(f)
        BY <3>1 DEF Gap
    <3>. QED BY <2>1, <2>5, <3>2 DEF Placed
  <2>10. /\ Start(k) \in Nat /\ Size(k) \in Nat /\ Start(f - 1) \in Nat /\ Size(f - 1) \in Nat
         /\ Start(f) \in Nat /\ Start(g[n]) \in Nat
      BY <2>1, <2>2, <2>4, <2>6 DEF Placed
  <2>. QED BY <2>4, <2>7, <2>8, <2>9, <2>10
<1>. QED BY <1>1, <1>2, FetchInvariance, PTL

=============================================================================
