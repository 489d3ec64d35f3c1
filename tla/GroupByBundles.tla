--------------------------- MODULE GroupByBundles ---------------------------
(***************************************************************************)
(* group_by_bundles of rman.c: the chunks that a file needs become one     *)
(* list per bundle.  A chunk is known by its index in the input; the two   *)
(* list operations are what SortedList shows of them: a search finds a key *)
(* iff it is there, an insertion keeps the order and may put an object     *)
(* anywhere among those with the same key.                                 *)
(***************************************************************************)
EXTENDS Integers, Sequences, SequencesExt

CONSTANTS ChunkLists \* lists of chunks, as pairs of bundle id and bundle offset

VARIABLES chunks, i,       \* the input and the next chunk of it
          unique_bundles   \* the result: bundles with the indices of their chunks

vars == <<chunks, i, unique_bundles>>

Bundle(c) == c[1]
Offset(c) == c[2]

Init == chunks \in ChunkLists /\ i = 1 /\ unique_bundles = <<>>

\* Where add_object_s may put an object among objects with the given keys.
Positions(keys, key) ==
    {q \in 1 .. Len(keys) + 1 : /\ \A j \in 1 .. q - 1 : keys[j] <= key
                                /\ \A j \in q .. Len(keys) : key <= keys[j]}

Ids == [b \in DOMAIN unique_bundles |-> unique_bundles[b].bundle_id]
OffsetsIn(list) == [j \in DOMAIN list |-> Offset(chunks[list[j]])]

\* Faulty: only the bundle that was used last is looked at.
FoundLast == {b \in DOMAIN unique_bundles :
                /\ unique_bundles[b].bundle_id = Bundle(chunks[i])
                /\ i - 1 \in ToSet(unique_bundles[b].chunks)}
\* Where find_object_s may find the bundle of the chunk.
Found == {b \in DOMAIN unique_bundles : unique_bundles[b].bundle_id = Bundle(chunks[i])}

NewBundle ==
    /\ i <= Len(chunks) /\ Found = {}
    /\ \E q \in Positions(Ids, Bundle(chunks[i])) :
        unique_bundles' = InsertAt(unique_bundles, q,
                                   [bundle_id |-> Bundle(chunks[i]), chunks |-> <<i>>])
    /\ i' = i + 1 /\ UNCHANGED chunks

SameBundle ==
    /\ i <= Len(chunks)
    /\ \E b \in Found : LET list == unique_bundles[b].chunks IN
        \E q \in Positions(OffsetsIn(list), Offset(chunks[i])) :
            unique_bundles' = [unique_bundles EXCEPT ![b].chunks = InsertAt(list, q, i)]
    /\ i' = i + 1 /\ UNCHANGED chunks

Done == i > Len(chunks) /\ UNCHANGED vars

Next == NewBundle \/ SameBundle \/ Done

Spec == Init /\ [][Next]_vars

-----------------------------------------------------------------------------
\* Every chunk seen so far stands in exactly one list and once in it, under its
\* own bundle, and no bundle has two lists: what the workers fetch bundle by
\* bundle is the whole file, once (rman.c:103-114).
Partition ==
    /\ \A b, c \in DOMAIN unique_bundles :
           unique_bundles[b].bundle_id = unique_bundles[c].bundle_id => b = c
    /\ \A b \in DOMAIN unique_bundles : \A j \in ToSet(unique_bundles[b].chunks) :
           Bundle(chunks[j]) = unique_bundles[b].bundle_id
    /\ \A j \in 1 .. i - 1 : \E b \in DOMAIN unique_bundles : \E k \in DOMAIN unique_bundles[b].chunks :
           \A m \in DOMAIN unique_bundles[b].chunks : unique_bundles[b].chunks[m] = j <=> m = k

\* The chunks of a bundle stand in the order of their places in it, which is how
\* download_ranges makes ranges of neighbours (rman.c:109-112).
Ordered ==
    \A b \in DOMAIN unique_bundles : LET offsets == OffsetsIn(unique_bundles[b].chunks) IN
        \A j \in 1 .. Len(offsets) - 1 : offsets[j] <= offsets[j + 1]

\* The result is the input, partitioned by bundle and ordered (rman.c:99-117).
Grouped == Partition /\ Ordered
=============================================================================
