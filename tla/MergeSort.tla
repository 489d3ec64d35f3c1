----------------------------- MODULE MergeSort -----------------------------
(***************************************************************************)
(* sort_list of list.h: a merge sort from the bottom up that moves the     *)
(* objects back and forth between the list and a copy of it.  An object is *)
(* a pair of its key and its index in the input.  Array index j of the     *)
(* code is index j + 1 here.                                               *)
(***************************************************************************)
EXTENDS Integers, Sequences

CONSTANTS Key, MaxLength

VARIABLES input,              \* the keys of the input
          list, temp,         \* the two arrays
          width, i, parity,   \* the loops of sort_list
          left, right, k,     \* ___i, ___j and ___k of sortHelper
          done

vars == <<input, list, temp, width, i, parity, left, right, k, done>>

n == Len(input)
Least(a, b) == IF a < b THEN a ELSE b

\* The runs that are merged: [i, iRight) and [iRight, iEnd).
iRight == Least(i + width, n)
iEnd == Least(i + 2 * width, n)

Init == /\ input \in UNION {[1 .. m -> Key] : m \in 0 .. MaxLength}
        /\ list = [j \in 1 .. n |-> <<input[j], j>>] /\ temp = list
        /\ width = 1 /\ i = 0 /\ parity = 1
        /\ left = 0 /\ right = Least(1, n) /\ k = 0 /\ done = FALSE

\* In an even pass the objects go from the list to the copy.
source == IF parity % 2 = 0 THEN list ELSE temp

\* Faulty: of two equal keys the right one is taken.
LessThan(a, b) == a[1] < b[1]
NotAfter(a, b) == a[1] <= b[1]

\* A round of the loop of sortHelper.
Take ==
    /\ ~done /\ width < n /\ i < n /\ k < iEnd
    /\ LET fromLeft == /\ left < iRight
                       /\ right >= iEnd \/ NotAfter(source[left + 1], source[right + 1])
           object == source[(IF fromLeft THEN left ELSE right) + 1]
       IN  /\ left' = IF fromLeft THEN left + 1 ELSE left
           /\ right' = IF fromLeft THEN right ELSE right + 1
           /\ list' = IF parity % 2 = 0 THEN list ELSE [list EXCEPT ![k + 1] = object]
           /\ temp' = IF parity % 2 = 0 THEN [temp EXCEPT ![k + 1] = object] ELSE temp
    /\ k' = k + 1
    /\ UNCHANGED <<input, width, i, parity, done>>

\* sortHelper begins with the runs of width w at the given place.
Begin(at, w) == i' = at /\ left' = at /\ right' = Least(at + w, n) /\ k' = at

NextPair == i + 2 * width

NextRuns ==
    /\ ~done /\ width < n /\ i < n /\ k >= iEnd
    /\ Begin(NextPair, width)
    /\ UNCHANGED <<input, list, temp, width, parity, done>>

NextWidth ==
    /\ ~done /\ width < n /\ i >= n
    /\ width' = 2 * width /\ parity' = parity + 1 /\ Begin(0, 2 * width)
    /\ UNCHANGED <<input, list, temp, done>>

\* The array that was written last (parity is one pass ahead here).
Finish ==
    /\ ~done /\ width >= n /\ done' = TRUE
    /\ list' = IF (parity - 1) % 2 = 0 THEN temp ELSE list
    /\ UNCHANGED <<input, temp, width, i, parity, left, right, k>>

Done == done /\ UNCHANGED vars

Next == Take \/ NextRuns \/ NextWidth \/ Finish \/ Done

Spec == Init /\ [][Next]_vars

-----------------------------------------------------------------------------
\* When the sort has ended the list holds every object of the input once, in
\* the order of the keys and, among equal keys, in the order of the input, and
\* whether the number of passes was odd or even (list.h:101-138).
StablySorted ==
    done => /\ {list[j][2] : j \in 1 .. n} = 1 .. n
            /\ \A j \in 1 .. n : list[j][1] = input[list[j][2]]
            /\ \A j \in 1 .. n - 1 : \/ list[j][1] < list[j + 1][1]
                                     \/ list[j][1] = list[j + 1][1] /\ list[j][2] < list[j + 1][2]

=============================================================================
