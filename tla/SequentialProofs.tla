-------------------------- MODULE SequentialProofs --------------------------
(***************************************************************************)
(* Proofs about the sequential algorithms, for inputs of every length: the *)
(* merge sort of list.h sorts and is stable, group_by_bundles puts every   *)
(* chunk into the one group of its bundle, the bytes given to SHA-256 in   *)
(* pieces are compressed as the padded message, and the options that are   *)
(* read are those that were written.                                       *)
(***************************************************************************)
EXTENDS Sequential, Induction, SequenceTheorems

-----------------------------------------------------------------------------
\* The merge sort.  Objects of the input are pairs of key and index; Before is
\* the order they are sorted into.
Before(x, y) == x[1] < y[1] \/ (x[1] = y[1] /\ x[2] < y[2])
Items(keys) == {x \in Int \X (1 .. Len(keys)) : x[1] = keys[x[2]]}

\* The objects of array a in [from, to) are in order, and are those that stood
\* there in the input.
InOrder(a, from, to) == \A j, m \in from + 1 .. to : j < m => Before(a[j], a[m])
Holds(a, from, to) == /\ \A j \in from + 1 .. to : a[j][2] \in from + 1 .. to
                      /\ \A m \in from + 1 .. to : \E j \in from + 1 .. to : a[j][2] = m
Run(a, from, to) == InOrder(a, from, to) /\ Holds(a, from, to)

\* sortHelper has merged the runs of s from at to mid and from mid to end, up to
\* l and r, into d up to p.
Merging(s, d, at, l, mid, r, end, p) ==
    /\ at <= l /\ l <= mid /\ mid <= r /\ r <= end /\ p = l + r - mid
    /\ InOrder(d, at, p)
    /\ \A j \in at + 1 .. p : d[j][2] \in at + 1 .. end
    /\ \A j \in at + 1 .. p : \A m \in (l + 1 .. mid) \cup (r + 1 .. end) : Before(d[j], s[m])
    /\ \A m \in (at + 1 .. l) \cup (mid + 1 .. r) : \E j \in at + 1 .. p : d[j] = s[m]

\* Before is transitive on objects.
LEMMA BeforeTransitive ==
    ASSUME NEW keys, NEW x \in Items(keys), NEW y \in Items(keys), NEW z \in Items(keys),
           Before(x, y), Before(y, z)
    PROVE  Before(x, z)
<1>1. x[1] \in Int /\ y[1] \in Int /\ z[1] \in Int /\ x[2] \in Int /\ y[2] \in Int /\ z[2] \in Int
    BY DEF Items
<1> QED BY <1>1 DEF Before

\* A round of sortHelper that takes an object that comes before all that are
\* left goes on with the merge.
LEMMA MergeTake ==
    ASSUME NEW keys \in Seq(Int),
           NEW s \in [1 .. Len(keys) -> Items(keys)], NEW d \in [1 .. Len(keys) -> Items(keys)],
           NEW at \in Nat, NEW l \in Nat, NEW mid \in Nat, NEW r \in Nat, NEW end \in Nat, NEW p \in Nat,
           end <= Len(keys), Merging(s, d, at, l, mid, r, end, p),
           NEW l2 \in Nat, NEW r2 \in Nat, NEW q \in Nat,
           \/ q = l + 1 /\ l2 = l + 1 /\ r2 = r
           \/ q = r + 1 /\ l2 = l /\ r2 = r + 1,
           l2 <= mid, r2 <= end, s[q][2] \in at + 1 .. end,
           \A m \in (l2 + 1 .. mid) \cup (r2 + 1 .. end) : Before(s[q], s[m])
    PROVE  /\ [d EXCEPT ![p + 1] = s[q]] \in [1 .. Len(keys) -> Items(keys)]
           /\ Merging(s, [d EXCEPT ![p + 1] = s[q]], at, l2, mid, r2, end, p + 1)
<1> DEFINE e == [d EXCEPT ![p + 1] = s[q]]
<1>1. /\ Len(keys) \in Nat /\ p + 1 \in 1 .. Len(keys) /\ q \in 1 .. Len(keys)
      /\ at <= p /\ p + 1 = l2 + r2 - mid
    BY DEF Merging
<1>2. e \in [1 .. Len(keys) -> Items(keys)]
    BY <1>1
<1>3. /\ e[p + 1] = s[q]
      /\ \A j \in at + 1 .. p : e[j] = d[j]
    BY <1>1
<1> HIDE DEF e
<1>4. \A j \in at + 1 .. p : Before(e[j], s[q])
  <2> TAKE j \in at + 1 .. p
  <2>1. q \in (l + 1 .. mid) \cup (r + 1 .. end)
      BY DEF Merging
  <2> QED BY <1>3, <2>1 DEF Merging
<1>5. InOrder(e, at, p + 1)
  <2> SUFFICES ASSUME NEW j \in at + 1 .. p + 1, NEW m \in at + 1 .. p + 1, j < m
               PROVE  Before(e[j], e[m])
      BY DEF InOrder
  <2>1. CASE m = p + 1
    <3>1. j \in at + 1 .. p
        BY <2>1
    <3> QED BY <1>3, <1>4, <2>1, <3>1
  <2>2. CASE m # p + 1
    <3>1. j \in at + 1 .. p /\ m \in at + 1 .. p
        BY <2>2
    <3>2. Before(d[j], d[m])
        BY <3>1 DEF Merging, InOrder
    <3> QED BY <1>3, <3>1, <3>2
  <2> QED BY <2>1, <2>2
<1>6. \A j \in at + 1 .. p + 1 : e[j][2] \in at + 1 .. end
  <2> TAKE j \in at + 1 .. p + 1
  <2>1. CASE j = p + 1
      BY <1>3, <2>1
  <2>2. CASE j # p + 1
    <3>1. j \in at + 1 .. p
        BY <2>2
    <3> QED BY <1>3, <3>1 DEF Merging
  <2> QED BY <2>1, <2>2
<1>7. \A j \in at + 1 .. p + 1 : \A m \in (l2 + 1 .. mid) \cup (r2 + 1 .. end) : Before(e[j], s[m])
  <2> TAKE j \in at + 1 .. p + 1
  <2> TAKE m \in (l2 + 1 .. mid) \cup (r2 + 1 .. end)
  <2>1. CASE j = p + 1
      BY <1>3, <2>1
  <2>2. CASE j # p + 1
    <3>1. j \in at + 1 .. p /\ m \in (l + 1 .. mid) \cup (r + 1 .. end)
        BY <2>2
    <3>2. Before(d[j], s[m])
        BY <3>1 DEF Merging
    <3> QED BY <1>3, <3>1, <3>2
  <2> QED BY <2>1, <2>2
<1>8. \A m \in (at + 1 .. l2) \cup (mid + 1 .. r2) : \E j \in at + 1 .. p + 1 : e[j] = s[m]
  <2> TAKE m \in (at + 1 .. l2) \cup (mid + 1 .. r2)
  <2>1. CASE m = q
    <3>1. p + 1 \in at + 1 .. p + 1 /\ e[p + 1] = s[m]
        BY <1>1, <1>3, <2>1
    <3> QED BY <3>1
  <2>2. CASE m # q
    <3>1. m \in (at + 1 .. l) \cup (mid + 1 .. r)
        BY SMTT(30), <2>2
    <3>2. PICK j \in at + 1 .. p : d[j] = s[m]
        BY <3>1 DEF Merging
    <3> QED BY <1>3, <3>2
  <2> QED BY <2>1, <2>2
<1>9. at <= l2 /\ mid <= r2
    BY DEF Merging
<1> QED BY <1>1, <1>2, <1>5, <1>6, <1>7, <1>8, <1>9 DEF Merging, e

\* A round that takes from the left run, because the right one is at its end or
\* its next key is not smaller.
LEMMA MergeLeft ==
    ASSUME NEW keys \in Seq(Int),
           NEW s \in [1 .. Len(keys) -> Items(keys)], NEW d \in [1 .. Len(keys) -> Items(keys)],
           NEW at \in Nat, NEW l \in Nat, NEW mid \in Nat, NEW r \in Nat, NEW end \in Nat, NEW p \in Nat,
           end <= Len(keys), Run(s, at, mid), Run(s, mid, end),
           Merging(s, d, at, l, mid, r, end, p),
           l < mid, r >= end \/ s[l + 1][1] <= s[r + 1][1]
    PROVE  /\ [d EXCEPT ![p + 1] = s[l + 1]] \in [1 .. Len(keys) -> Items(keys)]
           /\ Merging(s, [d EXCEPT ![p + 1] = s[l + 1]], at, l + 1, mid, r, end, p + 1)
<1>1. /\ l + 1 \in at + 1 .. mid /\ Len(keys) \in Nat /\ at <= l /\ mid <= r /\ r <= end
      /\ l + 1 \in 1 .. Len(keys) /\ l + 1 \in Nat /\ l + 1 <= mid
    BY DEF Merging
<1>2. s[l + 1][2] \in at + 1 .. mid
    BY <1>1 DEF Run, Holds
<1>3. \A m \in l + 2 .. mid : Before(s[l + 1], s[m])
    BY SMTT(30), <1>1 DEF Run, InOrder
<1>4. \A m \in r + 1 .. end : Before(s[l + 1], s[m])
  <2> TAKE m \in r + 1 .. end
  <2>1. r + 1 \in mid + 1 .. end /\ m \in mid + 1 .. end /\ r + 1 \in 1 .. Len(keys) /\ m \in 1 .. Len(keys)
      BY <1>1
  <2>2. s[r + 1][2] \in mid + 1 .. end
      BY <2>1 DEF Run, Holds
  <2>3. s[l + 1][1] <= s[r + 1][1] /\ s[l + 1][2] < s[r + 1][2]
    <3>1. ~(r >= end)
        BY <2>1
    <3>2. \A x \in at + 1 .. mid, y \in mid + 1 .. end : x < y
        OBVIOUS
    <3> QED BY <1>2, <2>2, <3>1, <3>2
  <2>4. Before(s[l + 1], s[r + 1])
    <3>1. s[l + 1] \in Items(keys) /\ s[r + 1] \in Items(keys)
        BY <1>1, <2>1
    <3>2. s[l + 1][1] \in Int /\ s[r + 1][1] \in Int
        BY <3>1 DEF Items
    <3>3. \A x, y \in Int : x <= y => x < y \/ x = y
        OBVIOUS
    <3> QED BY <2>3, <3>2, <3>3 DEF Before
  <2>5. CASE m = r + 1
      BY <2>4, <2>5
  <2>6. CASE m # r + 1
    <3>1. Before(s[r + 1], s[m])
        BY <2>1, <2>6 DEF Run, InOrder
    <3>2. s[l + 1] \in Items(keys) /\ s[r + 1] \in Items(keys) /\ s[m] \in Items(keys)
        BY <1>1, <2>1
    <3> QED BY <2>4, <3>1, <3>2, BeforeTransitive
  <2> QED BY <2>5, <2>6
<1>5. \A m \in ((l + 1) + 1 .. mid) \cup (r + 1 .. end) : Before(s[l + 1], s[m])
    BY SMTT(30), <1>3, <1>4
<1>6. s[l + 1][2] \in at + 1 .. end
    BY SMTT(30), <1>1, <1>2
<1> QED BY <1>1, <1>5, <1>6, MergeTake

\* A round that takes from the right run: the left one is at its end, or its
\* next key is greater.
LEMMA MergeRight ==
    ASSUME NEW keys \in Seq(Int),
           NEW s \in [1 .. Len(keys) -> Items(keys)], NEW d \in [1 .. Len(keys) -> Items(keys)],
           NEW at \in Nat, NEW l \in Nat, NEW mid \in Nat, NEW r \in Nat, NEW end \in Nat, NEW p \in Nat,
           end <= Len(keys), Run(s, at, mid), Run(s, mid, end),
           Merging(s, d, at, l, mid, r, end, p), p < end,
           ~(l < mid /\ (r >= end \/ s[l + 1][1] <= s[r + 1][1]))
    PROVE  /\ [d EXCEPT ![p + 1] = s[r + 1]] \in [1 .. Len(keys) -> Items(keys)]
           /\ Merging(s, [d EXCEPT ![p + 1] = s[r + 1]], at, l, mid, r + 1, end, p + 1)
<1>1. /\ r < end /\ at <= l /\ l <= mid /\ mid <= r /\ Len(keys) \in Nat
      /\ r + 1 \in mid + 1 .. end /\ r + 1 \in 1 .. Len(keys) /\ r + 1 \in Nat /\ r + 1 <= end
    BY DEF Merging
<1>2. s[r + 1][2] \in at + 1 .. end
  <2>1. s[r + 1][2] \in mid + 1 .. end
      BY <1>1 DEF Run, Holds
  <2>2. \A x \in mid + 1 .. end : x \in at + 1 .. end
      BY <1>1
  <2> QED BY <2>1, <2>2
<1>3. \A m \in r + 2 .. end : Before(s[r + 1], s[m])
    BY SMTT(30), <1>1 DEF Run, InOrder
<1>4. \A m \in l + 1 .. mid : Before(s[r + 1], s[m])
  <2> TAKE m \in l + 1 .. mid
  <2>1. l + 1 \in at + 1 .. mid /\ m \in at + 1 .. mid /\ l + 1 \in 1 .. Len(keys) /\ m \in 1 .. Len(keys)
      BY SMTT(30), <1>1
  <2>2. s[l + 1][1] \in Int /\ s[r + 1][1] \in Int
      BY <1>1, <2>1 DEF Items
  <2>3. Before(s[r + 1], s[l + 1])
      BY SMTT(30), <1>1, <2>2 DEF Before
  <2>4. CASE m = l + 1
      BY <2>3, <2>4
  <2>5. CASE m # l + 1
    <3>1. Before(s[l + 1], s[m])
        BY <2>1, <2>5 DEF Run, InOrder
    <3>2. s[l + 1] \in Items(keys) /\ s[r + 1] \in Items(keys) /\ s[m] \in Items(keys)
        BY <1>1, <2>1
    <3> QED BY <2>3, <3>1, <3>2, BeforeTransitive
  <2> QED BY <2>4, <2>5
<1>5. \A m \in (l + 1 .. mid) \cup ((r + 1) + 1 .. end) : Before(s[r + 1], s[m])
    BY <1>3, <1>4
<1> QED BY <1>1, <1>2, <1>5, MergeTake

\* Two runs that are merged to the end are one.
LEMMA MergeEnd ==
    ASSUME NEW keys \in Seq(Int), NEW s, NEW d,
           NEW at \in Nat, NEW l \in Nat, NEW mid \in Nat, NEW r \in Nat, NEW end \in Nat, NEW p \in Nat,
           Run(s, at, mid), Run(s, mid, end), Merging(s, d, at, l, mid, r, end, p), p >= end
    PROVE  Run(d, at, end)
<1>1. l = mid /\ r = end /\ p = end /\ at <= mid /\ mid <= end
    BY DEF Merging
<1>2. \A m \in at + 1 .. end : \E j \in at + 1 .. end : d[j][2] = m
  <2> TAKE m \in at + 1 .. end
  <2>1. PICK q \in (at + 1 .. mid) \cup (mid + 1 .. end) : s[q][2] = m
    <3>1. CASE m \in at + 1 .. mid
        BY <3>1 DEF Run, Holds
    <3>2. CASE m \notin at + 1 .. mid
      <4>1. m \in mid + 1 .. end
          BY <1>1, <3>2
      <4> QED BY <4>1 DEF Run, Holds
    <3> QED BY <3>1, <3>2
  <2>2. PICK j \in at + 1 .. end : d[j] = s[q]
      BY <1>1 DEF Merging
  <2> QED BY <2>1, <2>2
<1>3. InOrder(d, at, end) /\ \A j \in at + 1 .. end : d[j][2] \in at + 1 .. end
    BY <1>1 DEF Merging
<1> QED BY <1>2, <1>3 DEF Run, Holds

\* A run stays one if nothing is written into it.
LEMMA RunKept ==
    ASSUME NEW a, NEW b, NEW from \in Nat, NEW to \in Nat, Run(a, from, to),
           \A j \in from + 1 .. to : b[j] = a[j]
    PROVE  Run(b, from, to)
<1>1. InOrder(b, from, to)
    BY DEF Run, InOrder
<1>2. Holds(b, from, to)
    BY DEF Run, Holds
<1> QED BY <1>1, <1>2 DEF Run

\* Where runs of width w begin.
Starts(w) == {q * w : q \in Nat}

\* Runs of a width, and of twice that width, begin at its multiples.
LEMMA StartsDouble ==
    ASSUME NEW w \in Nat, NEW p \in Starts(2 * w)
    PROVE  p \in Nat /\ p \in Starts(w) /\ p + w \in Starts(w) /\ p + 2 * w \in Starts(2 * w)
<1>1. PICK q \in Nat : p = q * (2 * w)
    BY DEF Starts
<1>2. p = (2 * q) * w /\ p + w = (2 * q + 1) * w /\ p + 2 * w = (q + 1) * (2 * w) /\ p \in Nat
    BY <1>1
<1>3. 2 * q \in Nat /\ 2 * q + 1 \in Nat /\ q + 1 \in Nat
    OBVIOUS
<1> QED BY <1>2, <1>3 DEF Starts

\* Two runs of the same width are the same or do not overlap.
LEMMA StartsApart ==
    ASSUME NEW w \in Nat, NEW p \in Starts(w), NEW r \in Starts(w), p < r
    PROVE  p + w <= r
<1>1. PICK q \in Nat : p = q * w
    BY DEF Starts
<1>2. PICK t \in Nat : r = t * w
    BY DEF Starts
<1>3. q < t
  <2> SUFFICES ASSUME t <= q PROVE FALSE
      BY <1>1, <1>2
  <2>1. q - t \in Nat /\ q * w = t * w + (q - t) * w /\ (q - t) * w \in Nat
      OBVIOUS
  <2> QED BY <1>1, <1>2, <2>1
<1>4. t - q - 1 \in Nat /\ t * w = q * w + w + (t - q - 1) * w /\ (t - q - 1) * w \in Nat
    BY <1>3
<1> QED BY <1>1, <1>2, <1>4

-----------------------------------------------------------------------------
\* The array that a pass writes.
target == IF parity % 2 = 0 THEN temp ELSE list

SortTypes ==
    /\ input \in Seq(Key)
    /\ list \in [1 .. Sort!n -> Items(input)] /\ temp \in [1 .. Sort!n -> Items(input)]
    /\ width \in Nat \ {0} /\ i \in Nat /\ parity \in Nat
    /\ left \in Nat /\ right \in Nat /\ k \in Nat

\* Runs as wide as the pass assumes are what the last pass left.
PassBefore == \A p \in Starts(width) : p < Sort!n => Run(Sort!source, p, Sort!Least(p + width, Sort!n))

\* What this pass has merged are runs twice as wide.
PassSoFar == \A p \in Starts(2 * width) :
                p < i /\ p < Sort!n => Run(target, p, Sort!Least(p + 2 * width, Sort!n))

\* The runs that sortHelper is at.
PassNow == /\ i \in Starts(2 * width)
           /\ i < Sort!n => Merging(Sort!source, target, i, left, Sort!iRight, right, Sort!iEnd, k)

SortInv == /\ SortTypes
           /\ done \in BOOLEAN
           /\ ~done => PassBefore /\ PassSoFar /\ PassNow
           /\ Sort!StablySorted

\* The length of the input and the ends of the runs.
LEMMA SortBounds ==
    ASSUME SortTypes
    PROVE  /\ Sort!n \in Nat /\ Sort!n = Len(input) /\ input \in Seq(Int)
           /\ Sort!iRight \in Nat /\ Sort!iEnd \in Nat
           /\ Sort!iEnd <= Sort!n /\ Sort!iRight <= Sort!iEnd
           /\ i < Sort!n => i <= Sort!iRight /\ i < Sort!iEnd
           /\ parity % 2 = 0 \/ parity % 2 = 1
<1>1. input \in Seq(Key) /\ width \in Nat \ {0} /\ i \in Nat /\ parity \in Nat
    BY DEF SortTypes
<1>2. Sort!n \in Nat /\ Sort!n = Len(input)
    BY <1>1 DEF Sort!n
<1>3. input \in Seq(Int)
  <2>1. input \in [1 .. Len(input) -> Key] /\ Len(input) \in Nat
      BY <1>1
  <2>2. input \in [1 .. Len(input) -> Int]
      BY <2>1, KeyAssumption
  <2> QED BY <2>1, <2>2
<1>4. parity % 2 = 0 \/ parity % 2 = 1
    BY <1>1
<1> QED BY <1>1, <1>2, <1>3, <1>4 DEF Sort!iRight, Sort!iEnd, Sort!Least

\* The runs that sortHelper merges are runs.
LEMMA RunsToMerge ==
    ASSUME SortTypes, PassBefore, PassNow, i < Sort!n
    PROVE  Run(Sort!source, i, Sort!iRight) /\ Run(Sort!source, Sort!iRight, Sort!iEnd)
<1>1. i \in Nat /\ width \in Nat \ {0} /\ i \in Starts(width) /\ i + width \in Starts(width)
    BY StartsDouble DEF SortTypes, PassNow
<1>2. Run(Sort!source, i, Sort!iRight)
    BY <1>1 DEF PassBefore, Sort!iRight
<1>3. CASE i + width < Sort!n
  <2>1. Sort!iRight = i + width /\ Sort!iEnd = Sort!Least((i + width) + width, Sort!n)
      BY <1>1, <1>3, SortBounds DEF Sort!iRight, Sort!iEnd, Sort!Least
  <2>2. Run(Sort!source, i + width, Sort!Least((i + width) + width, Sort!n))
      BY <1>1, <1>3 DEF PassBefore
  <2> QED BY <1>2, <2>1, <2>2
<1>4. CASE ~(i + width < Sort!n)
  <2>1. Sort!iRight = Sort!n /\ Sort!iEnd = Sort!n /\ Sort!n \in Nat
      BY <1>1, <1>4, SortBounds DEF Sort!iRight, Sort!iEnd, Sort!Least
  <2>2. \A j \in Sort!n + 1 .. Sort!n : FALSE
      BY <2>1
  <2>3. Run(Sort!source, Sort!n, Sort!n)
      BY <2>2 DEF Run, InOrder, Holds
  <2> QED BY <1>2, <2>1, <2>3
<1> QED BY <1>3, <1>4

\* A merge that begins has nothing behind it.
LEMMA MergeBegins ==
    ASSUME NEW s, NEW d, NEW at \in Nat, NEW mid \in Nat, NEW end \in Nat, at <= mid, mid <= end
    PROVE  Merging(s, d, at, at, mid, mid, end, at)
<1>1. \A j \in at + 1 .. at : FALSE
    OBVIOUS
<1>2. \A j \in (at + 1 .. at) \cup (mid + 1 .. mid) : FALSE
    OBVIOUS
<1> QED BY <1>1, <1>2 DEF Merging, InOrder

\* sort_list begins with runs of one object.
LEMMA SortBegins == Sort!Init => SortInv
<1> SUFFICES ASSUME Sort!Init PROVE SortInv
    OBVIOUS
<1>1. PICK m \in Nat : input \in [1 .. m -> Key]
    BY DEF Sort!Init
<1>2. input \in Seq(Key) /\ Sort!n = m /\ Len(input) = m
    BY <1>1 DEF Sort!n
<1>3. /\ list = [j \in 1 .. m |-> <<input[j], j>>] /\ temp = list
      /\ width = 1 /\ i = 0 /\ parity = 1 /\ left = 0 /\ k = 0 /\ right = Sort!Least(1, m) /\ done = FALSE
    BY <1>2 DEF Sort!Init
<1>4. \A j \in 1 .. m : <<input[j], j>> \in Items(input)
    BY <1>1, <1>2, KeyAssumption DEF Items
<1>5. SortTypes
    BY <1>2, <1>3, <1>4 DEF SortTypes, Sort!Least
<1>6. Sort!source = temp
    BY <1>3 DEF Sort!source
<1>7. PassBefore
  <2> SUFFICES ASSUME NEW p \in Starts(1), p < m PROVE Run(temp, p, Sort!Least(p + 1, m))
      BY <1>2, <1>3, <1>6 DEF PassBefore
  <2>1. p \in Nat
      BY DEF Starts
  <2>2. Sort!Least(p + 1, m) = p + 1
      BY <2>1 DEF Sort!Least
  <2>3. \A j \in p + 1 .. p + 1 : j = p + 1
      BY <2>1
  <2>4. p + 1 \in p + 1 .. p + 1 /\ p + 1 \in 1 .. m
      BY <2>1
  <2>5. temp[p + 1][2] = p + 1
      BY <1>3, <2>4
  <2>6. InOrder(temp, p, p + 1)
      BY <2>1, <2>3 DEF InOrder
  <2>7. Holds(temp, p, p + 1)
      BY <2>3, <2>4, <2>5 DEF Holds
  <2> QED BY <2>2, <2>6, <2>7 DEF Run
<1>8. PassSoFar
  <2>1. \A p \in Starts(2 * width) : p \in Nat
      BY <1>3, StartsDouble
  <2> QED BY <1>3, <2>1 DEF PassSoFar
<1>9. PassNow
  <2>1. i \in Starts(2 * width)
    <3>1. 0 = 0 * (2 * width) /\ 0 \in Nat
        BY <1>3
    <3> QED BY <1>3, <3>1 DEF Starts
  <2>2. ASSUME i < Sort!n PROVE Merging(Sort!source, target, i, left, Sort!iRight, right, Sort!iEnd, k)
    <3>1. left = i /\ k = i /\ right = Sort!iRight /\ i <= Sort!iRight /\ i \in Nat
        BY <1>2, <1>3, <2>2 DEF Sort!iRight, Sort!Least
    <3> QED BY <1>5, <3>1, SortBounds, MergeBegins
  <2> QED BY <2>1, <2>2 DEF PassNow
<1> QED BY <1>3, <1>5, <1>7, <1>8, <1>9 DEF SortInv, Sort!StablySorted

\* The rounds of sortHelper.
LEMMA SortTakes ==
    ASSUME SortInv, Sort!Take
    PROVE  SortInv'
<1>1. /\ ~done /\ i < Sort!n /\ k < Sort!iEnd
      /\ UNCHANGED <<input, width, i, parity, done>> /\ k' = k + 1
    BY DEF Sort!Take
<1>2. SortTypes /\ PassBefore /\ PassSoFar /\ PassNow
    BY <1>1 DEF SortInv
<1>3. /\ Sort!n' = Sort!n /\ Sort!iRight' = Sort!iRight /\ Sort!iEnd' = Sort!iEnd
    BY <1>1 DEF Sort!n, Sort!iRight, Sort!iEnd, Sort!Least
<1> DEFINE s == Sort!source
           fromLeft == /\ left < Sort!iRight
                       /\ right >= Sort!iEnd \/ Sort!NotAfter(s[left + 1], s[right + 1])
           object == s[(IF fromLeft THEN left ELSE right) + 1]
           e == [target EXCEPT ![k + 1] = object]
<1>4. /\ left' = (IF fromLeft THEN left + 1 ELSE left)
      /\ right' = (IF fromLeft THEN right ELSE right + 1)
      /\ Sort!source' = s /\ target' = e
      /\ list' = (IF parity % 2 = 0 THEN list ELSE e)
      /\ temp' = (IF parity % 2 = 0 THEN e ELSE temp)
    BY <1>1 DEF Sort!Take, Sort!source, target
<1>5. s \in [1 .. Len(input) -> Items(input)] /\ target \in [1 .. Len(input) -> Items(input)]
    BY <1>2 DEF SortTypes, Sort!source, target, Sort!n
<1>6. /\ Run(s, i, Sort!iRight) /\ Run(s, Sort!iRight, Sort!iEnd)
      /\ Merging(s, target, i, left, Sort!iRight, right, Sort!iEnd, k)
    BY <1>1, <1>2, RunsToMerge DEF PassNow
<1> HIDE DEF s
<1>7. /\ input \in Seq(Int) /\ i \in Nat /\ left \in Nat /\ Sort!iRight \in Nat /\ right \in Nat
      /\ Sort!iEnd \in Nat /\ k \in Nat /\ Sort!iEnd <= Len(input)
    BY <1>2, SortBounds DEF SortTypes
<1>8. /\ e \in [1 .. Len(input) -> Items(input)]
      /\ Merging(s, e, i, left', Sort!iRight, right', Sort!iEnd, k + 1)
  <2>1. CASE fromLeft
    <3>1. left < Sort!iRight /\ (right >= Sort!iEnd \/ s[left + 1][1] <= s[right + 1][1])
        BY <2>1 DEF Sort!NotAfter
    <3>2. e = [target EXCEPT ![k + 1] = s[left + 1]] /\ left' = left + 1 /\ right' = right
        BY <1>4, <2>1
    <3> HIDE DEF e
    <3> QED BY <1>5, <1>6, <1>7, <3>1, <3>2, MergeLeft
  <2>2. CASE ~fromLeft
    <3>1. ~(left < Sort!iRight /\ (right >= Sort!iEnd \/ s[left + 1][1] <= s[right + 1][1]))
        BY <2>2 DEF Sort!NotAfter
    <3>2. e = [target EXCEPT ![k + 1] = s[right + 1]] /\ left' = left /\ right' = right + 1
        BY <1>4, <2>2
    <3> HIDE DEF e
    <3> QED BY <1>1, <1>5, <1>6, <1>7, <3>1, <3>2, MergeRight
  <2> QED BY <2>1, <2>2
<1>9. \A j \in Nat : j # k + 1 => e[j] = target[j]
    BY <1>5
<1> HIDE DEF e, object, fromLeft
<1>10. SortTypes'
  <2>1. left' \in Nat /\ right' \in Nat /\ k' \in Nat
      BY <1>1, <1>4, <1>7
  <2>2. list' \in [1 .. Sort!n -> Items(input)] /\ temp' \in [1 .. Sort!n -> Items(input)]
      BY <1>2, <1>4, <1>8 DEF SortTypes, Sort!n
  <2> QED BY <1>1, <1>2, <1>3, <2>1, <2>2 DEF SortTypes
<1>11. PassBefore'
    BY <1>1, <1>2, <1>3, <1>4 DEF PassBefore, Sort!Least, s
<1>12. PassSoFar'
  <2> SUFFICES ASSUME NEW p \in Starts(2 * width), p < i, p < Sort!n
               PROVE  Run(e, p, Sort!Least(p + 2 * width, Sort!n))
      BY <1>1, <1>3, <1>4 DEF PassSoFar, Sort!Least
  <2>1. Run(target, p, Sort!Least(p + 2 * width, Sort!n))
      BY <1>2 DEF PassSoFar
  <2>2. width \in Nat /\ i \in Starts(2 * width) /\ p \in Nat /\ Sort!n \in Nat /\ 2 * width \in Nat
    <3>1. width \in Nat /\ i \in Starts(2 * width) /\ Sort!n \in Nat
        BY <1>2, SortBounds DEF SortTypes, PassNow
    <3>2. 2 * width \in Nat
        BY <3>1
    <3> QED BY <3>1, <3>2, StartsDouble
  <2>3. p + 2 * width <= i
      BY <2>2, StartsApart
  <2>4. i <= k
      BY <1>6, <1>7 DEF Merging
  <2>5. Sort!Least(p + 2 * width, Sort!n) \in Nat /\ Sort!Least(p + 2 * width, Sort!n) <= k
      BY <1>1, <1>7, <2>2, <2>3, <2>4 DEF Sort!Least
  <2>6. \A j \in p + 1 .. Sort!Least(p + 2 * width, Sort!n) : e[j] = target[j]
    <3>1. \A h \in Nat : h <= k => \A j \in p + 1 .. h : j \in Nat /\ j # k + 1
        BY <1>7, <2>2
    <3> QED BY <1>9, <2>5, <3>1
  <2> QED BY <2>1, <2>2, <2>5, <2>6, RunKept
<1>13. PassNow'
    BY <1>1, <1>2, <1>3, <1>4, <1>8 DEF PassNow
<1> QED BY <1>1, <1>10, <1>11, <1>12, <1>13 DEF SortInv, Sort!StablySorted

\* sortHelper begins with runs at a multiple of twice their width.
LEMMA PassBegins ==
    ASSUME SortTypes', i' \in Starts(2 * width'),
           left' = i', right' = Sort!Least(i' + width', Sort!n'), k' = i'
    PROVE  PassNow'
<1> SUFFICES ASSUME i' < Sort!n'
             PROVE  Merging(Sort!source', target', i', left', Sort!iRight', right', Sort!iEnd', k')
    BY DEF PassNow
<1>1. /\ i' \in Nat /\ Sort!iRight' \in Nat /\ Sort!iEnd' \in Nat /\ i' <= Sort!iRight'
      /\ Sort!iRight' <= Sort!iEnd'
  <2>1. i' \in Nat /\ width' \in Nat \ {0} /\ Sort!n' \in Nat
      BY DEF SortTypes, Sort!n
  <2>2. /\ Sort!iRight' = IF i' + width' < Sort!n' THEN i' + width' ELSE Sort!n'
        /\ Sort!iEnd' = IF i' + 2 * width' < Sort!n' THEN i' + 2 * width' ELSE Sort!n'
      BY DEF Sort!iRight, Sort!iEnd, Sort!Least
  <2>3. \A a, m \in Nat, w \in Nat \ {0} :
           LET mid == IF a + w < m THEN a + w ELSE m
               end == IF a + 2 * w < m THEN a + 2 * w ELSE m
           IN  a < m => mid \in Nat /\ end \in Nat /\ a <= mid /\ mid <= end
      OBVIOUS
  <2> QED BY <2>1, <2>2, <2>3
<1>2. right' = Sort!iRight'
    BY DEF Sort!iRight, Sort!Least
<1> QED BY <1>1, <1>2, MergeBegins

\* The next two runs of a pass.
LEMMA SortNextRuns ==
    ASSUME SortInv, Sort!NextRuns
    PROVE  SortInv'
<1>1. /\ ~done /\ i < Sort!n /\ k >= Sort!iEnd
      /\ UNCHANGED <<input, list, temp, width, parity, done>>
      /\ i' = i + 2 * width /\ left' = i' /\ right' = Sort!Least(i' + width, Sort!n) /\ k' = i'
    BY DEF Sort!NextRuns, Sort!Begin, Sort!NextPair
<1>2. SortTypes /\ PassBefore /\ PassSoFar /\ PassNow
    BY <1>1 DEF SortInv
<1>3. Sort!n' = Sort!n /\ Sort!source' = Sort!source /\ target' = target
    BY <1>1 DEF Sort!n, Sort!source, target
<1>4. i \in Nat /\ width \in Nat \ {0} /\ i \in Starts(2 * width) /\ Sort!n \in Nat /\ 2 * width \in Nat
    BY <1>2, SortBounds DEF SortTypes, PassNow
<1>5. Run(target, i, Sort!iEnd)
  <2>1. /\ input \in Seq(Int) /\ left \in Nat /\ Sort!iRight \in Nat /\ right \in Nat
        /\ Sort!iEnd \in Nat /\ k \in Nat
      BY <1>2, SortBounds DEF SortTypes
  <2>2. /\ Run(Sort!source, i, Sort!iRight) /\ Run(Sort!source, Sort!iRight, Sort!iEnd)
        /\ Merging(Sort!source, target, i, left, Sort!iRight, right, Sort!iEnd, k)
      BY <1>1, <1>2, RunsToMerge DEF PassNow
  <2> QED BY <1>1, <1>4, <2>1, <2>2, MergeEnd
<1>6. SortTypes'
  <2>1. i' \in Nat /\ left' \in Nat /\ right' \in Nat /\ k' \in Nat
      BY <1>1, <1>4 DEF Sort!Least
  <2> QED BY <1>1, <1>2, <1>3, <2>1 DEF SortTypes
<1>7. PassBefore'
    BY <1>1, <1>2, <1>3 DEF PassBefore, Sort!Least
<1>8. PassSoFar'
  <2> SUFFICES ASSUME NEW p \in Starts(2 * width), p < i + 2 * width, p < Sort!n
               PROVE  Run(target, p, Sort!Least(p + 2 * width, Sort!n))
      BY <1>1, <1>3 DEF PassSoFar, Sort!Least
  <2>1. p \in Nat
      BY <1>4, StartsDouble
  <2>2. ~(i < p)
      BY <1>4, <2>1, StartsApart
  <2>3. CASE p = i
      BY <1>5, <2>3 DEF Sort!iEnd
  <2>4. CASE p < i
      BY <1>2, <2>4 DEF PassSoFar
  <2> QED BY <1>4, <2>1, <2>2, <2>3, <2>4
<1>9. i' \in Starts(2 * width')
    BY <1>1, <1>4, StartsDouble
<1>10. right' = Sort!Least(i' + width', Sort!n')
    BY <1>1, <1>3 DEF Sort!Least
<1>11. PassNow'
    BY <1>1, <1>6, <1>9, <1>10, PassBegins
<1> QED BY <1>1, <1>6, <1>7, <1>8, <1>11 DEF SortInv, Sort!StablySorted

\* The next pass takes its objects from where the last one put them.
LEMMA SortNextWidth ==
    ASSUME SortInv, Sort!NextWidth
    PROVE  SortInv'
<1>1. /\ ~done /\ i >= Sort!n /\ UNCHANGED <<input, list, temp, done>>
      /\ width' = 2 * width /\ parity' = parity + 1
      /\ i' = 0 /\ left' = 0 /\ right' = Sort!Least(0 + 2 * width, Sort!n) /\ k' = 0
    BY DEF Sort!NextWidth, Sort!Begin
<1>2. SortTypes /\ PassBefore /\ PassSoFar /\ PassNow
    BY <1>1 DEF SortInv
<1>3. i \in Nat /\ width \in Nat \ {0} /\ Sort!n \in Nat /\ parity \in Nat
    BY <1>2, SortBounds DEF SortTypes
<1>4. Sort!n' = Sort!n /\ Sort!source' = target
  <2>1. parity % 2 = 0 <=> (parity + 1) % 2 # 0
      BY <1>3
  <2> QED BY <1>1, <2>1 DEF Sort!n, Sort!source, target
<1>5. SortTypes'
  <2>1. width' \in Nat \ {0} /\ i' \in Nat /\ left' \in Nat /\ right' \in Nat /\ k' \in Nat /\ parity' \in Nat
      BY <1>1, <1>3 DEF Sort!Least
  <2> QED BY <1>1, <1>2, <1>4, <2>1 DEF SortTypes
<1>6. PassBefore'
  <2> SUFFICES ASSUME NEW p \in Starts(2 * width), p < Sort!n
               PROVE  Run(target, p, Sort!Least(p + 2 * width, Sort!n))
      BY <1>1, <1>4 DEF PassBefore, Sort!Least
  <2>1. p \in Nat
      BY <1>3, StartsDouble
  <2>2. p < i
      BY <1>1, <1>3, <2>1
  <2> QED BY <1>2, <2>2 DEF PassSoFar
<1>7. PassSoFar'
  <2>1. \A p \in Starts(2 * width') : p \in Nat
      BY <1>1, <1>3, StartsDouble
  <2> QED BY <1>1, <2>1 DEF PassSoFar
<1>8. i' \in Starts(2 * width')
  <2>1. 0 = 0 * (2 * width') /\ 0 \in Nat
      BY <1>1, <1>3
  <2> QED BY <1>1, <2>1 DEF Starts
<1>9. right' = Sort!Least(i' + width', Sort!n')
    BY <1>1, <1>4 DEF Sort!Least
<1>10. PassNow'
    BY <1>1, <1>5, <1>8, <1>9, PassBegins
<1> QED BY <1>1, <1>5, <1>6, <1>7, <1>10 DEF SortInv, Sort!StablySorted

\* The end of sort_list: one run is left, and the list is it.
LEMMA SortFinishes ==
    ASSUME SortInv, Sort!Finish
    PROVE  SortInv'
<1>1. /\ ~done /\ width >= Sort!n /\ done' = TRUE
      /\ list' = (IF (parity - 1) % 2 = 0 THEN temp ELSE list)
      /\ UNCHANGED <<input, temp, width, i, parity, left, right, k>>
    BY DEF Sort!Finish
<1>2. SortTypes /\ PassBefore
    BY <1>1 DEF SortInv
<1>3. width \in Nat \ {0} /\ Sort!n \in Nat /\ parity \in Nat /\ Sort!n = Len(input)
    BY <1>2, SortBounds DEF SortTypes
<1>4. list' = Sort!source /\ Sort!n' = Sort!n
  <2>1. parity % 2 = 0 <=> (parity - 1) % 2 # 0
      BY <1>3
  <2> QED BY <1>1, <2>1 DEF Sort!source, Sort!n
<1>5. SortTypes'
    BY <1>1, <1>2, <1>4 DEF SortTypes
<1>6. list' \in [1 .. Sort!n -> Items(input)]
    BY <1>1, <1>4, <1>5 DEF SortTypes
<1>7. Run(list', 0, Sort!n)
  <2>1. CASE Sort!n = 0
    <3>1. \A j \in 0 + 1 .. 0 : FALSE
        OBVIOUS
    <3> QED BY <2>1, <3>1 DEF Run, InOrder, Holds
  <2>2. CASE Sort!n # 0
    <3>1. 0 = 0 * width /\ 0 \in Nat
        BY <1>3
    <3>2. 0 \in Starts(width) /\ 0 < Sort!n
        BY <1>3, <2>2, <3>1 DEF Starts
    <3>3. Sort!Least(0 + width, Sort!n) = Sort!n
        BY <1>1, <1>3 DEF Sort!Least
    <3> QED BY <1>2, <1>4, <3>2, <3>3 DEF PassBefore
  <2> QED BY <2>1, <2>2
<1>8. {list'[j][2] : j \in 1 .. Sort!n} = 1 .. Sort!n
    BY <1>7 DEF Run, Holds
<1>9. \A j \in 1 .. Sort!n : list'[j][1] = input[list'[j][2]]
    BY <1>6 DEF Items
<1>10. \A j \in 1 .. Sort!n - 1 : \/ list'[j][1] < list'[j + 1][1]
                                  \/ list'[j][1] = list'[j + 1][1] /\ list'[j][2] < list'[j + 1][2]
  <2> TAKE j \in 1 .. Sort!n - 1
  <2>1. j \in 0 + 1 .. Sort!n /\ j + 1 \in 0 + 1 .. Sort!n /\ j < j + 1
      BY <1>3
  <2>2. Before(list'[j], list'[j + 1])
      BY <1>7, <2>1 DEF Run, InOrder
  <2> QED BY <2>2 DEF Before
<1>11. Sort!StablySorted'
    BY <1>1, <1>4, <1>8, <1>9, <1>10 DEF Sort!StablySorted
<1> QED BY <1>1, <1>5, <1>11 DEF SortInv

\* What the proofs about the composition know of the variables.
SortingInv == algorithm = "sort" => SortInv

\* A step of any of the algorithms keeps the invariant of the sort.
LEMMA SortingStep ==
    ASSUME SortingInv, [AnyNext]_allVars
    PROVE  SortingInv'
<1> SUFFICES ASSUME algorithm' = "sort" PROVE SortInv'
    BY DEF SortingInv
<1>1. ASSUME UNCHANGED <<algorithm, sort, i>> PROVE SortInv'
    BY <1>1 DEF SortingInv, SortInv, SortTypes, PassBefore, PassSoFar, PassNow, target,
                Sort!n, Sort!Least, Sort!iRight, Sort!iEnd, Sort!source, Sort!StablySorted, sort
<1>2. CASE UNCHANGED allVars
    BY <1>1, <1>2 DEF allVars
<1>3. CASE AnyNext
  <2>1. algorithm = "sort" /\ Sort!Next /\ UNCHANGED algorithm
      BY <1>3 DEF AnyNext
  <2>2. SortInv
      BY <2>1 DEF SortingInv
  <2>3. CASE Sort!Done
      BY <1>1, <2>1, <2>3 DEF Sort!Done, Sort!vars, sort
  <2> QED BY <2>1, <2>2, <2>3, SortTakes, SortNextRuns, SortNextWidth, SortFinishes DEF Sort!Next
<1> QED BY <1>2, <1>3

\* sort_list leaves every object of its input once, in the order of the keys and,
\* among equal keys, in the order of the input, for lists of every length.  A pass
\* of width w begins with runs of w objects that are in order and hold what the
\* input held there (PassBefore), leaves runs of 2w behind it (PassSoFar), and
\* what it has merged of the current two runs comes before all that is left of
\* them (PassNow).
THEOREM StablySortedAlways == AnySpec => []StablySorted
<1>1. AnyInit => SortingInv
    BY SortBegins DEF AnyInit, SortingInv
<1>2. SortingInv /\ [AnyNext]_allVars => SortingInv'
    BY SortingStep
<1>3. SortingInv => StablySorted
    BY DEF SortingInv, SortInv, StablySorted
<1> QED BY <1>1, <1>2, <1>3, PTL DEF AnySpec

-----------------------------------------------------------------------------
\* group_by_bundles.  What an insertion makes of a list.
LEMMA Insertion ==
    ASSUME NEW S, NEW s \in Seq(S), NEW q \in 1 .. Len(s) + 1, NEW e \in S
    PROVE  Group!InsertAt(s, q, e) =
               [j \in 1 .. Len(s) + 1 |-> IF j < q THEN s[j] ELSE IF j = q THEN e ELSE s[j - 1]]
<1> DEFINE a == SubSeq(s, 1, q - 1)
           c == SubSeq(s, q, Len(s))
<1>0. Group!InsertAt(s, q, e) = (a \o <<e>>) \o c
   BY DEF Group!InsertAt
<1>1. a \in Seq(S) /\ Len(a) = q - 1 /\ \A j \in 1 .. q - 1 : a[j] = s[j]
   OBVIOUS
<1>2. c \in Seq(S) /\ Len(c) = Len(s) - q + 1 /\ \A j \in 1 .. Len(s) - q + 1 : c[j] = s[j + q - 1]
   OBVIOUS
<1> HIDE DEF a, c
<1>3. a \o <<e>> \in Seq(S) /\ Len(a \o <<e>>) = q /\ \A j \in 1 .. q : (a \o <<e>>)[j] = IF j < q THEN s[j] ELSE e
   BY <1>1
<1> DEFINE b == a \o <<e>>
           t == b \o c
<1>4. b \in Seq(S) /\ Len(b) = q /\ \A j \in 1 .. q : b[j] = IF j < q THEN s[j] ELSE e
   BY <1>3
<1>5. Group!InsertAt(s, q, e) = t
   BY <1>0
<1> HIDE DEF b
<1>6. t \in Seq(S) /\ Len(t) = Len(s) + 1
   BY <1>2, <1>4
<1>7. ASSUME NEW j \in 1 .. Len(s) + 1 PROVE t[j] = IF j < q THEN s[j] ELSE IF j = q THEN e ELSE s[j - 1]
  <2>1. CASE j <= q
      BY <1>2, <1>4, <2>1
  <2>2. CASE j > q
    <3>1. t[j] = c[j - q]
        BY <1>2, <1>4, <2>2
    <3>2. j - q \in 1 .. Len(s) - q + 1 /\ (j - q) + q - 1 = j - 1
        BY <2>2
    <3>3. c[j - q] = s[j - 1]
        BY <1>2, <3>2
    <3>4. ~(j < q) /\ j # q
        BY <2>2
    <3> QED BY <3>1, <3>3, <3>4
  <2> HIDE DEF t
  <2> QED BY <2>1, <2>2
<1> HIDE DEF t
<1>8. t = [j \in 1 .. Len(s) + 1 |-> t[j]]
    BY <1>6
<1> QED BY <1>5, <1>7, <1>8

\* List t is s with one object more, at q.
OneMore(s, t, q) ==
    /\ q \in 1 .. Len(s) + 1 /\ Len(s) \in Nat /\ Len(t) = Len(s) + 1
    /\ \A j \in 1 .. q - 1 : t[j] = s[j]
    /\ \A j \in q + 1 .. Len(s) + 1 : t[j] = s[j - 1]

\* The same, as the proofs use it.
LEMMA InsertionParts ==
    ASSUME NEW S, NEW s \in Seq(S), NEW q \in 1 .. Len(s) + 1, NEW e \in S
    PROVE  \E t \in Seq(S) : t = Group!InsertAt(s, q, e) /\ t[q] = e /\ OneMore(s, t, q)
<1> DEFINE t == [j \in 1 .. Len(s) + 1 |-> IF j < q THEN s[j] ELSE IF j = q THEN e ELSE s[j - 1]]
<1>1. \A j \in 1 .. Len(s) : s[j] \in S
    OBVIOUS
<1>2. \A j \in 1 .. Len(s) + 1 : t[j] \in S
    BY <1>1
<1>3. t \in Seq(S) /\ Len(t) = Len(s) + 1
    BY <1>2
<1>4. t = Group!InsertAt(s, q, e)
    BY Insertion
<1>5. /\ t[q] = e
      /\ \A j \in 1 .. q - 1 : t[j] = s[j]
      /\ \A j \in q + 1 .. Len(s) + 1 : t[j] = s[j - 1]
    OBVIOUS
<1> HIDE DEF t
<1>6. OneMore(s, t, q)
    BY <1>3, <1>5 DEF OneMore
<1> QED BY <1>3, <1>4, <1>5, <1>6

\* Every object of the longer list is the new one or one of the old ones, which are
\* in their old order.
Sources(s, t, q) ==
    /\ \A m \in 1 .. Len(t) : m # q => \E x \in 1 .. Len(s) : t[m] = s[x]
    /\ \A m, p \in 1 .. Len(t) : m # q /\ p # q /\ m < p =>
           \E x, y \in 1 .. Len(s) : t[m] = s[x] /\ t[p] = s[y] /\ x < y
    /\ \A x \in 1 .. Len(s) : \E m \in 1 .. Len(t) : t[m] = s[x]

\* An insertion moves objects and loses none.
LEMMA InsertionSources ==
    ASSUME NEW s, NEW t, NEW q, OneMore(s, t, q)
    PROVE  Sources(s, t, q)
<1> DEFINE size == Len(s)
<1>0. /\ size \in Nat /\ Len(s) = size /\ Len(t) = size + 1 /\ q \in 1 .. size + 1
      /\ \A j \in 1 .. q - 1 : t[j] = s[j]
      /\ \A j \in q + 1 .. size + 1 : t[j] = s[j - 1]
    BY DEF OneMore
<1> HIDE DEF size
<1> USE <1>0
<1> DEFINE from(m) == IF m < q THEN m ELSE m - 1
<1>1. \A m \in 1 .. size + 1 : m # q => from(m) \in 1 .. size /\ t[m] = s[from(m)]
  <2> TAKE m \in 1 .. size + 1
  <2>1. CASE m < q
    <3>1. m \in 1 .. q - 1 /\ m \in 1 .. size
        BY <2>1
    <3> QED BY <2>1, <3>1
  <2>2. CASE m > q
    <3>1. m \in q + 1 .. size + 1 /\ m - 1 \in 1 .. size /\ ~(m < q)
        BY <2>2
    <3> QED BY <3>1
  <2> QED BY <2>1, <2>2
<1>2. \A m, p \in 1 .. size + 1 : m # q /\ p # q /\ m < p => from(m) < from(p)
    OBVIOUS
<1>3. \A x \in 1 .. size : \E m \in 1 .. size + 1 : m # q /\ from(m) = x
  <2> TAKE x \in 1 .. size
  <2>1. CASE x < q
    <3>1. x \in 1 .. size + 1 /\ x # q /\ from(x) = x
        BY <2>1
    <3> QED BY <3>1
  <2>2. CASE x >= q
    <3>1. x + 1 \in 1 .. size + 1 /\ x + 1 # q /\ from(x + 1) = x
        BY <2>2
    <3> QED BY <3>1
  <2> QED BY <2>1, <2>2
<1> HIDE DEF from
<1>4. \A m \in 1 .. size + 1 : m # q => \E x \in 1 .. size : t[m] = s[x]
    BY <1>1
<1>5. ASSUME NEW m \in 1 .. size + 1, NEW p \in 1 .. size + 1, m # q, p # q, m < p
      PROVE  \E x, y \in 1 .. size : t[m] = s[x] /\ t[p] = s[y] /\ x < y
    BY <1>1, <1>2, <1>5
<1>6. \A x \in 1 .. size : \E m \in 1 .. size + 1 : t[m] = s[x]
    BY <1>1, <1>3
<1>7. /\ \A m \in 1 .. Len(t) : m # q => \E x \in 1 .. Len(s) : t[m] = s[x]
      /\ \A x \in 1 .. Len(s) : \E m \in 1 .. Len(t) : t[m] = s[x]
    BY <1>4, <1>6
<1>8. \A m, p \in 1 .. Len(t) : m # q /\ p # q /\ m < p =>
         \E x, y \in 1 .. Len(s) : t[m] = s[x] /\ t[p] = s[y] /\ x < y
  <2> TAKE m, p \in 1 .. Len(t)
  <2>1. m \in 1 .. size + 1 /\ p \in 1 .. size + 1 /\ Len(s) = size
      OBVIOUS
  <2> QED BY ONLY <1>5, <2>1
<1> QED BY ONLY <1>7, <1>8 DEF Sources

BundleType == [bundle_id : Int, chunks : Seq(Nat)]

\* The chunks s of bundle id as they should be when chunks 1 to top of cs are
\* grouped: they are its own, each once, and in the order of their offsets.
GoodChunks(cs, s, id, top) ==
    /\ \A m \in 1 .. Len(s) : s[m] \in 1 .. top /\ cs[s[m]][1] = id
    /\ \A m, p \in 1 .. Len(s) : m < p => s[m] # s[p] /\ cs[s[m]][2] <= cs[s[p]][2]

Good(cs, r, top) == r \in BundleType /\ GoodChunks(cs, r.chunks, r.bundle_id, top)

\* A good bundle stays good while others get chunks.
LEMMA GoodKept ==
    ASSUME NEW cs, NEW r, NEW top \in Nat, Good(cs, r, top)
    PROVE  Good(cs, r, top + 1)
BY DEF Good, GoodChunks

\* A bundle stays good when the next chunk is put at its place in it.
LEMMA GoodInserted ==
    ASSUME NEW cs, NEW top \in Nat, NEW id, NEW s \in Seq(Nat),
           GoodChunks(cs, s, id, top), cs[top + 1][1] = id,
           NEW q, NEW t, OneMore(s, t, q), t[q] = top + 1,
           \A m \in 1 .. q - 1 : cs[s[m]][2] <= cs[top + 1][2],
           \A m \in q .. Len(s) : cs[top + 1][2] <= cs[s[m]][2]
    PROVE  GoodChunks(cs, t, id, top + 1)
<1>1. /\ Len(s) \in Nat /\ q \in 1 .. Len(s) + 1 /\ Len(t) = Len(s) + 1
      /\ \A j \in 1 .. q - 1 : t[j] = s[j]
      /\ \A j \in q + 1 .. Len(s) + 1 : t[j] = s[j - 1]
    BY DEF OneMore
<1>2. Sources(s, t, q)
    BY InsertionSources
<1>3. /\ \A m \in 1 .. Len(s) : s[m] \in 1 .. top /\ cs[s[m]][1] = id
      /\ \A m, p \in 1 .. Len(s) : m < p => s[m] # s[p] /\ cs[s[m]][2] <= cs[s[p]][2]
    BY DEF GoodChunks
<1>4. \A y \in 1 .. top : y \in 1 .. top + 1 /\ y # top + 1
    OBVIOUS
<1>5. ASSUME NEW m \in 1 .. Len(t)
      PROVE  t[m] \in 1 .. top + 1 /\ cs[t[m]][1] = id
  <2>1. CASE m = q
    <3>1. top + 1 \in 1 .. top + 1
        OBVIOUS
    <3> QED BY <2>1, <3>1
  <2>2. CASE m # q
    <3>1. PICK x \in 1 .. Len(s) : t[m] = s[x]
        BY <1>2, <2>2 DEF Sources
    <3> QED BY <1>3, <1>4, <3>1
  <2> QED BY <2>1, <2>2
<1>6. ASSUME NEW m \in 1 .. Len(t), NEW p \in 1 .. Len(t), m < p
      PROVE  t[m] # t[p] /\ cs[t[m]][2] <= cs[t[p]][2]
  <2>1. CASE p = q
    <3>1. m \in 1 .. q - 1 /\ m \in 1 .. Len(s)
        BY <1>1, <1>6, <2>1
    <3>2. t[m] = s[m] /\ s[m] # top + 1
        BY <1>1, <1>3, <1>4, <3>1
    <3> QED BY <2>1, <3>1, <3>2
  <2>2. CASE m = q
    <3>1. p \in q + 1 .. Len(s) + 1 /\ p - 1 \in q .. Len(s) /\ p - 1 \in 1 .. Len(s)
        BY <1>1, <1>6, <2>2
    <3>2. t[p] = s[p - 1] /\ s[p - 1] # top + 1
        BY <1>1, <1>3, <1>4, <3>1
    <3> QED BY <2>2, <3>1, <3>2
  <2>3. CASE m # q /\ p # q
    <3>1. PICK x, y \in 1 .. Len(s) : t[m] = s[x] /\ t[p] = s[y] /\ x < y
        BY <1>2, <1>6, <2>3 DEF Sources
    <3> QED BY <1>3, <3>1
  <2> QED BY <2>1, <2>2, <2>3
<1> QED BY <1>5, <1>6 DEF GoodChunks

-----------------------------------------------------------------------------
GroupInv ==
    /\ chunks \in Seq(Int \X Int) /\ i \in 1 .. Len(chunks) + 1 /\ unique_bundles \in Seq(BundleType)
    /\ \A b \in 1 .. Len(unique_bundles) : Good(chunks, unique_bundles[b], i - 1)
    /\ \A b, c \in 1 .. Len(unique_bundles) :
           unique_bundles[b].bundle_id = unique_bundles[c].bundle_id => b = c
    /\ \A j \in 1 .. i - 1 : \E b \in 1 .. Len(unique_bundles) :
           \E m \in 1 .. Len(unique_bundles[b].chunks) : unique_bundles[b].chunks[m] = j

\* Nothing is grouped at the beginning.
LEMMA GroupBegins == Group!Init => GroupInv
<1> SUFFICES ASSUME Group!Init PROVE GroupInv
    OBVIOUS
<1>1. chunks \in Seq(Int \X Int) /\ i = 1 /\ unique_bundles = <<>>
    BY ChunksAssumption DEF Group!Init
<1>2. Len(unique_bundles) = 0 /\ Len(chunks) \in Nat /\ unique_bundles \in Seq(BundleType)
    BY <1>1
<1> QED BY <1>1, <1>2 DEF GroupInv

\* The first chunk of a bundle.
LEMMA GroupNewBundle ==
    ASSUME GroupInv, Group!NewBundle
    PROVE  GroupInv'
<1> DEFINE B == unique_bundles
           r == [bundle_id |-> chunks[i][1], chunks |-> <<i>>]
<1>1. PICK q \in 1 .. Len(B) + 1 : unique_bundles' = Group!InsertAt(B, q, r)
  <2>1. PICK q \in Group!Positions(Group!Ids, chunks[i][1]) : unique_bundles' = Group!InsertAt(B, q, r)
      BY DEF Group!NewBundle, Group!Bundle
  <2>2. Len(Group!Ids) = Len(B)
    <3>1. B \in Seq(BundleType)
        BY DEF GroupInv
    <3> QED BY <3>1 DEF Group!Ids
  <2> QED BY <2>1, <2>2 DEF Group!Positions
<1>2. i <= Len(chunks) /\ i' = i + 1 /\ chunks' = chunks /\ Group!Found = {}
    BY DEF Group!NewBundle
<1>3. /\ chunks \in Seq(Int \X Int) /\ i \in 1 .. Len(chunks) /\ Len(chunks) \in Nat /\ B \in Seq(BundleType)
      /\ Len(B) \in Nat /\ i \in Nat /\ i - 1 \in Nat /\ (i - 1) + 1 = i
    BY SMTT(30), <1>2 DEF GroupInv
<1> q \in 1 .. Len(B) + 1
    BY <1>1
<1>4. \A b \in 1 .. Len(B) : B[b].bundle_id # r.bundle_id
  <2>1. \A b \in 1 .. Len(B) : b \in DOMAIN B
      BY <1>3
  <2> QED BY <1>2, <2>1 DEF Group!Found, Group!Bundle
<1>5. Good(chunks, r, i)
  <2>1. chunks[i] \in Int \X Int
      BY <1>3
  <2>2. r \in BundleType /\ r.chunks = <<i>> /\ r.bundle_id = chunks[i][1]
      BY <1>3, <2>1 DEF BundleType
  <2>3. Len(<<i>>) = 1 /\ <<i>>[1] = i /\ i \in 1 .. i /\ \A m \in 1 .. 1 : m = 1
      BY <1>3
  <2> HIDE DEF r
  <2>4. \A m \in 1 .. Len(r.chunks) : m = 1 /\ r.chunks[m] = i
      BY <2>2, <2>3
  <2>5. \A m, p \in 1 .. Len(r.chunks) : ~(m < p)
      BY <2>4
  <2> QED BY <2>2, <2>3, <2>4, <2>5 DEF Good, GoodChunks
<1>6. PICK C \in Seq(BundleType) :
         C = unique_bundles' /\ C[q] = r /\ OneMore(B, C, q)
  <2>1. r \in BundleType
      BY <1>5 DEF Good
  <2> HIDE DEF r, B
  <2> QED BY <1>1, <1>3, <2>1, InsertionParts
<1>7. r.chunks = <<i>>
    OBVIOUS
<1> HIDE DEF B, r
<1>8. Sources(B, C, q) /\ Len(C) = Len(B) + 1
    BY <1>6, InsertionSources DEF OneMore
<1>9. ASSUME NEW b \in 1 .. Len(C) PROVE Good(chunks, C[b], i)
  <2>1. CASE b = q
      BY <1>5, <1>6, <2>1
  <2>2. CASE b # q
    <3>1. PICK x \in 1 .. Len(B) : C[b] = B[x]
        BY <1>6, <1>8, <2>2 DEF Sources
    <3>2. Good(chunks, C[b], i - 1)
        BY <3>1 DEF GroupInv, B
    <3> QED BY <1>3, <3>2, GoodKept
  <2> QED BY <2>1, <2>2
<1>10. ASSUME NEW b \in 1 .. Len(C), NEW c \in 1 .. Len(C), b < c
       PROVE  C[b].bundle_id # C[c].bundle_id
  <2>1. CASE b = q
    <3>1. PICK x \in 1 .. Len(B) : C[c] = B[x]
        BY <1>6, <1>8, <1>10, <2>1 DEF Sources
    <3> QED BY <1>4, <1>6, <2>1, <3>1
  <2>2. CASE c = q
    <3>1. PICK x \in 1 .. Len(B) : C[b] = B[x]
        BY <1>6, <1>8, <1>10, <2>2 DEF Sources
    <3> QED BY <1>4, <1>6, <2>2, <3>1
  <2>3. CASE b # q /\ c # q
    <3>1. PICK x, y \in 1 .. Len(B) : C[b] = B[x] /\ C[c] = B[y] /\ x < y
        BY <1>6, <1>8, <1>10, <2>3 DEF Sources
    <3>2. x # y
        BY <1>3, <3>1
    <3>3. B[x].bundle_id # B[y].bundle_id
        BY <3>2 DEF GroupInv, B
    <3> QED BY <3>1, <3>3
  <2> QED BY <2>1, <2>2, <2>3
<1>11. \A b, c \in 1 .. Len(C) : C[b].bundle_id = C[c].bundle_id => b = c
  <2>1. \A b, c \in 1 .. Len(C) : b < c \/ c < b \/ b = c
      BY <1>3, <1>6, <1>8
  <2> QED BY <1>10, <2>1
<1>12. ASSUME NEW j \in 1 .. i
       PROVE  \E b \in 1 .. Len(C) : \E m \in 1 .. Len(C[b].chunks) : C[b].chunks[m] = j
  <2>1. CASE j = i
    <3>1. q \in 1 .. Len(C) /\ C[q] = r
        BY <1>3, <1>6, <1>8
    <3>2. 1 \in 1 .. Len(<<i>>) /\ <<i>>[1] = j
        BY <2>1
    <3> QED BY <1>7, <3>1, <3>2
  <2>2. CASE j # i
    <3>1. j \in 1 .. i - 1
        BY <1>3, <2>2
    <3>2. PICK b \in 1 .. Len(B) : \E m \in 1 .. Len(B[b].chunks) : B[b].chunks[m] = j
        BY <3>1 DEF GroupInv, B
    <3>3. PICK c \in 1 .. Len(C) : C[c] = B[b]
        BY <1>6, <1>8 DEF Sources
    <3> QED BY <3>2, <3>3
  <2> QED BY <2>1, <2>2
<1>13. i' - 1 = i /\ i' \in 1 .. Len(chunks) + 1
    BY <1>2, <1>3
<1> QED BY <1>2, <1>3, <1>6, <1>9, <1>11, <1>12, <1>13 DEF GroupInv

\* A further chunk of a bundle.
LEMMA GroupSameBundle ==
    ASSUME GroupInv, Group!SameBundle
    PROVE  GroupInv'
<1> DEFINE B == unique_bundles
<1>1. /\ chunks \in Seq(Int \X Int) /\ i \in 1 .. Len(chunks) /\ B \in Seq(BundleType)
      /\ Len(B) \in Nat /\ i - 1 \in Nat /\ (i - 1) + 1 = i /\ i \in Nat /\ Len(chunks) \in Nat
      /\ i' = i + 1 /\ chunks' = chunks
    BY SMTT(30) DEF GroupInv, Group!SameBundle
<1>2. PICK b \in Group!Found : \E q \in Group!Positions(Group!OffsetsIn(B[b].chunks), chunks[i][2]) :
          unique_bundles' = [B EXCEPT ![b].chunks = Group!InsertAt(B[b].chunks, q, i)]
    BY DEF Group!SameBundle, Group!Offset
<1>3. b \in 1 .. Len(B) /\ B[b].bundle_id = chunks[i][1]
    BY <1>1 DEF Group!Found, Group!Bundle
<1> DEFINE s == B[b].chunks
<1>4. s \in Seq(Nat) /\ Good(chunks, B[b], i - 1) /\ B[b] \in BundleType
  <2>1. B[b] \in BundleType
      BY <1>1, <1>3
  <2>2. Good(chunks, B[b], i - 1)
      BY <1>3 DEF GroupInv
  <2> QED BY <2>1, <2>2 DEF BundleType
<1>5. PICK q \in 1 .. Len(s) + 1 :
         /\ unique_bundles' = [B EXCEPT ![b].chunks = Group!InsertAt(s, q, i)]
         /\ \A m \in 1 .. q - 1 : chunks[s[m]][2] <= chunks[i][2]
         /\ \A m \in q .. Len(s) : chunks[i][2] <= chunks[s[m]][2]
  <2> DEFINE keys == Group!OffsetsIn(s)
  <2>1. Len(keys) = Len(s) /\ \A m \in 1 .. Len(s) : keys[m] = chunks[s[m]][2]
      BY <1>4 DEF Group!OffsetsIn, Group!Offset
  <2>2. PICK q \in Group!Positions(keys, chunks[i][2]) :
           unique_bundles' = [B EXCEPT ![b].chunks = Group!InsertAt(s, q, i)]
      BY <1>2
  <2> HIDE DEF keys, s
  <2>3. /\ q \in 1 .. Len(s) + 1
        /\ \A m \in 1 .. q - 1 : keys[m] <= chunks[i][2]
        /\ \A m \in q .. Len(s) : chunks[i][2] <= keys[m]
      BY <2>1 DEF Group!Positions
  <2>4. /\ \A m \in 1 .. q - 1 : m \in 1 .. Len(s)
        /\ \A m \in q .. Len(s) : m \in 1 .. Len(s)
      BY <1>4, <2>3
  <2>5. /\ \A m \in 1 .. q - 1 : chunks[s[m]][2] <= chunks[i][2]
        /\ \A m \in q .. Len(s) : chunks[i][2] <= chunks[s[m]][2]
      BY <2>1, <2>3, <2>4
  <2> QED BY <2>2, <2>3, <2>5
<1> HIDE DEF s
<1>6. PICK t \in Seq(Nat) :
         t = Group!InsertAt(s, q, i) /\ t[q] = i /\ OneMore(s, t, q)
    BY <1>1, <1>4, InsertionParts
<1>7. GoodChunks(chunks, t, chunks[i][1], i)
  <2>1. GoodChunks(chunks, s, chunks[i][1], i - 1)
      BY <1>3, <1>4 DEF Good, s
  <2> QED BY <1>1, <1>4, <1>5, <1>6, <2>1, GoodInserted
<1> DEFINE r == [B[b] EXCEPT !.chunks = t]
           C == unique_bundles'
<1>8. /\ C \in Seq(BundleType) /\ Len(C) = Len(B) /\ C[b] = r
      /\ \A c \in 1 .. Len(B) : c # b => C[c] = B[c]
  <2>1. C = [B EXCEPT ![b] = r]
      BY <1>5, <1>6
  <2>2. r \in BundleType
      BY <1>4 DEF BundleType
  <2> HIDE DEF r, C
  <2> QED BY <1>1, <1>3, <2>1, <2>2
<1>9. r \in BundleType /\ r.bundle_id = B[b].bundle_id /\ r.chunks = t
    BY <1>4 DEF BundleType
<1> HIDE DEF B, C, r
<1>10. ASSUME NEW c \in 1 .. Len(C) PROVE Good(chunks, C[c], i)
  <2>1. CASE c = b
      BY <1>3, <1>7, <1>8, <1>9, <2>1 DEF Good
  <2>2. CASE c # b
    <3>1. Good(chunks, B[c], i - 1)
        BY <1>8 DEF GroupInv, B
    <3> QED BY <1>1, <1>8, <2>2, <3>1, GoodKept
  <2> QED BY <2>1, <2>2
<1>11. \A c \in 1 .. Len(C) : C[c].bundle_id = B[c].bundle_id
    BY <1>8, <1>9
<1>12. \A c, d \in 1 .. Len(C) : C[c].bundle_id = C[d].bundle_id => c = d
    BY <1>8, <1>11 DEF GroupInv, B
<1>13. Len(t) = Len(s) + 1 /\ \A x \in 1 .. Len(s) : \E m \in 1 .. Len(t) : t[m] = s[x]
  <2>1. Sources(s, t, q)
      BY <1>6, InsertionSources
  <2> QED BY <1>6, <2>1 DEF OneMore, Sources
<1>14. ASSUME NEW j \in 1 .. i
       PROVE  \E c \in 1 .. Len(C) : \E m \in 1 .. Len(C[c].chunks) : C[c].chunks[m] = j
  <2>1. CASE j = i
    <3>1. q \in 1 .. Len(t) /\ t[q] = j
        BY <1>4, <1>5, <1>6, <1>13, <2>1
    <3> QED BY <1>3, <1>8, <1>9, <3>1
  <2>2. CASE j # i
    <3>1. j \in 1 .. i - 1
        BY <1>1, <2>2
    <3>2. PICK c \in 1 .. Len(B) : \E m \in 1 .. Len(B[c].chunks) : B[c].chunks[m] = j
        BY <3>1 DEF GroupInv, B
    <3>3. CASE c = b
      <4>1. PICK x \in 1 .. Len(s) : s[x] = j
          BY <3>2, <3>3 DEF s
      <4>2. PICK m \in 1 .. Len(t) : t[m] = j
          BY <1>13, <4>1
      <4> QED BY <1>3, <1>8, <1>9, <4>2
    <3>4. CASE c # b
        BY <1>8, <3>2, <3>4
    <3> QED BY <3>3, <3>4
  <2> QED BY <2>1, <2>2
<1>15. i' - 1 = i /\ i' \in 1 .. Len(chunks) + 1
    BY <1>1
<1>16. /\ chunks' \in Seq(Int \X Int) /\ i' \in 1 .. Len(chunks') + 1 /\ C \in Seq(BundleType)
       /\ \A c \in 1 .. Len(C) : Good(chunks', C[c], i' - 1)
    BY <1>1, <1>8, <1>10, <1>15
<1>17. \A j \in 1 .. i' - 1 : \E c \in 1 .. Len(C) : \E m \in 1 .. Len(C[c].chunks) : C[c].chunks[m] = j
    BY <1>14, <1>15
<1> QED BY <1>12, <1>16, <1>17 DEF GroupInv, C

\* The invariant gives the promise of group_by_bundles.
LEMMA GroupGives == GroupInv => Group!Grouped
<1> SUFFICES ASSUME GroupInv PROVE Group!Grouped
    OBVIOUS
<1> DEFINE B == unique_bundles
<1>1. B \in Seq(BundleType) /\ DOMAIN B = 1 .. Len(B)
    BY DEF GroupInv
<1>2. ASSUME NEW b \in 1 .. Len(B)
      PROVE  /\ B[b].chunks \in Seq(Nat) /\ DOMAIN B[b].chunks = 1 .. Len(B[b].chunks)
             /\ GoodChunks(chunks, B[b].chunks, B[b].bundle_id, i - 1)
    BY <1>1 DEF GroupInv, BundleType, Good
<1>3. \A b, c \in DOMAIN B : B[b].bundle_id = B[c].bundle_id => b = c
    BY <1>1 DEF GroupInv
<1>4. ASSUME NEW b \in DOMAIN B, NEW j \in Group!ToSet(B[b].chunks)
      PROVE  chunks[j][1] = B[b].bundle_id
  <2>1. PICK m \in DOMAIN B[b].chunks : j = B[b].chunks[m]
      BY DEF Group!ToSet
  <2> QED BY <1>1, <1>2, <2>1 DEF GoodChunks
<1>5. ASSUME NEW j \in 1 .. i - 1
      PROVE  \E b \in DOMAIN B : \E m \in DOMAIN B[b].chunks :
                 \A p \in DOMAIN B[b].chunks : B[b].chunks[p] = j <=> p = m
  <2>1. PICK b \in 1 .. Len(B) : \E m \in 1 .. Len(B[b].chunks) : B[b].chunks[m] = j
      BY DEF GroupInv
  <2>2. PICK m \in 1 .. Len(B[b].chunks) : B[b].chunks[m] = j
      BY <2>1
  <2>3. \A p \in 1 .. Len(B[b].chunks) : B[b].chunks[p] = j => p = m
    <3>1. \A p \in 1 .. Len(B[b].chunks) : p < m \/ m < p \/ p = m
        BY <1>2
    <3> QED BY <1>2, <2>2, <3>1 DEF GoodChunks
  <2> QED BY <1>1, <1>2, <2>2, <2>3
<1>6. Group!Partition
    BY <1>3, <1>4, <1>5 DEF Group!Partition, Group!Bundle
<1>7. Group!Ordered
  <2> SUFFICES ASSUME NEW b \in DOMAIN B, NEW j \in 1 .. Len(Group!OffsetsIn(B[b].chunks)) - 1
               PROVE  Group!OffsetsIn(B[b].chunks)[j] <= Group!OffsetsIn(B[b].chunks)[j + 1]
      BY DEF Group!Ordered
  <2>1. /\ Len(Group!OffsetsIn(B[b].chunks)) = Len(B[b].chunks) /\ Len(B[b].chunks) \in Nat
        /\ \A m \in 1 .. Len(B[b].chunks) : Group!OffsetsIn(B[b].chunks)[m] = chunks[B[b].chunks[m]][2]
      BY <1>1, <1>2 DEF Group!OffsetsIn, Group!Offset
  <2>2. j \in 1 .. Len(B[b].chunks) /\ j + 1 \in 1 .. Len(B[b].chunks) /\ j < j + 1
      BY <2>1
  <2>3. chunks[B[b].chunks[j]][2] <= chunks[B[b].chunks[j + 1]][2]
      BY <1>1, <1>2, <2>2 DEF GoodChunks
  <2> QED BY <2>1, <2>2, <2>3
<1> QED BY <1>6, <1>7 DEF Group!Grouped

GroupingInv == algorithm = "group" => GroupInv

\* A step of any of the algorithms keeps the invariant of the grouping.
LEMMA GroupingStep ==
    ASSUME GroupingInv, [AnyNext]_allVars
    PROVE  GroupingInv'
<1> SUFFICES ASSUME algorithm' = "group" PROVE GroupInv'
    BY DEF GroupingInv
<1>1. ASSUME UNCHANGED <<algorithm, group, i>> PROVE GroupInv'
    BY <1>1 DEF GroupingInv, GroupInv, group
<1>2. CASE UNCHANGED allVars
    BY <1>1, <1>2 DEF allVars
<1>3. CASE AnyNext
  <2>1. algorithm = "group" /\ Group!Next /\ UNCHANGED algorithm
      BY <1>3 DEF AnyNext
  <2>2. GroupInv
      BY <2>1 DEF GroupingInv
  <2>3. CASE Group!Done
      BY <1>1, <2>1, <2>3 DEF Group!Done, Group!vars, group
  <2> QED BY <2>1, <2>2, <2>3, GroupNewBundle, GroupSameBundle DEF Group!Next
<1> QED BY <1>2, <1>3

\* group_by_bundles puts every chunk once into the one list of its bundle, in the
\* order of the places in the bundle, for chunk lists of every length and wherever
\* the insertions put chunks with equal offsets.
THEOREM GroupedAlways == AnySpec => []Grouped
<1>1. AnyInit => GroupingInv
    BY GroupBegins DEF AnyInit, GroupingInv
<1>2. GroupingInv /\ [AnyNext]_allVars => GroupingInv'
    BY GroupingStep
<1>3. GroupingInv => Grouped
    BY GroupGives DEF GroupingInv, Grouped
<1> QED BY <1>1, <1>2, <1>3, PTL DEF AnySpec

-----------------------------------------------------------------------------
\* SHA-256.  Remainders.
LEMMA DivMod ==
    ASSUME NEW n \in Nat, NEW d \in Nat \ {0}
    PROVE  \E q \in Nat, r \in 0 .. d - 1 : q = n \div d /\ r = n % d /\ n = (d * q) + r
<1>1. PICK q \in Nat, r \in 0 .. d - 1 : q = n \div d /\ r = n % d
    OBVIOUS
<1>2. n - (n % d) = d * (n \div d)
    BY SMTT(30)
<1>3. PICK x \in Int : x = d * q
    OBVIOUS
<1>4. n - r = x
    BY ONLY <1>1, <1>2, <1>3
<1>5. n = x + r
    BY <1>4
<1> QED BY <1>1, <1>3, <1>5

\* The quotient and the remainder are the only ones.
LEMMA Quotient ==
    ASSUME NEW d \in Nat \ {0}, NEW n \in Nat, NEW q \in Nat, NEW r \in 0 .. d - 1,
           n = (d * q) + r
    PROVE  n % d = r /\ n \div d = q
    BY SMTT(30)

\* Whole blocks in front do not count.
LEMMA Aligned ==
    ASSUME NEW d \in Nat \ {0}, NEW a \in Nat, NEW b \in Nat, a % d = 0
    PROVE  (a + b) % d = b % d
<1>1. PICK p \in Nat : a = d * p
  <2>1. PICK p \in Nat, r \in 0 .. d - 1 : p = a \div d /\ r = a % d /\ a = (d * p) + r
      BY DivMod
  <2>2. PICK x \in Nat : x = d * p
      OBVIOUS
  <2>3. r = 0 /\ a = x + r
      BY <2>1, <2>2
  <2>4. a = d * p
      BY <2>2, <2>3
  <2> QED BY <2>4
<1>2. PICK q \in Nat, r \in 0 .. d - 1 : q = b \div d /\ r = b % d /\ b = (d * q) + r
    BY DivMod
<1>3. a + b = (d * (p + q)) + r
  <2>1. d * (p + q) = (d * p) + (d * q)
      OBVIOUS
  <2>2. PICK x \in Nat, y \in Nat : x = d * p /\ y = d * q
      OBVIOUS
  <2> QED BY <1>1, <1>2, <2>1, <2>2
<1>4. p + q \in Nat /\ a + b \in Nat
    OBVIOUS
<1>5. (a + b) % d = r
    BY <1>3, <1>4, Quotient
<1> QED BY <1>2, <1>5

\* Without what is behind the whole blocks nothing is left over, and with the rest
\* of a block nothing either.
LEMMA WholeBlocks ==
    ASSUME NEW d \in Nat \ {0}, NEW n \in Nat, NEW r, r = n % d
    PROVE  /\ n - r \in Nat /\ (n - r) % d = 0
           /\ n + (d - r) \in Nat /\ (n + (d - r)) % d = 0
<1>1. PICK q \in Nat, s \in 0 .. d - 1 : q = n \div d /\ s = n % d /\ n = (d * q) + s
    BY DivMod
<1>2. PICK x \in Nat, y \in Nat : x = d * q /\ y = d * (q + 1) /\ y = x + d
    OBVIOUS
<1>3. r = s /\ n - r = x /\ n + (d - r) = y
    BY <1>1, <1>2
<1>4. 0 \in 0 .. d - 1 /\ q + 1 \in Nat /\ x = (d * q) + 0 /\ y = (d * (q + 1)) + 0
    BY <1>2
<1>5. x % d = 0
    BY <1>4, Quotient
<1>6. y % d = 0
    BY <1>4, Quotient
<1> QED BY <1>2, <1>3, <1>5, <1>6

\* A remainder by a multiple leaves the remainder by the divisor.
LEMMA ModMultiple ==
    ASSUME NEW d \in Nat \ {0}, NEW w \in Nat \ {0}, NEW n \in Nat, w % d = 0
    PROVE  (n % w) % d = n % d
<1>1. PICK v \in Nat, z \in 0 .. d - 1 : v = w \div d /\ z = w % d /\ w = (d * v) + z
    BY DivMod
<1>2. PICK q \in Nat, r \in 0 .. w - 1 : q = n \div w /\ r = n % w /\ n = (w * q) + r
    BY DivMod
<1>3. PICK x \in Nat : x = w * q
    OBVIOUS
<1>4. x % d = 0
  <2>1. PICK y \in Nat, u \in Nat : y = v * q /\ u = d * v
      OBVIOUS
  <2>2. w = u
      BY <1>1, <2>1
  <2>3. x = u * q
      BY <1>3, <2>2
  <2>4. u * q = d * y
      BY ONLY <2>1, d \in Nat, v \in Nat, q \in Nat
  <2>5. x = (d * y) + 0 /\ 0 \in 0 .. d - 1
      BY <2>3, <2>4
  <2> QED BY <2>5, Quotient
<1>5. r \in Nat
    OBVIOUS
<1>6. (x + r) % d = r % d
    BY <1>4, <1>5, Aligned
<1>7. n = x + r
    BY <1>2, <1>3
<1> QED BY <1>2, <1>6, <1>7

\* The first n bytes of text x.
FirstBytes(a, x, n) == a \in Seq(Int) /\ Len(a) = n /\ \A j \in 1 .. n : a[j] = x[j]

\* The last r bytes of x at the begin of buffer b.
LastBytes(b, x, r) ==
    /\ DOMAIN b = 0 .. Block - 1
    /\ \A j \in 0 .. r - 1 : b[j] = x[Len(x) - r + j + 1]

\* The context after the bytes of x: the whole blocks are compressed, the others
\* are in the buffer.
Digesting(c, x) ==
    /\ c.total[1] \in Nat /\ c.total[1] % Block = Len(x) % Block
    /\ FirstBytes(c.compressed, x, Len(x) - (Len(x) % Block))
    /\ LastBytes(c.buffer, x, Len(x) % Block)

\* Bytes m to n of a text.
LEMMA Cut ==
    ASSUME NEW s \in Seq(Int), NEW m \in Nat, NEW n \in Nat, m <= n, n <= Len(s)
    PROVE  /\ SubSeq(s, m + 1, n) \in Seq(Int) /\ Len(SubSeq(s, m + 1, n)) = n - m
           /\ \A j \in 1 .. n - m : SubSeq(s, m + 1, n)[j] = s[m + j]
<1>1. Len(s) \in Nat /\ m + 1 \in Int /\ n - (m + 1) + 1 = n - m
    OBVIOUS
<1>2. \A j \in m + 1 .. n : s[j] \in Int
  <2>1. \A j \in m + 1 .. n : j \in 1 .. Len(s)
      BY <1>1
  <2> QED BY <2>1
<1>3. \A j \in 1 .. n - m : (m + 1) + j - 1 = m + j
    OBVIOUS
<1>4. /\ SubSeq(s, m + 1, n) \in Seq(Int)
      /\ Len(SubSeq(s, m + 1, n)) = IF m + 1 <= n THEN n - (m + 1) + 1 ELSE 0
      /\ \A j \in 1 .. n - (m + 1) + 1 : SubSeq(s, m + 1, n)[j] = s[(m + 1) + j - 1]
    BY <1>1, <1>2, SubSeqProperties
<1>5. Len(SubSeq(s, m + 1, n)) = n - m
    BY <1>1, <1>4
<1> QED BY <1>1, <1>3, <1>4, <1>5

\* Bytes written to the buffer stand there; the others are untouched.
LEMMA Written ==
    ASSUME NEW b, DOMAIN b = 0 .. Block - 1, NEW pos \in Nat, NEW s \in Seq(Int)
    PROVE  /\ DOMAIN Sha!Put(b, pos, s) = 0 .. Block - 1
           /\ \A j \in 0 .. Block - 1 : j \in pos .. pos + Len(s) - 1 =>
                 Sha!Put(b, pos, s)[j] = s[j - pos + 1]
           /\ \A j \in 0 .. Block - 1 : j < pos => Sha!Put(b, pos, s)[j] = b[j]
<1>1. \A j : j \in pos .. pos + Len(s) - 1 => ~(j < pos)
    OBVIOUS
<1> QED BY <1>1 DEF Sha!Put

\* Behind an aligned beginning the whole blocks of the rest are compressed and the
\* last bytes go to the begin of the buffer.
LEMMA RestTaken ==
    ASSUME NEW x \in Seq(Int), NEW a, NEW p \in Nat, p % Block = 0, FirstBytes(a, x, p),
           NEW t \in Seq(Int), Len(x) = p + Len(t),
           \A j \in 1 .. Len(t) : t[j] = x[p + j],
           NEW b, DOMAIN b = 0 .. Block - 1,
           NEW whole, whole = Len(t) - (Len(t) % Block)
    PROVE  /\ FirstBytes(a \o SubSeq(t, 1, whole), x, Len(x) - (Len(x) % Block))
           /\ LastBytes(Sha!Put(b, 0, Sha!Behind(t, whole)), x, Len(x) % Block)
<1>1. Block \in Nat \ {0}
    BY ShaAssumption
<1>2. PICK n \in Nat : n = Len(t)
    OBVIOUS
<1>3. PICK r \in 0 .. Block - 1 : r = n % Block /\ r <= n /\ whole = n - r
  <2>1. PICK q \in Nat, r \in 0 .. Block - 1 : q = n \div Block /\ r = n % Block /\ n = (Block * q) + r
      BY <1>1, DivMod
  <2>2. PICK y \in Nat : y = Block * q
      BY <1>1
  <2>3. n = y + r
      BY <1>2, <2>1, <2>2
  <2>4. r <= n
      BY <2>3
  <2>5. r = n % Block
      BY <2>1, <1>2
  <2> QED BY <1>2, <2>4, <2>5
<1>4. Len(x) % Block = r /\ Len(x) = p + n
  <2>1. Len(x) = p + n /\ n \in Nat
      BY <1>2
  <2>2. (p + n) % Block = n % Block
      BY <1>1, Aligned
  <2> QED BY <1>3, <2>1, <2>2
<1>5. PICK w \in Nat : w = whole /\ w <= n /\ w + r = n
    BY <1>3
<1>6. /\ SubSeq(t, 1, w) \in Seq(Int) /\ Len(SubSeq(t, 1, w)) = w
      /\ \A j \in 1 .. w : SubSeq(t, 1, w)[j] = t[j]
  <2>1. /\ SubSeq(t, 0 + 1, w) \in Seq(Int) /\ Len(SubSeq(t, 0 + 1, w)) = w - 0
        /\ \A j \in 1 .. w - 0 : SubSeq(t, 0 + 1, w)[j] = t[0 + j]
      BY <1>2, <1>5, Cut
  <2>2. \A j \in 1 .. w : 0 + j = j
      OBVIOUS
  <2> QED BY <2>1, <2>2
<1>7. /\ Sha!Behind(t, whole) \in Seq(Int) /\ Len(Sha!Behind(t, whole)) = r
      /\ \A j \in 1 .. r : Sha!Behind(t, whole)[j] = t[w + j]
  <2>1. Sha!Behind(t, whole) = SubSeq(t, w + 1, n)
      BY <1>2, <1>5 DEF Sha!Behind
  <2>2. n - w = r /\ w \in Nat /\ n \in Nat /\ w <= n /\ n <= Len(t)
      BY <1>2, <1>5
  <2>3. /\ SubSeq(t, w + 1, n) \in Seq(Int) /\ Len(SubSeq(t, w + 1, n)) = n - w
        /\ \A j \in 1 .. n - w : SubSeq(t, w + 1, n)[j] = t[w + j]
      BY ONLY <2>2, t \in Seq(Int), Cut
  <2> QED BY <2>1, <2>2, <2>3
<1>8. FirstBytes(a \o SubSeq(t, 1, w), x, p + w)
  <2>1. PICK c \in Seq(Int) : c = SubSeq(t, 1, w)
      BY <1>6
  <2>0. a \in Seq(Int) /\ Len(a) = p /\ c \in Seq(Int) /\ Len(c) = w
      BY <1>6, <2>1 DEF FirstBytes
  <2>a. /\ a \o c \in Seq(Int)
        /\ Len(a \o c) = Len(a) + Len(c)
        /\ \A j \in 1 .. Len(a) : (a \o c)[j] = a[j]
        /\ \A j \in 1 .. Len(c) : (a \o c)[Len(a) + j] = c[j]
    <3>1. a \in Seq(Int) /\ c \in Seq(Int)
        BY <2>0
    <3> QED BY ONLY <3>1, TwoTexts
  <2>2. /\ a \o c \in Seq(Int) /\ Len(a \o c) = p + w
        /\ \A j \in 1 .. p : (a \o c)[j] = a[j]
        /\ \A j \in 1 .. w : (a \o c)[p + j] = c[j]
      BY <2>0, <2>a
  <2>3. ASSUME NEW j \in 1 .. p + w PROVE (a \o c)[j] = x[j]
    <3>1. CASE j <= p
        BY <2>2, <3>1 DEF FirstBytes
    <3>2. CASE ~(j <= p)
      <4>1. PICK h \in 1 .. w : h = j - p /\ p + h = j /\ h \in 1 .. n
          BY <1>5, <3>2
      <4>2. (a \o c)[j] = t[h]
          BY <1>6, <2>1, <2>2, <4>1
      <4> QED BY <1>2, <4>1, <4>2
    <3> QED BY <3>1, <3>2
  <2> QED BY <2>1, <2>2, <2>3 DEF FirstBytes
<1>9. p + w = Len(x) - r
  <2>1. PICK z \in Nat : z = Len(x)
      OBVIOUS
  <2>2. z = p + n
      BY <1>4, <2>1
  <2>3. w \in Int /\ n \in Int /\ r \in Int /\ w + r = n
      BY <1>2, <1>3, <1>5
  <2> QED BY ONLY <2>1, <2>2, <2>3, p \in Nat
<1>10. LastBytes(Sha!Put(b, 0, Sha!Behind(t, whole)), x, r)
  <2>1. PICK e \in Seq(Int) : e = Sha!Behind(t, whole)
      BY <1>7
  <2>2. /\ DOMAIN Sha!Put(b, 0, e) = 0 .. Block - 1
        /\ \A j \in 0 .. Block - 1 : j \in 0 .. 0 + Len(e) - 1 => Sha!Put(b, 0, e)[j] = e[j - 0 + 1]
      BY Written
  <2>3. ASSUME NEW j \in 0 .. r - 1 PROVE Sha!Put(b, 0, e)[j] = x[Len(x) - r + j + 1]
    <3>0. r \in Int /\ Block \in Int /\ r <= Block - 1 /\ j \in Int /\ 0 <= j /\ j <= r - 1
        BY <1>1, <1>3
    <3>1. j \in 0 .. Block - 1
        BY ONLY <3>0
    <3>a. j - 0 + 1 = j + 1
        BY ONLY <3>0
    <3>b. j + 1 \in 1 .. r
        BY ONLY <3>0
    <3>c. j \in 0 .. 0 + r - 1
      <4>1. 0 + r - 1 = r - 1
          BY ONLY <3>0
      <4> QED BY <4>1
    <3>2. Sha!Put(b, 0, e)[j] = t[w + (j + 1)]
      <4>1. Len(e) = r /\ e[j + 1] = t[w + (j + 1)]
          BY <1>7, <2>1, <3>b
      <4>2. j \in 0 .. 0 + Len(e) - 1
          BY <3>c, <4>1
      <4>3. Sha!Put(b, 0, e)[j] = e[j - 0 + 1]
          BY ONLY <2>2, <3>1, <4>2
      <4> QED BY ONLY <3>a, <4>1, <4>3
    <3>3. w + (j + 1) \in 1 .. n /\ p + (w + (j + 1)) = Len(x) - r + j + 1
      <4>1. PICK z \in Nat : z = Len(x)
          OBVIOUS
      <4>2. z = p + n /\ w + r = n /\ r \in Nat /\ j \in Int /\ 0 <= j /\ j < r
          BY <1>3, <1>4, <1>5, <3>0, <4>1
      <4> QED BY ONLY <4>1, <4>2, p \in Nat, n \in Nat, w \in Nat
    <3> QED BY <1>2, <3>2, <3>3
  <2> QED BY <2>1, <2>2, <2>3 DEF LastBytes
<1> QED BY <1>4, <1>5, <1>8, <1>9, <1>10

\* Two texts of bytes one after the other.
LEMMA TwoMessages ==
    ASSUME NEW s \in Seq(Int), NEW t \in Seq(Int)
    PROVE  /\ s \o t \in Seq(Int) /\ Len(s \o t) = Len(s) + Len(t)
           /\ \A j \in 1 .. Len(s) : (s \o t)[j] = s[j]
           /\ \A j \in 1 .. Len(t) : (s \o t)[Len(s) + j] = t[j]
    OBVIOUS

\* Equal remainders stay equal.
LEMMA SameRemainder ==
    ASSUME NEW d \in Nat \ {0}, NEW a \in Nat, NEW b \in Nat, NEW m \in Nat, a % d = b % d
    PROVE  (a + m) % d = (b + m) % d
<1>1. PICK r \in Nat : r = a % d /\ r = b % d
    OBVIOUS
<1>2. a - r \in Nat /\ (a - r) % d = 0 /\ b - r \in Nat /\ (b - r) % d = 0
    BY <1>1, WholeBlocks
<1>3. PICK u \in Nat, v \in Nat, e \in Nat : u = a - r /\ v = b - r /\ e = r + m
    BY <1>2
<1>4. (u + e) % d = e % d /\ (v + e) % d = e % d
    BY <1>2, <1>3, Aligned
<1>5. u + e = a + m /\ v + e = b + m
    BY <1>3
<1> QED BY <1>4, <1>5

\* The beginning of a text is the beginning of what it goes on to.
LEMMA LongerText ==
    ASSUME NEW s \in Seq(Int), NEW t \in Seq(Int), NEW a, NEW n \in Nat, n <= Len(s),
           FirstBytes(a, s, n)
    PROVE  FirstBytes(a, s \o t, n)
<1>1. \A j \in 1 .. n : j \in 1 .. Len(s)
    OBVIOUS
<1>2. \A j \in 1 .. Len(s) : (s \o t)[j] = s[j]
    BY TwoMessages
<1> QED BY <1>1, <1>2 DEF FirstBytes

\* Two texts that are the same are equal.
LEMMA SameText ==
    ASSUME NEW s \in Seq(Int), NEW t \in Seq(Int), Len(s) = Len(t),
           \A j \in 1 .. Len(s) : s[j] = t[j]
    PROVE  s = t
    BY SeqEqual

\* Nothing behind or before a text leaves it as it is.
LEMMA NothingAdded == ASSUME NEW s \in Seq(Int) PROVE s \o <<>> = s
<1>1. <<>> \in Seq(Int) /\ Len(<<>>) = 0
    OBVIOUS
<1>2. /\ s \o <<>> \in Seq(Int) /\ Len(s \o <<>>) = Len(s) + Len(<<>>)
      /\ \A j \in 1 .. Len(s) : (s \o <<>>)[j] = s[j]
    BY <1>1, TwoMessages
<1>3. Len(s \o <<>>) = Len(s)
    BY <1>1, <1>2
<1> QED BY <1>2, <1>3, SameText

\* All of a text, and none of it.
LEMMA WholeText == ASSUME NEW s \in Seq(Int) PROVE SubSeq(s, 1, Len(s)) = s /\ SubSeq(s, 1, 0) = <<>>
    OBVIOUS

\* The context after bytes when it does not hold a part of a block.
LEMMA UpdateAligned ==
    ASSUME NEW c, NEW s \in Seq(Int), Digesting(c, s), NEW e \in Seq(Int),
           Len(s) % Block = 0
    PROVE  LET d == Sha!sha256_update(c, e) IN
               /\ FirstBytes(d.compressed, s \o e, Len(s \o e) - (Len(s \o e) % Block))
               /\ LastBytes(d.buffer, s \o e, Len(s \o e) % Block)
<1> DEFINE whole == Len(e) - (Len(e) % Block)
           x == s \o e
<1>0. Block \in Nat \ {0}
    BY ShaAssumption
<1>1. PICK a \in Seq(Int) : a = c.compressed /\ FirstBytes(a, s, Len(s))
  <2>1. Len(s) - (Len(s) % Block) = Len(s)
      OBVIOUS
  <2> QED BY <2>1 DEF Digesting, FirstBytes
<1>2. c.total[1] % Block = 0 /\ DOMAIN c.buffer = 0 .. Block - 1
    BY DEF Digesting, LastBytes
<1>3. ~Sha!Fills(0, Len(e))
    BY DEF Sha!Fills
<1>4. SubSeq(e, 0 + 1, Len(e)) = e
    BY WholeText
<1>5. c.compressed \o <<>> = a
    BY <1>1, NothingAdded
<1>6. /\ Sha!sha256_update(c, e).compressed = a \o SubSeq(e, 1, whole)
      /\ Sha!sha256_update(c, e).buffer = Sha!Put(c.buffer, 0, Sha!Behind(e, whole))
    BY <1>2, <1>3, <1>4, <1>5 DEF Sha!sha256_update
<1>7. /\ x \in Seq(Int) /\ Len(x) = Len(s) + Len(e)
      /\ \A j \in 1 .. Len(e) : e[j] = x[Len(s) + j]
    BY TwoMessages
<1>8. FirstBytes(a, x, Len(s))
  <2>1. Len(s) \in Nat /\ Len(s) <= Len(s)
      OBVIOUS
  <2> QED BY <1>1, <2>1, LongerText
<1>9. Len(s) \in Nat
    OBVIOUS
<1>10. PICK w : w = whole
    OBVIOUS
<1>11. w = Len(e) - (Len(e) % Block)
    BY <1>10
<1> HIDE DEF whole, x
<1>12. /\ FirstBytes(a \o SubSeq(e, 1, w), x, Len(x) - (Len(x) % Block))
       /\ LastBytes(Sha!Put(c.buffer, 0, Sha!Behind(e, w)), x, Len(x) % Block)
    BY ONLY <1>2, <1>7, <1>8, <1>9, <1>11, e \in Seq(Int), Len(s) % Block = 0, RestTaken
<1> QED BY <1>6, <1>10, <1>12 DEF x

\* The context after bytes that do not complete the block that was begun.
LEMMA UpdateBegun ==
    ASSUME NEW c, NEW s \in Seq(Int), Digesting(c, s), NEW e \in Seq(Int),
           Len(e) < Block - (Len(s) % Block)
    PROVE  LET d == Sha!sha256_update(c, e) IN
               /\ FirstBytes(d.compressed, s \o e, Len(s \o e) - (Len(s \o e) % Block))
               /\ LastBytes(d.buffer, s \o e, Len(s \o e) % Block)
<1>0. Block \in Nat \ {0}
    BY ShaAssumption
<1>1. PICK n \in Nat, m \in Nat : n = Len(s) /\ m = Len(e)
    OBVIOUS
<1>2. PICK q \in Nat, r \in 0 .. Block - 1 : q = n \div Block /\ r = n % Block /\ n = (Block * q) + r
    BY <1>0, DivMod
<1>3. PICK y \in Nat : y = Block * q
    BY <1>0
<1>4. n = y + r /\ Len(s) % Block = r /\ m < Block - r
    BY <1>1, <1>2, <1>3
<1>5. PICK x \in Seq(Int) : x = s \o e
    BY TwoMessages
<1>6. /\ Len(x) = n + m
      /\ \A j \in 1 .. n : x[j] = s[j]
      /\ \A j \in 1 .. m : x[n + j] = e[j]
    BY <1>1, <1>5, TwoMessages
<1>7. Len(x) % Block = r + m
  <2>1. r + m \in 0 .. Block - 1 /\ n + m \in Nat /\ n + m = y + (r + m)
      BY <1>0, <1>4
  <2>2. n + m = (Block * q) + (r + m)
      BY <1>3, <2>1
  <2>3. (n + m) % Block = r + m
      BY ONLY <1>0, <2>1, <2>2, q \in Nat, Quotient
  <2> QED BY <1>6, <2>3
<1>8. m % Block = m
  <2>1. m \in 0 .. Block - 1 /\ m = (Block * 0) + m
      BY <1>0, <1>4
  <2> QED BY ONLY <1>0, <2>1, m \in Nat, Quotient
<1>9. PICK a \in Seq(Int) : a = c.compressed /\ FirstBytes(a, s, y)
  <2>1. n - r = y
      BY <1>4
  <2> QED BY <1>1, <1>4, <2>1 DEF Digesting, FirstBytes
<1>10. PICK b : b = c.buffer /\ DOMAIN b = 0 .. Block - 1 /\ \A j \in 0 .. r - 1 : b[j] = s[n - r + j + 1]
    BY <1>1, <1>4 DEF Digesting, LastBytes
<1>11. c.total[1] % Block = r
    BY <1>1, <1>2 DEF Digesting
<1>12. ~Sha!Fills(r, Len(e))
    BY <1>0, <1>1, <1>4 DEF Sha!Fills
<1>13. SubSeq(e, 0 + 1, Len(e)) = e /\ SubSeq(e, 1, 0) = <<>> /\ SubSeq(e, 0 + 1, m) = e
    BY <1>1, WholeText
<1>14. a \o <<>> = a
    BY NothingAdded
<1>15. Len(e) - (Len(e) % Block) = 0
    BY <1>1, <1>8
<1>16. Sha!Behind(e, 0) = e
    BY <1>13 DEF Sha!Behind
<1>17. /\ Sha!sha256_update(c, e).compressed = a
       /\ Sha!sha256_update(c, e).buffer = Sha!Put(b, r, e)
    BY <1>9, <1>10, <1>11, <1>12, <1>13, <1>14, <1>15, <1>16 DEF Sha!sha256_update
<1>18. FirstBytes(a, x, y)
  <2>1. y <= Len(s)
      BY <1>1, <1>4
  <2> QED BY <1>5, <1>9, <2>1, LongerText
<1>19. LastBytes(Sha!Put(b, r, e), x, r + m)
  <2>1. /\ DOMAIN Sha!Put(b, r, e) = 0 .. Block - 1
        /\ \A j \in 0 .. Block - 1 : j \in r .. r + m - 1 => Sha!Put(b, r, e)[j] = e[j - r + 1]
        /\ \A j \in 0 .. Block - 1 : j < r => Sha!Put(b, r, e)[j] = b[j]
    <3>1. r \in Nat /\ DOMAIN b = 0 .. Block - 1
        BY <1>10
    <3>2. /\ DOMAIN Sha!Put(b, r, e) = 0 .. Block - 1
          /\ \A j \in 0 .. Block - 1 : j \in r .. r + Len(e) - 1 => Sha!Put(b, r, e)[j] = e[j - r + 1]
          /\ \A j \in 0 .. Block - 1 : j < r => Sha!Put(b, r, e)[j] = b[j]
        BY ONLY <3>1, e \in Seq(Int), Written
    <3> QED BY <1>1, <3>2
  <2>2. r \in Int /\ Block \in Int /\ 0 <= r /\ r <= Block - 1 /\ r + m <= Block - 1 /\ n = y + r
      BY <1>0, <1>4
  <2>3. ASSUME NEW j \in 0 .. (r + m) - 1 PROVE Sha!Put(b, r, e)[j] = x[Len(x) - (r + m) + j + 1]
    <3>1. j \in Int /\ 0 <= j /\ j <= (r + m) - 1
        BY <2>2
    <3>2. j \in 0 .. Block - 1
        BY ONLY <2>2, <3>1
    <3>3. Len(x) - (r + m) + j + 1 = y + j + 1
        BY <1>6, <2>2, <3>1
    <3>4. CASE j < r
      <4>1. j \in 0 .. r - 1 /\ n - r + j + 1 = y + j + 1 /\ y + j + 1 \in 1 .. n
          BY ONLY <2>2, <3>1, <3>4, n \in Nat, y \in Nat
      <4>2. Sha!Put(b, r, e)[j] = s[y + j + 1]
          BY <1>10, <2>1, <3>2, <3>4, <4>1
      <4> QED BY <1>6, <3>3, <4>1, <4>2
    <3>5. CASE ~(j < r)
      <4>1. j - r + 1 \in 1 .. m /\ n + (j - r + 1) = y + j + 1
          BY ONLY <2>2, <3>1, <3>5, n \in Nat, y \in Nat, m \in Nat
      <4>2. j \in r .. r + m - 1
          BY ONLY <2>2, <3>1, <3>5, m \in Nat
      <4>3. Sha!Put(b, r, e)[j] = e[j - r + 1]
          BY <2>1, <3>2, <4>2
      <4> QED BY <1>6, <3>3, <4>1, <4>3
    <3> QED BY <3>4, <3>5
  <2> QED BY <2>1, <2>3 DEF LastBytes
<1>20. Len(x) - (Len(x) % Block) = y
  <2>1. (n + m) - (r + m) = y
      BY <1>4
  <2> QED BY <1>6, <1>7, <2>1
<1> QED BY <1>5, <1>7, <1>17, <1>18, <1>19, <1>20
-----------------------------------------------------------------------------
\* The bytes of the block that a piece completes, and those behind it.
LEMMA BlockFilled ==
    ASSUME NEW b, NEW s \in Seq(Int), NEW r \in 1 .. Block - 1, NEW y \in Nat, Len(s) = y + r,
           LastBytes(b, s, r), NEW e \in Seq(Int), Len(e) >= Block - r,
           NEW a, FirstBytes(a, s, y),
           NEW first, first = [j \in 1 .. Block |-> Sha!Put(b, r, SubSeq(e, 1, Block - r))[j - 1]]
    PROVE  /\ FirstBytes(a \o first, s \o e, y + Block)
           /\ DOMAIN Sha!Put(b, r, SubSeq(e, 1, Block - r)) = 0 .. Block - 1
<1>0. Block \in Int /\ r \in Int /\ 1 <= r /\ r <= Block - 1
    BY ShaAssumption
<1>1. PICK n \in Nat, m \in Nat : n = Len(s) /\ m = Len(e) /\ n = y + r
  <2>1. Len(s) \in Nat /\ Len(e) \in Nat
      OBVIOUS
  <2> QED BY <2>1
<1>2. PICK f \in Nat : f = Block - r /\ f <= m
    BY <1>0, <1>1
<1>3. PICK g \in Seq(Int) : g = SubSeq(e, 1, f) /\ Len(g) = f /\ \A j \in 1 .. f : g[j] = e[j]
  <2>1. 0 \in Nat /\ f \in Nat /\ 0 <= f /\ f <= Len(e)
      BY <1>1, <1>2
  <2>2. /\ SubSeq(e, 0 + 1, f) \in Seq(Int) /\ Len(SubSeq(e, 0 + 1, f)) = f - 0
        /\ \A j \in 1 .. f - 0 : SubSeq(e, 0 + 1, f)[j] = e[0 + j]
      BY ONLY <2>1, e \in Seq(Int), Cut
  <2>3. f - 0 = f /\ 0 + 1 = 1 /\ \A j \in 1 .. f : 0 + j = j
      OBVIOUS
  <2> QED BY <2>2, <2>3
<1>4. PICK x : x = s \o e
    OBVIOUS
<1>5. /\ x \in Seq(Int) /\ Len(x) = n + m
      /\ \A j \in 1 .. n : x[j] = s[j]
      /\ \A j \in 1 .. m : x[n + j] = e[j]
  <2>1. /\ s \o e \in Seq(Int) /\ Len(s \o e) = Len(s) + Len(e)
        /\ \A j \in 1 .. Len(s) : (s \o e)[j] = s[j]
        /\ \A j \in 1 .. Len(e) : (s \o e)[Len(s) + j] = e[j]
      BY ONLY s \in Seq(Int), e \in Seq(Int), TwoMessages
  <2> QED BY ONLY <1>1, <1>4, <2>1
<1>6. PICK p : p = Sha!Put(b, r, g)
    OBVIOUS
<1>7. /\ DOMAIN p = 0 .. Block - 1
      /\ \A j \in 0 .. Block - 1 : j \in r .. r + f - 1 => p[j] = g[j - r + 1]
      /\ \A j \in 0 .. Block - 1 : j < r => p[j] = b[j]
  <2>1. r \in Nat /\ DOMAIN b = 0 .. Block - 1
      BY DEF LastBytes
  <2>2. /\ DOMAIN Sha!Put(b, r, g) = 0 .. Block - 1
        /\ \A j \in 0 .. Block - 1 : j \in r .. r + Len(g) - 1 => Sha!Put(b, r, g)[j] = g[j - r + 1]
        /\ \A j \in 0 .. Block - 1 : j < r => Sha!Put(b, r, g)[j] = b[j]
      BY ONLY <2>1, g \in Seq(Int), Written
  <2> QED BY <1>3, <1>6, <2>2
<1>8. \A j \in 0 .. r - 1 : b[j] = s[n - r + j + 1]
    BY <1>1 DEF LastBytes
<1>9. ASSUME NEW j \in 1 .. Block PROVE first[j] = x[y + j] /\ x[y + j] \in Int
  <2>0. j \in Int /\ 1 <= j /\ j <= Block /\ Block \in Int
      BY <1>0
  <2>1. first[j] = p[j - 1]
      BY <1>2, <1>3, <1>6
  <2>2. j - 1 \in 0 .. Block - 1
      BY ONLY <2>0
  <2>3. CASE j - 1 < r
    <3>1. j - 1 \in 0 .. r - 1 /\ n - r + (j - 1) + 1 = y + j /\ y + j \in 1 .. n
        BY ONLY <1>0, <1>1, <2>0, <2>3, y \in Nat, n \in Nat
    <3>2. p[j - 1] = s[n - r + (j - 1) + 1]
        BY <1>7, <1>8, <2>2, <2>3, <3>1
    <3>3. x[y + j] = s[y + j]
        BY ONLY <1>5, <3>1
    <3>4. \A z \in 1 .. Len(s) : s[z] \in Int
        OBVIOUS
    <3>5. y + j \in 1 .. Len(s)
        BY <1>1, <3>1
    <3> QED BY <2>1, <3>1, <3>2, <3>3, <3>4, <3>5
  <2>4. CASE ~(j - 1 < r)
    <3>1. (j - 1) - r + 1 \in 1 .. f /\ (j - 1) - r + 1 = j - r /\ n + (j - r) = y + j
        BY ONLY <1>0, <1>1, <1>2, <2>0, <2>4, y \in Nat, n \in Nat, f \in Nat
    <3>2. j - 1 \in r .. r + f - 1
        BY ONLY <1>0, <1>2, <2>0, <2>4, f \in Nat
    <3>3. p[j - 1] = g[(j - 1) - r + 1]
        BY <1>7, <2>2, <3>2
    <3>4. j - r \in 1 .. f /\ j - r \in 1 .. m
        BY <1>2, <3>1
    <3>5. p[j - 1] = e[j - r]
        BY <1>3, <3>1, <3>3, <3>4
    <3>6. x[y + j] = e[j - r]
        BY ONLY <1>5, <3>1, <3>4
    <3>7. e[j - r] \in Int
        BY <1>1, <3>4
    <3> QED BY <2>1, <3>5, <3>6, <3>7
  <2> QED BY <2>3, <2>4
<1>10. PICK h \in Seq(Int) : h = first /\ Len(h) = Block
  <2>1. \A j \in 1 .. Block : first[j] \in Int
      BY <1>9
  <2>2. first \in [1 .. Block -> Int] /\ Block \in Nat
      BY <2>1, ShaAssumption
  <2>3. PICK h : h = first
      OBVIOUS
  <2>4. h \in [1 .. Block -> Int]
      BY <2>2, <2>3
  <2>5. h \in Seq(Int) /\ Len(h) = Block
      BY ONLY <2>2, <2>4
  <2> QED BY <2>3, <2>5
<1>11. a \in Seq(Int) /\ Len(a) = y
    BY DEF FirstBytes
<1>12. /\ a \o h \in Seq(Int) /\ Len(a \o h) = y + Block
       /\ \A j \in 1 .. y : (a \o h)[j] = a[j]
       /\ \A j \in 1 .. Block : (a \o h)[y + j] = h[j]
  <2>1. /\ a \o h \in Seq(Int) /\ Len(a \o h) = Len(a) + Len(h)
        /\ \A j \in 1 .. Len(a) : (a \o h)[j] = a[j]
        /\ \A j \in 1 .. Len(h) : (a \o h)[Len(a) + j] = h[j]
      BY ONLY <1>11, h \in Seq(Int), TwoMessages
  <2> QED BY ONLY <1>10, <1>11, <2>1
<1>13. FirstBytes(a, x, y)
  <2>1. y <= Len(s)
      BY <1>0, <1>1
  <2> QED BY <1>4, <2>1, LongerText
<1>14. ASSUME NEW j \in 1 .. y + Block PROVE (a \o h)[j] = x[j]
  <2>1. CASE j <= y
      BY <1>12, <1>13, <2>1 DEF FirstBytes
  <2>2. CASE ~(j <= y)
    <3>1. PICK z \in 1 .. Block : z = j - y /\ y + z = j
        BY <1>0, <2>2
    <3>2. (a \o h)[y + z] = h[z]
        BY <1>12
    <3> QED BY <1>9, <1>10, <3>1, <3>2
  <2> QED BY <2>1, <2>2
<1>15. FirstBytes(a \o h, x, y + Block)
    BY <1>12, <1>14 DEF FirstBytes
<1> QED BY <1>2, <1>3, <1>4, <1>6, <1>7, <1>10, <1>15

\* The context after bytes that complete the block that was begun.
LEMMA UpdateCompletes ==
    ASSUME NEW c, NEW s \in Seq(Int), Digesting(c, s), NEW e \in Seq(Int),
           Len(s) % Block > 0, Len(e) >= Block - (Len(s) % Block)
    PROVE  LET d == Sha!sha256_update(c, e) IN
               /\ FirstBytes(d.compressed, s \o e, Len(s \o e) - (Len(s \o e) % Block))
               /\ LastBytes(d.buffer, s \o e, Len(s \o e) % Block)
<1>0. Block \in Nat \ {0}
    BY ShaAssumption
<1>1. PICK n \in Nat, m \in Nat : n = Len(s) /\ m = Len(e)
  <2>1. Len(s) \in Nat /\ Len(e) \in Nat
      OBVIOUS
  <2> QED BY <2>1
<1>2. PICK r \in 1 .. Block - 1 : r = n % Block /\ n - r \in Nat /\ (n + (Block - r)) % Block = 0
  <2>1. n % Block \in 1 .. Block - 1
      BY <1>0, <1>1
  <2>2. PICK r \in 1 .. Block - 1 : r = n % Block
      BY <2>1
  <2>3. n - r \in Nat /\ (n + (Block - r)) % Block = 0
      BY ONLY <1>0, <2>2, n \in Nat, WholeBlocks
  <2> QED BY <2>2, <2>3
<1>3. PICK y \in Nat, f \in Nat, p \in Nat : y = n - r /\ f = Block - r /\ f <= m /\ p = n + f
  <2>1. Block - r \in Nat /\ n + (Block - r) \in Nat /\ Block - r <= m
      BY <1>0, <1>1, <1>2
  <2> QED BY <1>2, <2>1
<1>4. p = y + Block /\ p % Block = 0 /\ n = y + r
    BY <1>0, <1>2, <1>3
<1>5. PICK a, b : a = c.compressed /\ b = c.buffer /\ FirstBytes(a, s, y) /\ LastBytes(b, s, r)
    BY <1>1, <1>2, <1>3 DEF Digesting
<1>6. PICK g, first : g = Sha!Put(b, r, SubSeq(e, 1, f)) /\ first = [j \in 1 .. Block |-> g[j - 1]]
    OBVIOUS
<1>7. FirstBytes(a \o first, s \o e, p) /\ DOMAIN g = 0 .. Block - 1
  <2>1. first = [j \in 1 .. Block |-> Sha!Put(b, r, SubSeq(e, 1, Block - r))[j - 1]]
      BY <1>3, <1>6
  <2>2. Len(s) = y + r /\ Len(e) >= Block - r
      BY <1>1, <1>3, <1>4
  <2>3. FirstBytes(a, s, y) /\ LastBytes(b, s, r)
      BY <1>5
  <2>4. /\ FirstBytes(a \o first, s \o e, y + Block)
        /\ DOMAIN Sha!Put(b, r, SubSeq(e, 1, Block - r)) = 0 .. Block - 1
      BY ONLY <2>1, <2>2, <2>3, s \in Seq(Int), e \in Seq(Int), r \in 1 .. Block - 1, y \in Nat, BlockFilled
  <2> QED BY <1>3, <1>4, <1>6, <2>4
<1>8. PICK t \in Seq(Int) : /\ t = SubSeq(e, f + 1, Len(e)) /\ Len(t) = m - f
                            /\ \A j \in 1 .. Len(t) : t[j] = e[f + j]
  <2>1. f <= m /\ m <= Len(e) /\ m \in Nat /\ f \in Nat
      BY <1>1, <1>3
  <2>2. /\ SubSeq(e, f + 1, m) \in Seq(Int) /\ Len(SubSeq(e, f + 1, m)) = m - f
        /\ \A j \in 1 .. m - f : SubSeq(e, f + 1, m)[j] = e[f + j]
      BY ONLY <2>1, e \in Seq(Int), Cut
  <2> QED BY <1>1, <2>2
<1>9. PICK whole : whole = Len(t) - (Len(t) % Block)
    OBVIOUS
<1>10. c.total[1] % Block = r
    BY <1>1, <1>2 DEF Digesting
<1>11. Sha!Fills(r, Len(e))
    BY <1>1, <1>2, <1>3 DEF Sha!Fills
<1>12. /\ Sha!sha256_update(c, e).compressed = a \o first \o SubSeq(t, 1, whole)
       /\ Sha!sha256_update(c, e).buffer = Sha!Put(g, 0, Sha!Behind(t, whole))
    BY <1>3, <1>5, <1>6, <1>8, <1>9, <1>10, <1>11 DEF Sha!sha256_update
<1>13. PICK x : x = s \o e
    OBVIOUS
<1>14. /\ x \in Seq(Int) /\ Len(x) = p + Len(t)
       /\ \A j \in 1 .. Len(t) : t[j] = x[p + j]
  <2>1. /\ s \o e \in Seq(Int) /\ Len(s \o e) = Len(s) + Len(e)
        /\ \A j \in 1 .. Len(e) : (s \o e)[Len(s) + j] = e[j]
      BY ONLY s \in Seq(Int), e \in Seq(Int), TwoMessages
  <2>2. x \in Seq(Int) /\ Len(x) = n + m /\ \A j \in 1 .. m : x[n + j] = e[j]
      BY ONLY <1>1, <1>13, <2>1
  <2>3. n + m = p + (m - f)
      BY <1>3
  <2>4. ASSUME NEW j \in 1 .. Len(t) PROVE t[j] = x[p + j]
    <3>1. j \in Int /\ 1 <= j /\ j <= m - f
        BY <1>8
    <3>2. f + j \in 1 .. m /\ n + (f + j) = p + j
      <4>1. p = n + f /\ n \in Int /\ f \in Int /\ 0 <= f /\ m \in Int /\ p \in Int
          BY <1>3
      <4>2. f + j \in 1 .. m
          BY ONLY <3>1, <4>1
      <4>3. n + (f + j) = p + j
          BY ONLY <3>1, <4>1
      <4> QED BY <4>2, <4>3
    <3> QED BY <1>8, <2>2, <3>2
  <2> QED BY <1>8, <2>2, <2>3, <2>4
<1>15. FirstBytes(a \o first, x, p)
    BY <1>7, <1>13
<1>16. PICK h : h = a \o first
    OBVIOUS
<1>17. FirstBytes(h, x, p)
    BY <1>15, <1>16
<1>18. /\ FirstBytes(h \o SubSeq(t, 1, whole), x, Len(x) - (Len(x) % Block))
       /\ LastBytes(Sha!Put(g, 0, Sha!Behind(t, whole)), x, Len(x) % Block)
    BY ONLY <1>4, <1>7, <1>9, <1>14, <1>17, t \in Seq(Int), p \in Nat, RestTaken
<1> QED BY <1>12, <1>13, <1>16, <1>18

\* The bytes of a message are taken in order, however they come.
LEMMA UpdateTakes ==
    ASSUME NEW c, NEW s \in Seq(Int), Digesting(c, s), NEW e \in Seq(Int)
    PROVE  /\ Digesting(Sha!sha256_update(c, e), s \o e)
           /\ Sha!sha256_update(c, e).total = Sha!Added(c.total, Len(e))
<1>0. Block \in Nat \ {0} /\ Word \in Nat \ {0} /\ Word % Block = 0
    BY ShaAssumption
<1>1. PICK n \in Nat, m \in Nat, r \in 0 .. Block - 1 : n = Len(s) /\ m = Len(e) /\ r = n % Block
  <2>1. Len(s) \in Nat /\ Len(e) \in Nat
      OBVIOUS
  <2>2. \A z \in Nat : z % Block \in 0 .. Block - 1
      BY <1>0
  <2> QED BY <2>1, <2>2
<1>2. LET d == Sha!sha256_update(c, e) IN
          /\ FirstBytes(d.compressed, s \o e, Len(s \o e) - (Len(s \o e) % Block))
          /\ LastBytes(d.buffer, s \o e, Len(s \o e) % Block)
  <2>1. CASE r = 0
      BY <1>1, <2>1, UpdateAligned
  <2>2. CASE r > 0 /\ m >= Block - r
      BY <1>1, <2>2, UpdateCompletes
  <2>3. CASE r > 0 /\ m < Block - r
      BY <1>1, <2>3, UpdateBegun
  <2>4. m >= Block - r \/ m < Block - r
      BY <1>0
  <2> QED BY <2>1, <2>2, <2>3, <2>4
<1>3. Sha!sha256_update(c, e).total = Sha!Added(c.total, Len(e))
    BY DEF Sha!sha256_update
<1>4. PICK t \in Nat : t = c.total[1] /\ t % Block = n % Block
    BY <1>1 DEF Digesting
<1>5. Sha!Added(c.total, Len(e))[1] = (t + m) % Word
    BY <1>1, <1>4 DEF Sha!Added
<1>6. (t + m) % Word \in Nat /\ t + m \in Nat
    BY <1>0
<1>7. ((t + m) % Word) % Block = (t + m) % Block
  <2>1. PICK z \in Nat : z = t + m
      BY <1>6
  <2>2. (z % Word) % Block = z % Block
      BY ONLY <1>0, z \in Nat, ModMultiple
  <2> QED BY <2>1, <2>2
<1>8. (t + m) % Block = (n + m) % Block
  <2>1. t % Block = n % Block /\ Block \in Nat \ {0}
      BY <1>0, <1>4
  <2> QED BY ONLY <2>1, t \in Nat, n \in Nat, m \in Nat, SameRemainder
<1>9. Len(s \o e) = n + m
    BY <1>1, TwoMessages
<1> QED BY <1>2, <1>3, <1>5, <1>6, <1>7, <1>8, <1>9 DEF Digesting

\* Eight times a number below 8 V, in digits of 8 V.
LEMMA EightTimes ==
    ASSUME NEW V \in Nat \ {0}, NEW W, W = 8 * V, NEW n \in Nat
    PROVE  /\ n \div V \in Nat /\ n % V \in 0 .. V - 1 /\ n = (V * (n \div V)) + (n % V)
           /\ (n * 8) % W = 8 * (n % V)
<1>1. PICK a \in Nat, s \in 0 .. V - 1 : a = n \div V /\ s = n % V /\ n = (V * a) + s
    BY DivMod
<1>2. n * 8 = ((8 * V) * a) + (8 * s)
  <2>1. PICK x \in Nat : x = V * a
      OBVIOUS
  <2>2. (8 * V) * a = 8 * x
      BY <2>1
  <2>3. n = x + s /\ s \in Int
      BY <1>1, <2>1
  <2>4. n * 8 = (8 * x) + (8 * s)
      BY ONLY <2>3, x \in Nat
  <2> QED BY <2>2, <2>4
<1>3. n * 8 = (W * a) + (8 * s)
    BY <1>2
<1>4. W \in Nat \ {0} /\ 8 * s \in 0 .. W - 1 /\ n * 8 \in Nat
    OBVIOUS
<1>5. (n * 8) % W = 8 * s /\ (n * 8) \div W = a
  <2>1. PICK m \in Nat, r \in 0 .. W - 1 : m = n * 8 /\ r = 8 * s
      BY <1>4
  <2>2. m = (W * a) + r
      BY <1>3, <2>1
  <2>3. m % W = r /\ m \div W = a
      BY ONLY <1>4, <2>2, m \in Nat, r \in 0 .. W - 1, a \in Nat, Quotient
  <2> QED BY <2>1, <2>3
<1> QED BY <1>1, <1>5

\* x and y are the two words of eight times n.
BitWords(x, y, n, W) ==
    /\ x = ((8 * n) % (W * W)) \div W /\ y = ((8 * n) % (W * W)) % W
    /\ x \in Nat /\ y \in Nat

\* The number of bits in two words, from the number of bytes in two words.
LEMMA BitLength ==
    ASSUME NEW W \in Nat \ {0}, W % 8 = 0, NEW n \in Nat,
           NEW low, low = n % W, NEW high, high = (n \div W) % W
    PROVE  BitWords(low \div (W \div 8) + ((high * 8) % W), (low * 8) % W, n, W)
<1>1. PICK V \in Nat \ {0} : V = W \div 8 /\ W = 8 * V
  <2>0. 8 \in Nat \ {0}
      OBVIOUS
  <2>1. PICK v \in Nat, z \in 0 .. 8 - 1 : v = W \div 8 /\ z = W % 8 /\ W = (8 * v) + z
      BY <2>0, DivMod
  <2>2. W = 8 * v /\ v # 0
      BY <2>1
  <2> QED BY <2>1, <2>2
<1>2. PICK q \in Nat : q = n \div W /\ low \in 0 .. W - 1 /\ n = (W * q) + low
  <2>1. PICK q \in Nat, r \in 0 .. W - 1 : q = n \div W /\ r = n % W /\ n = (W * q) + r
      BY DivMod
  <2> QED BY <2>1
<1>3. PICK p \in Nat : high \in 0 .. W - 1 /\ q = (W * p) + high
  <2>1. PICK p \in Nat, r \in 0 .. W - 1 : p = q \div W /\ r = q % W /\ q = (W * p) + r
      BY DivMod
  <2> QED BY <1>2, <2>1
<1>4. low \in Nat /\ high \in Nat /\ low < W
    BY <1>2, <1>3
<1>5. PICK a \in Nat, s \in 0 .. V - 1 :
         a = low \div V /\ low = (V * a) + s /\ (low * 8) % W = 8 * s
  <2>1. W = 8 * V /\ low \in Nat
      BY <1>1, <1>4
  <2>2. /\ low \div V \in Nat /\ low % V \in 0 .. V - 1
        /\ low = (V * (low \div V)) + (low % V) /\ (low * 8) % W = 8 * (low % V)
      BY ONLY <2>1, V \in Nat \ {0}, EightTimes
  <2> QED BY <2>2
<1>6. PICK d \in Nat, z \in 0 .. V - 1 : high = (V * d) + z /\ (high * 8) % W = 8 * z
  <2>1. W = 8 * V /\ high \in Nat
      BY <1>1, <1>4
  <2>2. /\ high \div V \in Nat /\ high % V \in 0 .. V - 1
        /\ high = (V * (high \div V)) + (high % V) /\ (high * 8) % W = 8 * (high % V)
      BY ONLY <2>1, V \in Nat \ {0}, EightTimes
  <2> QED BY <2>2
<1>7. a <= 7
  <2>1. SUFFICES ASSUME a >= 8 PROVE FALSE
      OBVIOUS
  <2>2. PICK c \in Nat : c = a - 8 /\ a = 8 + c
      BY <2>1
  <2>3. V * a = (8 * V) + (V * c)
      BY <2>2
  <2>4. PICK x \in Nat, y \in Nat : x = V * a /\ y = V * c
      OBVIOUS
  <2>5. low = x + s /\ x = W + y /\ s \in Nat
      BY <1>1, <1>5, <2>3, <2>4
  <2> QED BY ONLY <1>4, <2>5, y \in Nat, W \in Nat
<1>8. PICK h \in 0 .. W - 1 : h = a + (8 * z)
  <2>1. z <= V - 1 /\ z \in Nat
      OBVIOUS
  <2> QED BY <1>1, <1>7, <2>1
<1>9. PICK l \in 0 .. W - 1 : l = 8 * s
  <2>1. s <= V - 1 /\ s \in Nat
      OBVIOUS
  <2> QED BY <1>1, <2>1
<1>10. 8 * n = ((W * W) * ((8 * p) + d)) + ((W * h) + l)
  <2>0. s \in Int /\ z \in Int /\ V \in Int /\ a \in Int /\ p \in Int /\ d \in Int
      OBVIOUS
  <2>1. 8 * (((8 * V) * (((8 * V) * p) + ((V * d) + z))) + ((V * a) + s))
        = (((8 * V) * (8 * V)) * ((8 * p) + d)) + (((8 * V) * (a + (8 * z))) + (8 * s))
      BY ONLY <2>0
  <2> QED BY <1>1, <1>2, <1>3, <1>5, <1>6, <1>8, <1>9, <2>1
<1>11. PICK m \in Nat : m = (W * h) + l
    OBVIOUS
<1>12. W * W \in Nat \ {0} /\ m \in 0 .. (W * W) - 1
  <2>1. PICK c \in Nat : c = W - 1 - h
      OBVIOUS
  <2>2. W * W = (W * h) + (W * c) + W
    <3>1. W = h + c + 1
        BY <2>1
    <3>2. W * (h + c + 1) = (W * h) + (W * c) + W
        OBVIOUS
    <3> QED BY <3>1, <3>2
  <2>3. PICK x \in Nat, y \in Nat, w \in Nat : x = W * h /\ y = W * c /\ w = W * W
      OBVIOUS
  <2>4. m = x + l /\ w = x + y + W /\ l <= W - 1
      BY <1>11, <2>2, <2>3
  <2>5. m <= w - 1 /\ w # 0
      BY ONLY <2>4, x \in Nat, y \in Nat, w \in Nat, W \in Nat \ {0}, l \in 0 .. W - 1
  <2> QED BY <2>3, <2>5
<1>13. (8 * n) % (W * W) = m
  <2>1. PICK N \in Nat, D \in Nat \ {0}, e \in Nat : N = 8 * n /\ D = W * W /\ e = (8 * p) + d
      BY <1>12
  <2>2. N = (D * e) + m /\ m \in 0 .. D - 1
      BY <1>10, <1>11, <1>12, <2>1
  <2>3. N % D = m
      BY ONLY <2>2, N \in Nat, D \in Nat \ {0}, e \in Nat, Quotient
  <2> QED BY <2>1, <2>3
<1>14. m \div W = h /\ m % W = l
  <2>1. h \in Nat
      OBVIOUS
  <2> QED BY ONLY <1>11, <2>1, W \in Nat \ {0}, l \in 0 .. W - 1, Quotient
<1>15. low \div (W \div 8) + ((high * 8) % W) = h
    BY <1>1, <1>5, <1>6, <1>8
<1>16. (low * 8) % W = l
    BY <1>5, <1>9
<1>17. h \in Nat /\ l \in Nat
    OBVIOUS
<1> QED BY ONLY <1>13, <1>14, <1>15, <1>16, <1>17 DEF BitWords

\* The two words of total count the bytes.
LEMMA TotalCounts ==
    ASSUME NEW n \in Nat, NEW m \in 0 .. Word - 1,
           NEW t, t = <<n % Word, (n \div Word) % Word>>
    PROVE  Sha!Added(t, m) = <<(n + m) % Word, ((n + m) \div Word) % Word>>
<1>0. Word \in Nat \ {0}
    BY ShaAssumption
<1>1. PICK q \in Nat, r \in 0 .. Word - 1 : q = n \div Word /\ r = n % Word /\ n = (Word * q) + r
    BY <1>0, DivMod
<1>2. PICK x \in Nat : x = Word * q /\ x + Word = Word * (q + 1)
    BY <1>0
<1>3. n = x + r /\ m \in Nat /\ n + m \in Nat
    BY <1>0, <1>1, <1>2
<1>4. CASE r + m < Word
  <2>1. PICK y \in 0 .. Word - 1 : y = r + m
      BY <1>0, <1>4
  <2>2. n + m = (Word * q) + y
      BY <1>2, <1>3, <2>1
  <2>3. (n + m) % Word = y /\ (n + m) \div Word = q
      BY ONLY <1>0, <1>3, <2>2, y \in 0 .. Word - 1, q \in Nat, Quotient
  <2>4. y = (Word * 0) + y /\ 0 \in Nat /\ y \in Nat
      BY <1>0
  <2>5. y % Word = y
      BY ONLY <1>0, <2>4, y \in 0 .. Word - 1, Quotient
  <2>6. ~(y < m)
      BY <2>1, <1>3
  <2>7. (t[1] + m) % Word = y /\ t[2] = q % Word
      BY <1>1, <2>1, <2>5
  <2> QED BY <2>3, <2>6, <2>7 DEF Sha!Added
<1>5. CASE ~(r + m < Word)
  <2>1. PICK y \in 0 .. Word - 1 : y = (r + m) - Word
      BY <1>0, <1>5
  <2>2. n + m = (Word * (q + 1)) + y /\ q + 1 \in Nat
      BY <1>0, <1>2, <1>3, <2>1
  <2>3. (n + m) % Word = y /\ (n + m) \div Word = q + 1
      BY ONLY <1>0, <1>3, <2>2, y \in 0 .. Word - 1, Quotient
  <2>4. r + m = (Word * 1) + y /\ 1 \in Nat /\ r + m \in Nat
      BY <1>0, <2>1
  <2>5. (r + m) % Word = y
      BY ONLY <1>0, <2>4, y \in 0 .. Word - 1, Quotient
  <2>6. y < m
      BY <1>0, <2>1, <1>3
  <2>7. (t[1] + m) % Word = y /\ t[2] = q % Word
      BY <1>1, <2>5
  <2>8. ((q % Word) + 1) % Word = (q + 1) % Word
    <3>1. PICK z \in 0 .. Word - 1 : z = q % Word
        BY <1>0
    <3>2. z = (Word * 0) + z /\ 0 \in Nat /\ z \in Nat /\ 1 \in Nat
        BY <1>0
    <3>3. z % Word = q % Word
        BY ONLY <1>0, <3>1, <3>2, z \in 0 .. Word - 1, Quotient
    <3>4. (z + 1) % Word = (q + 1) % Word
      <4>1. PICK w \in Nat \ {0} : w = Word
          BY <1>0
      <4>2. z % w = q % w /\ z \in Nat /\ q \in Nat /\ 1 \in Nat
          BY <3>2, <3>3, <4>1
      <4>3. (z + 1) % w = (q + 1) % w
          BY ONLY <4>2, w \in Nat \ {0}, SameRemainder
      <4> QED BY <4>1, <4>3
    <3> QED BY <3>1, <3>4
  <2> QED BY <2>3, <2>6, <2>7, <2>8 DEF Sha!Added
<1> QED BY <1>4, <1>5

\* The padding leaves room for the length and ends a block; no other number of
\* zeros below Block does.
LEMMA PaddingFits ==
    ASSUME NEW n \in Nat, NEW padn, padn = Sha!Padding(n % Block)
    PROVE  /\ padn \in 1 .. Block /\ (n + padn + 2) % Block = 0
           /\ (CHOOSE z \in 0 .. Block - 1 : (n + 1 + z + 2) % Block = 0) = padn - 1
<1>0. Block \in Nat \ {0} /\ Block > 2 /\ Block \in Int
    BY ShaAssumption
<1>1. PICK q \in Nat, r \in 0 .. Block - 1 : q = n \div Block /\ r = n % Block /\ n = (Block * q) + r
    BY <1>0, DivMod
<1>2. PICK x \in Nat : x = Block * q /\ Block * (q + 1) = x + Block /\ Block * (q + 2) = x + 2 * Block
    BY <1>0
<1>3. n = x + r /\ r \in Int /\ 0 <= r /\ r <= Block - 1
    BY <1>0, <1>1, <1>2
<1>4. padn = IF r < Block - 2 THEN Block - 2 - r ELSE 2 * Block - 2 - r
    BY <1>1 DEF Sha!Padding
<1>5. padn \in 1 .. Block
  <2>1. CASE r < Block - 2
      BY <1>0, <1>3, <1>4, <2>1
  <2>2. CASE ~(r < Block - 2)
      BY <1>0, <1>3, <1>4, <2>2
  <2> QED BY <2>1, <2>2
<1>6. n + padn + 2 = x + Block \/ n + padn + 2 = x + 2 * Block
  <2>1. CASE r < Block - 2
      BY <1>0, <1>3, <1>4, <2>1
  <2>2. CASE ~(r < Block - 2)
      BY <1>0, <1>3, <1>4, <2>2
  <2> QED BY <2>1, <2>2
<1>7. PICK y \in Nat : y = n + padn + 2
    BY <1>5
<1>8. y % Block = 0
  <2>1. PICK v \in Nat : y = Block * v
      BY <1>2, <1>6, <1>7
  <2>2. y = (Block * v) + 0 /\ 0 \in 0 .. Block - 1
      BY <1>0, <2>1
  <2> QED BY ONLY <1>0, <2>2, y \in Nat, v \in Nat, Quotient
<1>9. padn - 1 \in 0 .. Block - 1 /\ (n + 1 + (padn - 1) + 2) % Block = 0
  <2>1. n + 1 + (padn - 1) + 2 = y
      BY <1>5, <1>7
  <2>2. padn - 1 \in 0 .. Block - 1
      BY <1>0, <1>5
  <2> QED BY <1>8, <2>1, <2>2
<1>10. ASSUME NEW z \in 0 .. Block - 1, (n + 1 + z + 2) % Block = 0
       PROVE  z = padn - 1
  <2>0. z \in Int /\ 0 <= z /\ z <= Block - 1 /\ padn \in Int /\ 1 <= padn /\ padn <= Block
      BY <1>0, <1>5
  <2>1. PICK u \in Nat : u = n + 1 + z + 2 /\ u % Block = 0
      BY <1>10, <2>0
  <2>2. \A v, w, e \in Nat : v % Block = 0 /\ w % Block = 0 /\ w = v + e /\ e < Block => e = 0
    <3> TAKE v, w, e \in Nat
    <3> HAVE v % Block = 0 /\ w % Block = 0 /\ w = v + e /\ e < Block
    <3>1. (v + e) % Block = e % Block
        BY ONLY <1>0, v \in Nat, e \in Nat, v % Block = 0, Aligned
    <3>2. e \in 0 .. Block - 1 /\ e = (Block * 0) + e /\ 0 \in Nat
        BY <1>0
    <3>3. e % Block = e
        BY ONLY <1>0, <3>2, e \in Nat, Quotient
    <3> QED BY <3>1, <3>3
  <2>3. CASE z <= padn - 1
    <3>1. PICK e \in Nat : e = padn - 1 - z
        BY <2>0, <2>3
    <3>2. y = u + e /\ e < Block
        BY <1>0, <1>7, <2>0, <2>1, <3>1
    <3>3. e = 0
        BY <1>8, <2>1, <2>2, <3>2
    <3> QED BY <2>0, <3>1, <3>3
  <2>4. CASE ~(z <= padn - 1)
    <3>1. PICK e \in Nat : e = z - (padn - 1)
        BY <2>0, <2>4
    <3>2. u = y + e /\ e < Block
        BY <1>0, <1>7, <2>0, <2>1, <3>1
    <3>3. e = 0
        BY <1>8, <2>1, <2>2, <3>2
    <3> QED BY <2>0, <3>1, <3>3
  <2> QED BY <2>3, <2>4
<1>11. (CHOOSE z \in 0 .. Block - 1 : (n + 1 + z + 2) % Block = 0) = padn - 1
    BY <1>9, <1>10
<1> QED BY <1>5, <1>7, <1>8, <1>11

\* The message, the mark, the zeros and the length are the padded message.
LEMMA PaddedMessage ==
    ASSUME NEW s \in Seq(Int), NEW padn, padn = Sha!Padding(Len(s) % Block),
           NEW pad, pad = [j \in 1 .. padn |-> IF j = 1 THEN Sha!Mark ELSE 0],
           NEW l, l = <<((8 * Len(s)) % (Word * Word)) \div Word, ((8 * Len(s)) % (Word * Word)) % Word>>
    PROVE  (s \o pad) \o l = Sha!Padded(s)
<1>1. PICK n \in Nat : n = Len(s)
  <2>1. Len(s) \in Nat
      OBVIOUS
  <2> QED BY <2>1
<1>2. padn \in 1 .. Block /\ (CHOOSE z \in 0 .. Block - 1 : (n + 1 + z + 2) % Block = 0) = padn - 1
    BY <1>1, PaddingFits
<1>3. PICK y \in Nat : y = padn - 1 /\ padn = y + 1
    BY <1>2
<1>4. PICK zs \in Seq(Int) : zs = [j \in 1 .. y |-> 0] /\ Len(zs) = y /\ \A j \in 1 .. y : zs[j] = 0
  <2>1. [j \in 1 .. y |-> 0] \in [1 .. y -> Int]
      OBVIOUS
  <2>2. PICK z : z = [j \in 1 .. y |-> 0]
      OBVIOUS
  <2>3. z \in Seq(Int) /\ Len(z) = y /\ \A j \in 1 .. y : z[j] = 0
      BY <2>1, <2>2
  <2> QED BY <2>2, <2>3
<1>5. Word \in Int /\ Sha!Mark = Word
    BY ShaAssumption DEF Sha!Mark
<1>6. PICK m \in Seq(Int) : m = <<Sha!Mark>> /\ Len(m) = 1 /\ m[1] = Word
  <2>1. PICK w \in Int : w = Sha!Mark /\ w = Word
      BY <1>5
  <2>2. <<w>> \in Seq(Int) /\ Len(<<w>>) = 1 /\ <<w>>[1] = w
      OBVIOUS
  <2> QED BY <2>1, <2>2
<1>7. PICK p \in Seq(Int) : /\ p = pad /\ Len(p) = y + 1 /\ p[1] = Word
                            /\ \A j \in 1 .. y : p[1 + j] = 0
  <2>1. pad = [j \in 1 .. y + 1 |-> IF j = 1 THEN Word ELSE 0]
      BY <1>3, <1>5
  <2>2. pad \in [1 .. y + 1 -> Int] /\ y + 1 \in Nat
      BY <1>5, <2>1
  <2>3. pad \in Seq(Int) /\ Len(pad) = y + 1
      BY ONLY <2>2
  <2>4. 1 \in 1 .. y + 1 /\ \A j \in 1 .. y : 1 + j \in 1 .. y + 1 /\ 1 + j # 1
      OBVIOUS
  <2>5. pad[1] = Word /\ \A j \in 1 .. y : pad[1 + j] = 0
      BY <2>1, <2>4
  <2> QED BY <2>3, <2>5
<1>8. p = m \o zs
  <2>0. /\ m \o zs \in Seq(Int) /\ Len(m \o zs) = Len(m) + Len(zs)
        /\ \A j \in 1 .. Len(m) : (m \o zs)[j] = m[j]
        /\ \A j \in 1 .. Len(zs) : (m \o zs)[Len(m) + j] = zs[j]
      BY ONLY m \in Seq(Int), zs \in Seq(Int), TwoMessages
  <2>1. /\ m \o zs \in Seq(Int) /\ Len(m \o zs) = 1 + y
        /\ \A j \in 1 .. 1 : (m \o zs)[j] = m[j]
        /\ \A j \in 1 .. y : (m \o zs)[1 + j] = zs[j]
      BY <1>4, <1>6, <2>0
  <2>2. ASSUME NEW j \in 1 .. y + 1 PROVE p[j] = (m \o zs)[j]
    <3>1. CASE j = 1
        BY <1>6, <1>7, <2>1, <3>1
    <3>2. CASE j # 1
      <4>1. PICK h \in 1 .. y : h = j - 1 /\ j = 1 + h
          BY <3>2
      <4> QED BY <1>4, <1>7, <2>1, <4>1
    <3> QED BY <3>1, <3>2
  <2>3. PICK g \in Seq(Int) : g = m \o zs /\ Len(g) = 1 + y
      BY <2>1
  <2>4. Len(p) = Len(g) /\ \A j \in 1 .. Len(p) : p[j] = g[j]
    <3>1. Len(p) = y + 1 /\ Len(g) = y + 1 /\ \A j \in 1 .. y + 1 : p[j] = g[j]
      <4>1. Len(p) = y + 1
          BY <1>7
      <4>2. Len(g) = y + 1
          BY <2>3
      <4>3. \A j \in 1 .. y + 1 : p[j] = g[j]
          BY ONLY <2>2, <2>3
      <4> QED BY ONLY <4>1, <4>2, <4>3
    <3> QED BY ONLY <3>1
  <2>5. p = g
      BY ONLY <2>4, p \in Seq(Int), g \in Seq(Int), SameText
  <2> QED BY <2>3, <2>5
<1>9. s \o (m \o zs) = (s \o m) \o zs
    OBVIOUS
<1>10. Sha!Padded(s) = ((s \o m) \o zs) \o l
  <2>1. (CHOOSE z \in 0 .. Block - 1 : (Len(s) + 1 + z + 2) % Block = 0) = y
      BY <1>1, <1>2, <1>3
  <2> QED BY <1>4, <1>6, <2>1 DEF Sha!Padded
<1> QED BY <1>7, <1>8, <1>9, <1>10

\* Until the end of a message the context holds its bytes, and total counts them;
\* afterwards the padded message is compressed.
ShaInv ==
    /\ message \in Seq(Int)
    /\ DOMAIN buffer = 0 .. Block - 1
    /\ ~ended =>
        /\ Digesting(Sha!Context, message)
        /\ total = <<Len(message) % Word, (Len(message) \div Word) % Word>>
    /\ ended => compressed = Sha!Padded(message)

\* A context without bytes.
LEMMA EmptyContext ==
    ASSUME NEW c, c.total = <<0, 0>>, c.compressed = <<>>, DOMAIN c.buffer = 0 .. Block - 1
    PROVE  /\ Digesting(c, <<>>)
           /\ c.total = <<Len(<<>>) % Word, (Len(<<>>) \div Word) % Word>>
<1>1. Block \in Nat \ {0} /\ Word \in Nat \ {0}
    BY ShaAssumption
<1>2. ASSUME NEW d \in Nat \ {0} PROVE 0 % d = 0 /\ 0 \div d = 0
  <2>1. 0 = (d * 0) + 0 /\ 0 \in 0 .. d - 1 /\ 0 \in Nat
      OBVIOUS
  <2> QED BY ONLY <2>1, d \in Nat \ {0}, Quotient
<1>3. Len(<<>>) = 0 /\ <<>> \in Seq(Int)
    OBVIOUS
<1>4. 0 % Block = 0 /\ 0 % Word = 0 /\ 0 \div Word = 0
    BY <1>1, <1>2
<1>5. FirstBytes(<<>>, <<>>, 0)
    BY <1>3 DEF FirstBytes
<1>6. LastBytes(c.buffer, <<>>, 0)
    BY DEF LastBytes
<1> QED BY <1>3, <1>4, <1>5, <1>6 DEF Digesting

\* Before the first message the invariant holds.
LEMMA ShaBegins == Sha!Init => ShaInv
<1> SUFFICES ASSUME Sha!Init PROVE ShaInv
    OBVIOUS
<1>1. /\ Sha!Context.total = <<0, 0>> /\ Sha!Context.compressed = <<>>
      /\ DOMAIN Sha!Context.buffer = 0 .. Block - 1
    BY DEF Sha!Init, Sha!Context
<1>2. Digesting(Sha!Context, <<>>) /\ Sha!Context.total = <<Len(<<>>) % Word, (Len(<<>>) \div Word) % Word>>
    BY <1>1, EmptyContext
<1>3. Sha!Context.total = total /\ message = <<>> /\ ~ended /\ <<>> \in Seq(Int) /\ DOMAIN buffer = 0 .. Block - 1
    BY DEF Sha!Init, Sha!Context
<1> QED BY <1>2, <1>3 DEF ShaInv

\* The context of the next state.
LEMMA NextContext ==
    ASSUME NEW c, Sha!SetContext(c), NEW s, Digesting(c, s)
    PROVE  Digesting(Sha!Context', s) /\ DOMAIN buffer' = 0 .. Block - 1 /\ total' = c.total
<1>1. /\ Sha!Context'.total = c.total /\ Sha!Context'.buffer = c.buffer
      /\ Sha!Context'.compressed = c.compressed /\ buffer' = c.buffer /\ total' = c.total
    BY DEF Sha!SetContext, Sha!Context
<1> QED BY <1>1 DEF Digesting, LastBytes

\* sha256_update keeps the invariant.
LEMMA ShaUpdate ==
    ASSUME ShaInv, NEW m \in 0 .. MaxPiece, Sha!Update(m)
    PROVE  ShaInv'
<1>0. m \in 0 .. Word - 1 /\ m \in Nat
    BY ShaAssumption
<1>1. /\ ~ended /\ message \in Seq(Int) /\ Digesting(Sha!Context, message)
      /\ total = <<Len(message) % Word, (Len(message) \div Word) % Word>>
    BY DEF ShaInv, Sha!Update
<1>2. PICK n \in Nat : n = Len(message)
  <2>1. Len(message) \in Nat
      BY <1>1
  <2> QED BY <2>1
<1>3. PICK e \in Seq(Int) : e = Sha!Piece(m) /\ Len(e) = m
  <2>1. PICK e : e = [j \in 1 .. m |-> -(n + j)]
      OBVIOUS
  <2>2. e \in [1 .. m -> Int]
    <3>1. \A j \in 1 .. m : -(n + j) \in Int
        OBVIOUS
    <3> QED BY <2>1, <3>1
  <2>3. e \in Seq(Int) /\ Len(e) = m
      BY ONLY <1>0, <2>2
  <2> QED BY <1>2, <2>1, <2>3 DEF Sha!Piece
<1>4. PICK c : c = Sha!sha256_update(Sha!Context, e)
    OBVIOUS
<1>5. Sha!SetContext(c) /\ message' = message \o e /\ ended' = ended
    BY <1>3, <1>4 DEF Sha!Update
<1>6. Digesting(c, message \o e) /\ c.total = Sha!Added(Sha!Context.total, Len(e))
    BY <1>1, <1>3, <1>4, UpdateTakes
<1>7. Sha!Context.total = total
    BY DEF Sha!Context
<1>8. Sha!Added(total, m) = <<(n + m) % Word, ((n + m) \div Word) % Word>>
    BY <1>0, <1>1, <1>2, TotalCounts
<1>9. message' \in Seq(Int) /\ Len(message') = n + m
    BY <1>1, <1>2, <1>3, <1>5, TwoMessages
<1>10. Digesting(Sha!Context', message') /\ DOMAIN buffer' = 0 .. Block - 1 /\ total' = c.total
    BY <1>5, <1>6, NextContext
<1>11. total' = <<Len(message') % Word, (Len(message') \div Word) % Word>>
    BY <1>3, <1>6, <1>7, <1>8, <1>9, <1>10
<1>12. ~ended'
    BY <1>1, <1>5
<1> QED BY <1>9, <1>10, <1>11, <1>12 DEF ShaInv

\* sha256_end compresses the padded message.
LEMMA ShaEnd ==
    ASSUME ShaInv, Sha!End
    PROVE  ShaInv'
<1>0. Block \in Nat \ {0} /\ Word \in Nat \ {0} /\ Word % 8 = 0
    BY ShaAssumption
<1>1. /\ message \in Seq(Int) /\ Digesting(Sha!Context, message)
      /\ total = <<Len(message) % Word, (Len(message) \div Word) % Word>>
    BY DEF ShaInv, Sha!End
<1>2. PICK s \in Seq(Int), n \in Nat : s = message /\ n = Len(s)
  <2>1. Len(message) \in Nat
      BY <1>1
  <2> QED BY <1>1, <2>1
<1>3. total[1] % Block = n % Block
    BY <1>1, <1>2 DEF Digesting, Sha!Context
<1>4. PICK padn : padn = Sha!Padding(n % Block)
    OBVIOUS
<1>5. padn \in 1 .. Block /\ (n + padn + 2) % Block = 0
    BY <1>4, PaddingFits
<1>6. PICK pad : pad = [j \in 1 .. padn |-> IF j = 1 THEN Sha!Mark ELSE 0]
    OBVIOUS
<1>7. pad \in Seq(Int) /\ Len(pad) = padn
  <2>1. \A j \in 1 .. padn : (IF j = 1 THEN Sha!Mark ELSE 0) \in Int
      BY <1>0 DEF Sha!Mark
  <2>2. pad \in [1 .. padn -> Int]
      BY <1>6, <2>1
  <2>3. padn \in Nat
      BY <1>5
  <2> QED BY ONLY <2>2, <2>3
<1>8. PICK l : l = <<((8 * n) % (Word * Word)) \div Word, ((8 * n) % (Word * Word)) % Word>>
    OBVIOUS
<1>9. Sha!msglen = l /\ l \in Seq(Int) /\ Len(l) = 2
  <2>1. total[1] = n % Word /\ total[2] = (n \div Word) % Word
      BY <1>1, <1>2
  <2>2. PICK x, y : /\ x = total[1] \div (Word \div 8) + ((total[2] * 8) % Word)
                    /\ y = (total[1] * 8) % Word
      OBVIOUS
  <2>3. /\ x = ((8 * n) % (Word * Word)) \div Word /\ y = ((8 * n) % (Word * Word)) % Word
        /\ x \in Nat /\ y \in Nat
    <3>1. BitWords(total[1] \div (Word \div 8) + ((total[2] * 8) % Word), (total[1] * 8) % Word, n, Word)
        BY <1>0, <2>1, BitLength
    <3> QED BY <2>2, <3>1 DEF BitWords
  <2>4. <<x, y>> \in Seq(Int) /\ Len(<<x, y>>) = 2
      BY ONLY <2>3
  <2> QED BY <1>8, <2>2, <2>3, <2>4 DEF Sha!msglen
<1>10. PICK c, d : c = Sha!sha256_update(Sha!Context, pad) /\ d = Sha!sha256_update(c, l)
    OBVIOUS
<1>11. Sha!SetContext(d) /\ ended' = TRUE /\ message' = message
    BY <1>3, <1>4, <1>6, <1>9, <1>10 DEF Sha!End
<1>12. Digesting(c, s \o pad) /\ s \o pad \in Seq(Int) /\ Len(s \o pad) = n + padn
    BY <1>1, <1>2, <1>7, <1>10, UpdateTakes, TwoMessages
<1>13. PICK t \in Seq(Int) : t = s \o pad
    BY <1>12
<1>14. Digesting(d, t \o l) /\ t \o l \in Seq(Int) /\ Len(t \o l) = n + padn + 2
  <2>1. Digesting(d, t \o l)
      BY <1>9, <1>10, <1>12, <1>13, UpdateTakes
  <2>2. t \o l \in Seq(Int) /\ Len(t \o l) = Len(t) + Len(l)
      BY <1>9, TwoMessages
  <2> QED BY <1>9, <1>12, <1>13, <2>1, <2>2
<1>15. PICK x \in Seq(Int) : x = t \o l
    BY <1>14
<1>16. d.compressed = x
  <2>1. Len(x) % Block = 0 /\ Len(x) \in Nat
      BY <1>5, <1>14, <1>15
  <2>2. FirstBytes(d.compressed, x, Len(x) - 0)
      BY <1>14, <1>15, <2>1 DEF Digesting
  <2>3. PICK g \in Seq(Int) : g = d.compressed /\ Len(g) = Len(x) /\ \A j \in 1 .. Len(g) : g[j] = x[j]
      BY <2>1, <2>2 DEF FirstBytes
  <2> QED BY <2>3, SameText
<1>17. (s \o pad) \o l = Sha!Padded(s)
  <2>1. padn = Sha!Padding(Len(s) % Block)
      BY <1>2, <1>4
  <2>2. l = <<((8 * Len(s)) % (Word * Word)) \div Word, ((8 * Len(s)) % (Word * Word)) % Word>>
      BY <1>2, <1>8
  <2> QED BY ONLY <1>6, <2>1, <2>2, s \in Seq(Int), PaddedMessage
<1>18. compressed' = d.compressed /\ buffer' = d.buffer
    BY <1>11 DEF Sha!SetContext
<1>19. compressed' = Sha!Padded(message')
  <2>1. compressed' = Sha!Padded(s)
      BY <1>13, <1>15, <1>16, <1>17, <1>18
  <2> QED BY <1>2, <1>11, <2>1 DEF Sha!Padded, Sha!Mark
<1>20. DOMAIN buffer' = 0 .. Block - 1
    BY <1>14, <1>18 DEF Digesting, LastBytes
<1> QED BY <1>1, <1>11, <1>19, <1>20 DEF ShaInv

\* sha256_begin starts a new message with an old buffer.
LEMMA ShaBegin ==
    ASSUME ShaInv, Sha!Begin
    PROVE  ShaInv'
<1>1. /\ DOMAIN buffer' = 0 .. Block - 1 /\ total' = <<0, 0>> /\ compressed' = <<>>
      /\ message' = <<>> /\ ~ended'
    BY DEF ShaInv, Sha!Begin
<1>2. /\ Sha!Context'.total = <<0, 0>> /\ Sha!Context'.compressed = <<>>
      /\ DOMAIN Sha!Context'.buffer = 0 .. Block - 1
    BY <1>1 DEF Sha!Context
<1>3. Digesting(Sha!Context', <<>>) /\ <<0, 0>> = <<Len(<<>>) % Word, (Len(<<>>) \div Word) % Word>>
    BY <1>2, EmptyContext
<1>4. <<>> \in Seq(Int)
    OBVIOUS
<1> QED BY <1>1, <1>3, <1>4 DEF ShaInv

\* The invariant when the digest is the algorithm that runs.
DigestingInv == algorithm = "sha" => ShaInv

\* A step of any of the algorithms keeps the invariant of the digest.
LEMMA DigestingStep ==
    ASSUME DigestingInv, [AnyNext]_allVars
    PROVE  DigestingInv'
<1> SUFFICES ASSUME algorithm' = "sha" PROVE ShaInv'
    BY DEF DigestingInv
<1>1. CASE UNCHANGED allVars
  <2>1. ShaInv
      BY <1>1 DEF DigestingInv, allVars
  <2>2. UNCHANGED <<total, buffer, compressed, message, ended>>
      BY <1>1 DEF allVars, sha
  <2> QED BY <2>1, <2>2 DEF ShaInv, Digesting, Sha!Context, Sha!Padded, Sha!Mark
<1>2. CASE AnyNext
  <2>1. algorithm = "sha" /\ Sha!Next
      BY <1>2 DEF AnyNext
  <2>2. ShaInv
      BY <2>1 DEF DigestingInv
  <2> QED BY <2>1, <2>2, ShaBegin, ShaEnd, ShaUpdate DEF Sha!Next
<1> QED BY <1>1, <1>2

\* sha256_end compresses exactly the padded message of the standard, for messages
\* of every length, in pieces of every length below a word, whatever an earlier
\* message left in the buffer.
THEOREM DigestedAlways == AnySpec => []Digested
<1>1. AnyInit => DigestingInv
    BY ShaBegins DEF AnyInit, DigestingInv
<1>2. DigestingInv /\ [AnyNext]_allVars => DigestingInv'
    BY DigestingStep
<1>3. DigestingInv => Digested
    BY DEF DigestingInv, ShaInv, Digested, Sha!Digested
<1> QED BY <1>1, <1>2, <1>3, PTL DEF AnySpec

-----------------------------------------------------------------------------
\* The command line.
\* FlattenSeq puts the parts one behind the other.
LEMMA Flattened ==
    ASSUME NEW T, NEW N \in Nat, NEW P \in [1 .. N -> Seq(T)], NEW u, Joined(u, P, N)
    PROVE  Cli!FlattenSeq(P) = u[N]
<1>1. Len(P) = N /\ P \in Seq(Seq(T))
    OBVIOUS
<1>2. u[0] = <<>> /\ (\A n \in 1 .. N : u[n] = u[n - 1] \o P[n]) /\ \A n \in 0 .. N : u[n] \in Seq(T)
  <2>1. \A n \in 0 .. N : u[n] = IF n = 0 THEN <<>> ELSE u[n - 1] \o P[n]
      BY DEF Joined
  <2>2. 0 \in 0 .. N /\ \A n \in 1 .. N : n \in 0 .. N /\ n # 0
      OBVIOUS
  <2>3. InPlace(u, P, N, T)
      BY JoinParts
  <2> QED BY <2>1, <2>2, <2>3 DEF InPlace
<1>3. CASE N = 0
  <2>1. P = <<>>
      BY <1>1, <1>3
  <2>2. Cli!FlattenSeq(P) = P
      BY <1>1, <1>3 DEF Cli!FlattenSeq
  <2> QED BY <1>2, <1>3, <2>1, <2>2
<1>4. CASE N # 0
  <2> DEFINE f == CHOOSE h : h = [n \in 1 .. N |-> IF n = 1 THEN P[n] ELSE h[n - 1] \o P[n]]
             h0 == [n \in 1 .. N |-> u[n]]
  <2>1. h0 = [n \in 1 .. N |-> IF n = 1 THEN P[n] ELSE h0[n - 1] \o P[n]]
    <3>1. ASSUME NEW n \in 1 .. N PROVE u[n] = IF n = 1 THEN P[n] ELSE h0[n - 1] \o P[n]
      <4>1. CASE n = 1
        <5>0. 1 \in 1 .. N /\ 1 - 1 = 0
            BY <4>1
        <5>1. u[1] = <<>> \o P[1]
            BY <1>2, <5>0
        <5>2. P[1] \in Seq(T)
            BY <4>1
        <5> QED BY <4>1, <5>1, <5>2
      <4>2. CASE n # 1
        <5>1. n - 1 \in 1 .. N
            BY <4>2
        <5> QED BY <1>2, <4>2, <5>1
      <4> QED BY <4>1, <4>2
    <3> QED BY <3>1
  <2> HIDE DEF h0
  <2>2. f = [n \in 1 .. N |-> IF n = 1 THEN P[n] ELSE f[n - 1] \o P[n]]
      BY <2>1
  <2>3. Cli!FlattenSeq(P) = f[N]
      BY <1>1, <1>4 DEF Cli!FlattenSeq
  <2> HIDE DEF f
  <2> DEFINE R == {m \in Nat : m + 1 <= N => f[m + 1] = u[m + 1]}
  <2>4. \A n \in 1 .. N : f[n] = IF n = 1 THEN P[n] ELSE f[n - 1] \o P[n]
      BY <2>2
  <2>5. 0 \in R
    <3>1. 1 \in 1 .. N /\ 1 - 1 = 0 /\ u[0] = <<>>
        BY <1>2, <1>4
    <3>2. f[1] = P[1] /\ P[1] \in Seq(T)
        BY <2>4, <3>1
    <3>3. u[1] = <<>> \o P[1]
        BY <1>2, <3>1
    <3> QED BY <3>2, <3>3
  <2>6. ASSUME NEW m \in Nat, m \in R PROVE m + 1 \in R
    <3> SUFFICES ASSUME (m + 1) + 1 <= N PROVE f[(m + 1) + 1] = u[(m + 1) + 1]
        OBVIOUS
    <3>1. (m + 1) + 1 \in 1 .. N /\ (m + 1) + 1 # 1 /\ ((m + 1) + 1) - 1 = m + 1 /\ m + 1 <= N
        OBVIOUS
    <3>2. f[m + 1] = u[m + 1]
        BY <2>6, <3>1
    <3>3. f[(m + 1) + 1] = f[m + 1] \o P[(m + 1) + 1]
        BY <2>4, <3>1
    <3>4. u[(m + 1) + 1] = u[m + 1] \o P[(m + 1) + 1]
        BY <1>2, <3>1
    <3> QED BY <3>2, <3>3, <3>4
  <2> HIDE DEF R
  <2>7. \A m \in Nat : m \in R
      BY <2>5, <2>6, SetInduction
  <2>8. N - 1 \in Nat /\ (N - 1) + 1 = N
      BY <1>4
  <2>9. f[N] = u[N]
    <3>1. N - 1 \in R
        BY <2>7, <2>8
    <3>2. (N - 1) + 1 <= N => f[(N - 1) + 1] = u[(N - 1) + 1]
        BY <3>1 DEF R
    <3> QED BY <2>8, <3>2
  <2> QED BY <2>3, <2>9
<1> QED BY <1>3, <1>4

\* The text of the first n of N parts.
Texts(P, N) == CHOOSE u : Joined(u, P, N)

\* The arguments of the first n groups of options of command line v, and the
\* languages in them.
Parts(v) == [g \in 1 .. Len(v) |-> <<v[g][1]>> \o v[g][2]]
Args(v) == Texts(Parts(v), Len(v))
Languages(v) == [g \in 1 .. Len(v) |-> IF v[g][1] = "-l" THEN v[g][2] ELSE <<>>]
Listed(v) == Texts(Languages(v), Len(v))

\* The number of arguments, and of languages, in the first n groups.
ArgsIn(v, n) == Len(Args(v)[n])
LangsIn(v, n) == Len(Listed(v)[n])

\* Everything there is to read, and every language.
AllArgs(v) == Args(v)[Len(v)]
AllLangs(v) == Listed(v)[Len(v)]

\* Group g stands in the arguments behind those before it.
ArgsOf(v, g) ==
    /\ ArgsIn(v, g - 1) \in Nat
    /\ ArgsIn(v, g) = ArgsIn(v, g - 1) + 1 + Len(v[g][2])
    /\ ArgsIn(v, g - 1) + 1 <= Len(AllArgs(v))
    /\ AllArgs(v)[ArgsIn(v, g - 1) + 1] = v[g][1]
    /\ \A y \in 1 .. Len(v[g][2]) :
          /\ ArgsIn(v, g - 1) + 1 + y <= Len(AllArgs(v))
          /\ AllArgs(v)[ArgsIn(v, g - 1) + 1 + y] = v[g][2][y]

\* So do its languages.
LangsOf(v, g) ==
    /\ LangsIn(v, g - 1) \in Nat
    /\ LangsIn(v, g) = LangsIn(v, g - 1) + (IF v[g][1] = "-l" THEN Len(v[g][2]) ELSE 0)
    /\ v[g][1] = "-l" => \A y \in 1 .. Len(v[g][2]) :
          /\ LangsIn(v, g - 1) + y <= Len(AllLangs(v))
          /\ AllLangs(v)[LangsIn(v, g - 1) + y] = v[g][2][y]

\* What is known of a group of options.
LEMMA GroupFacts ==
    ASSUME NEW v \in Given, NEW g \in 1 .. Len(v)
    PROVE  /\ v[g][1] \in STRING /\ v[g][2] \in Seq(STRING) /\ Len(v[g][2]) \in Nat
           /\ WellWritten(v[g], g = Len(v))
           /\ g > 1 /\ Open(v[g - 1]) => v[g][1] \in Dashed
<1>1. v \in Seq(STRING \X Seq(STRING))
    BY GivenAssumption
<1>2. v[g] \in STRING \X Seq(STRING)
    BY <1>1
<1>3. v[g][1] \in STRING /\ v[g][2] \in Seq(STRING)
    BY <1>2
<1> QED BY <1>3, GivenAssumption

\* A text of parts exists.
LEMMA TextsJoin ==
    ASSUME NEW P, NEW N \in Nat
    PROVE  Joined(Texts(P, N), P, N)
<1>1. \E u : Joined(u, P, N)
  <2>1. \E u : u = [n \in 0 .. N |-> IF n = 0 THEN <<>> ELSE u[n - 1] \o P[n]]
      BY JoinExists
  <2> QED BY <2>1 DEF Joined
<1> QED BY <1>1 DEF Texts

\* A text of one word.
LEMMA OneWord ==
    ASSUME NEW T, NEW o \in T
    PROVE  <<o>> \in Seq(T) /\ Len(<<o>>) = 1 /\ <<o>>[1] = o
    OBVIOUS

\* The arguments are the groups in a row.
LEMMA ArgsFacts ==
    ASSUME NEW v \in Given
    PROVE  /\ AllArgs(v) \in Seq(STRING) /\ AllArgs(v) = Cli!FlattenSeq(Parts(v))
           /\ ArgsIn(v, 0) = 0 /\ Len(v) \in Nat /\ DOMAIN v = 1 .. Len(v)
           /\ \A g \in 1 .. Len(v) : ArgsOf(v, g)
<1>1. Len(v) \in Nat /\ DOMAIN v = 1 .. Len(v)
  <2>1. v \in Seq(STRING \X Seq(STRING))
      BY GivenAssumption
  <2> QED BY <2>1
<1>2. ASSUME NEW g \in 1 .. Len(v)
      PROVE  /\ Parts(v)[g] \in Seq(STRING) /\ Len(Parts(v)[g]) = 1 + Len(v[g][2]) /\ Len(v[g][2]) \in Nat
             /\ Parts(v)[g][1] = v[g][1]
             /\ \A y \in 1 .. Len(v[g][2]) : Parts(v)[g][1 + y] = v[g][2][y]
  <2>0. v[g][1] \in STRING /\ v[g][2] \in Seq(STRING)
      BY GroupFacts
  <2>1. PICK o \in STRING, s \in Seq(STRING) : o = v[g][1] /\ s = v[g][2]
      BY <2>0
  <2>2. PICK c \in Seq(STRING) : c = <<o>> /\ Len(c) = 1 /\ c[1] = o
    <3>1. <<o>> \in Seq(STRING) /\ Len(<<o>>) = 1 /\ <<o>>[1] = o
        BY OneWord
    <3> QED BY <3>1
  <2>3. /\ c \o s \in Seq(STRING) /\ Len(c \o s) = Len(c) + Len(s) /\ Len(s) \in Nat
        /\ \A x \in 1 .. Len(c) : (c \o s)[x] = c[x]
        /\ \A x \in 1 .. Len(s) : (c \o s)[Len(c) + x] = s[x]
      BY ONLY c \in Seq(STRING), s \in Seq(STRING), TwoTexts
  <2>4. Parts(v)[g] = c \o s
      BY <2>1, <2>2 DEF Parts
  <2>5. 1 \in 1 .. Len(c)
      BY <2>2
  <2> QED BY <2>1, <2>2, <2>3, <2>4, <2>5
<1>a. PICK N \in Nat : N = Len(v)
    BY <1>1
<1>3. PICK P, u : N = Len(v) /\ P = Parts(v) /\ u = Args(v)
    BY <1>a
<1>4. P \in [1 .. N -> Seq(STRING)] /\ Joined(u, P, N)
  <2>1. P = [g \in 1 .. N |-> P[g]]
      BY <1>3 DEF Parts
  <2>2. \A g \in 1 .. N : P[g] \in Seq(STRING)
      BY <1>2, <1>3
  <2>3. Joined(Texts(P, N), P, N)
      BY TextsJoin
  <2> QED BY <1>3, <2>1, <2>2, <2>3 DEF Args
<1>5. InPlace(u, P, N, STRING)
    BY <1>4, JoinParts
<1>6. Cli!FlattenSeq(P) = u[N]
    BY <1>4, Flattened
<1>7. AllArgs(v) = u[N] /\ \A n : ArgsIn(v, n) = Len(u[n])
    BY <1>3 DEF AllArgs, ArgsIn
<1>8. ASSUME NEW g \in 1 .. N PROVE ArgsOf(v, g)
  <2>1. PICK a \in Nat, m \in Nat : a = Len(u[g - 1]) /\ m = Len(v[g][2]) /\ Len(P[g]) = 1 + m
    <3>1. g - 1 \in 0 .. N
        OBVIOUS
    <3>2. u[g - 1] \in Seq(STRING)
        BY <1>5, <3>1 DEF InPlace
    <3>3. Len(u[g - 1]) \in Nat
        BY <3>2
    <3> QED BY <1>2, <1>3, <3>3
  <2>2. Len(u[g]) = a + (1 + m)
      BY <1>5, <2>1 DEF InPlace
  <2>3. \A y \in 1 .. 1 + m : a + y <= Len(u[N]) /\ u[N][a + y] = P[g][y]
      BY <1>5, <2>1 DEF InPlace
  <2>4. a + 1 <= Len(u[N]) /\ u[N][a + 1] = v[g][1]
    <3>1. 1 \in 1 .. 1 + m
        OBVIOUS
    <3> QED BY <1>2, <1>3, <2>3, <3>1
  <2>5. ASSUME NEW y \in 1 .. m PROVE a + 1 + y <= Len(u[N]) /\ u[N][a + 1 + y] = v[g][2][y]
    <3>1. 1 + y \in 1 .. 1 + m /\ a + (1 + y) = a + 1 + y
        OBVIOUS
    <3>2. P[g][1 + y] = v[g][2][y]
        BY <1>2, <1>3, <2>1
    <3>3. a + (1 + y) <= Len(u[N]) /\ u[N][a + (1 + y)] = P[g][1 + y]
        BY <2>3, <3>1
    <3> QED BY <3>1, <3>2, <3>3
  <2>6. a + (1 + m) = a + 1 + m
      OBVIOUS
  <2> QED BY <1>7, <2>1, <2>2, <2>4, <2>5, <2>6 DEF ArgsOf
<1>9. u[N] \in Seq(STRING) /\ u[0] = <<>> /\ Len(<<>>) = 0
  <2>1. N \in 0 .. N
      OBVIOUS
  <2> QED BY <1>5, <2>1 DEF InPlace
<1> QED BY <1>1, <1>3, <1>6, <1>7, <1>8, <1>9

\* The languages of all groups in a row.
LEMMA LangsFacts ==
    ASSUME NEW v \in Given
    PROVE  /\ AllLangs(v) \in Seq(STRING) /\ AllLangs(v) = Cli!FlattenSeq(Languages(v))
           /\ LangsIn(v, 0) = 0 /\ Len(v) \in Nat
           /\ \A g \in 1 .. Len(v) : LangsOf(v, g)
<1>1. Len(v) \in Nat
  <2>1. v \in Seq(STRING \X Seq(STRING))
      BY GivenAssumption
  <2> QED BY <2>1
<1>a. PICK N \in Nat : N = Len(v)
    BY <1>1
<1>2. PICK P, u : N = Len(v) /\ P = Languages(v) /\ u = Listed(v)
    BY <1>a
<1>3. ASSUME NEW g \in 1 .. N PROVE P[g] = (IF v[g][1] = "-l" THEN v[g][2] ELSE <<>>) /\ P[g] \in Seq(STRING)
  <2>1. v[g][2] \in Seq(STRING) /\ <<>> \in Seq(STRING)
      BY <1>2, GroupFacts
  <2>2. P[g] = IF v[g][1] = "-l" THEN v[g][2] ELSE <<>>
      BY <1>2 DEF Languages
  <2> QED BY <2>1, <2>2
<1>4. P \in [1 .. N -> Seq(STRING)] /\ Joined(u, P, N)
  <2>1. P = [g \in 1 .. N |-> P[g]]
      BY <1>2 DEF Languages
  <2>2. \A g \in 1 .. N : P[g] \in Seq(STRING)
      BY <1>3
  <2>3. Joined(Texts(P, N), P, N)
      BY TextsJoin
  <2> QED BY <1>2, <2>1, <2>2, <2>3 DEF Listed
<1>5. InPlace(u, P, N, STRING)
    BY <1>4, JoinParts
<1>6. Cli!FlattenSeq(P) = u[N]
    BY <1>4, Flattened
<1>7. AllLangs(v) = u[N] /\ \A n : LangsIn(v, n) = Len(u[n])
    BY <1>2 DEF AllLangs, LangsIn
<1>8. ASSUME NEW g \in 1 .. N PROVE LangsOf(v, g)
  <2>1. PICK a \in Nat : a = Len(u[g - 1])
    <3>1. g - 1 \in 0 .. N
        OBVIOUS
    <3>2. u[g - 1] \in Seq(STRING)
        BY <1>5, <3>1 DEF InPlace
    <3> QED BY <3>2
  <2>2. Len(u[g]) = a + Len(P[g])
      BY <1>5, <2>1 DEF InPlace
  <2>3. \A y \in 1 .. Len(P[g]) : a + y <= Len(u[N]) /\ u[N][a + y] = P[g][y]
      BY <1>5, <2>1 DEF InPlace
  <2>4. CASE v[g][1] = "-l"
    <3>1. P[g] = v[g][2]
        BY <1>3, <2>4
    <3> QED BY <1>7, <2>1, <2>2, <2>3, <2>4, <3>1 DEF LangsOf
  <2>5. CASE v[g][1] # "-l"
    <3>1. Len(P[g]) = 0
        BY <1>3, <2>5
    <3> QED BY <1>7, <2>1, <2>2, <2>5, <3>1 DEF LangsOf
  <2> QED BY <2>4, <2>5
<1>9. u[N] \in Seq(STRING) /\ u[0] = <<>> /\ Len(<<>>) = 0
  <2>1. N \in 0 .. N
      OBVIOUS
  <2> QED BY <1>5, <2>1 DEF InPlace
<1> QED BY <1>1, <1>2, <1>6, <1>7, <1>8, <1>9

\* The options that have a value, and those that are flags.
Options == Cli!Valued \cup {"--print-manifest"}
Switches == Cli!Flags \cup {"--print-manifest"}

\* x is the value of option o in the first g groups of v.
ValueIn(v, o, g, x) ==
    \/ x = "" /\ \A h \in 1 .. g : v[h][1] = o => v[h][2] = <<>>
    \/ \E h \in 1 .. g :
          /\ v[h][1] = o /\ v[h][2] # <<>> /\ x = v[h][2][1]
          /\ \A m \in h + 1 .. g : v[m][1] = o => v[m][2] = <<>>

\* The flags in the first g groups of v.
FlagsIn(v, g) == {o \in Switches : \E h \in 1 .. g : v[h][1] = o}

\* The values and the flags are those of the first g groups.
Read(v, g, vals, fl) ==
    /\ \A o \in Options : ValueIn(v, o, g, vals[o])
    /\ fl = FlagsIn(v, g)

\* The first n languages of v in lower case.
Lowered(v, n) == [l \in 1 .. n |-> Lower[AllLangs(v)[l]]]

\* The next argument is the one behind group g.
AtGroup(g) ==
    /\ arg = ArgsIn(given, g) + 1
    /\ Read(given, g, values, flags)
    /\ langs = Lowered(given, LangsIn(given, g))

\* The next argument is the one behind language j of group g.
InLangs(g, j) ==
    /\ given[g][1] = "-l" /\ arg = ArgsIn(given, g - 1) + 2 + j
    /\ Read(given, g, values, flags)
    /\ langs = Lowered(given, LangsIn(given, g - 1) + j)

\* The state of main follows from the groups that were read.
CliInv ==
    /\ given \in Given /\ argv = AllArgs(given) /\ DOMAIN values = Options
    /\ main_pc \in {"args", "langs", "failed", "printed", "download"}
    /\ Len(langs) <= MaxLangs /\ Cli!SomeThread
    /\ main_pc = "args" => \E g \in 0 .. Len(given) : AtGroup(g)
    /\ main_pc = "langs" => \E g \in 1 .. Len(given) : \E j \in 0 .. Len(given[g][2]) : InLangs(g, j)
    /\ main_pc \in {"printed", "download"} => AtGroup(Len(given))
    /\ main_pc = "failed" /\ arg <= Len(argv) => Len(AllLangs(given)) > MaxLangs

\* What stands behind a group: the next one, or nothing.
LEMMA BehindGroup ==
    ASSUME NEW v \in Given, NEW g \in 0 .. Len(v)
    PROVE  /\ ArgsIn(v, g) \in Nat /\ LangsIn(v, g) \in Nat /\ Len(AllArgs(v)) \in Nat
           /\ g = Len(v) <=> ArgsIn(v, g) + 1 > Len(AllArgs(v))
           /\ g < Len(v) => AllArgs(v)[ArgsIn(v, g) + 1] = v[g + 1][1] /\ g + 1 \in 1 .. Len(v)
<1>1. Len(v) \in Nat /\ ArgsIn(v, 0) = 0 /\ LangsIn(v, 0) = 0 /\ Len(AllArgs(v)) \in Nat
  <2>1. AllArgs(v) \in Seq(STRING)
      BY ArgsFacts
  <2> QED BY <2>1, ArgsFacts, LangsFacts
<1>2. ArgsIn(v, g) \in Nat /\ LangsIn(v, g) \in Nat
  <2>1. CASE g = 0
      BY <1>1, <2>1
  <2>2. CASE g # 0
    <3>1. g \in 1 .. Len(v)
        BY <1>1, <2>2
    <3>2. ArgsOf(v, g) /\ LangsOf(v, g) /\ Len(v[g][2]) \in Nat
        BY <3>1, ArgsFacts, LangsFacts, GroupFacts
    <3>3. PICK m \in Nat, a \in Nat, l \in Nat :
              m = Len(v[g][2]) /\ a = ArgsIn(v, g - 1) /\ l = LangsIn(v, g - 1)
        BY <3>2 DEF ArgsOf, LangsOf
    <3>4. ArgsIn(v, g) = a + 1 + m
        BY <3>2, <3>3 DEF ArgsOf
    <3>5. LangsIn(v, g) = l + m \/ LangsIn(v, g) = l + 0
        BY <3>2, <3>3 DEF LangsOf
    <3>6. a + 1 + m \in Nat /\ l + m \in Nat /\ l + 0 \in Nat
        OBVIOUS
    <3> QED BY <3>4, <3>5, <3>6
  <2> QED BY <2>1, <2>2
<1>3. CASE g = Len(v)
  <2>1. ArgsIn(v, g) = Len(AllArgs(v))
      BY <1>3 DEF ArgsIn, AllArgs
  <2> QED BY <1>1, <1>2, <1>3, <2>1
<1>4. CASE g # Len(v)
  <2>1. g + 1 \in 1 .. Len(v) /\ (g + 1) - 1 = g
      BY <1>1, <1>4
  <2>2. ArgsOf(v, g + 1)
      BY <2>1, ArgsFacts
  <2>3. ArgsIn(v, g) + 1 <= Len(AllArgs(v)) /\ AllArgs(v)[ArgsIn(v, g) + 1] = v[g + 1][1]
      BY <2>1, <2>2 DEF ArgsOf
  <2> QED BY <1>1, <1>2, <1>4, <2>1, <2>3
<1> QED BY <1>3, <1>4

\* The values that a group leaves as they are, and the one it sets.
LEMMA ValueStays ==
    ASSUME NEW v, NEW g \in Nat \ {0}, NEW o, NEW x, ValueIn(v, o, g - 1, x),
           v[g][1] # o \/ v[g][2] = <<>>
    PROVE  ValueIn(v, o, g, x)
<1>1. \A h \in Int, z \in Int : h \in z .. g => h \in z .. g - 1 \/ h = g
    OBVIOUS
<1>2. CASE x = "" /\ \A h \in 1 .. g - 1 : v[h][1] = o => v[h][2] = <<>>
  <2>1. ASSUME NEW h \in 1 .. g, v[h][1] = o PROVE v[h][2] = <<>>
    <3>1. h \in 1 .. g - 1 \/ h = g
        OBVIOUS
    <3> QED BY <1>2, <2>1, <3>1
  <2> QED BY <1>2, <2>1 DEF ValueIn
<1>3. CASE \E h \in 1 .. g - 1 :
              /\ v[h][1] = o /\ v[h][2] # <<>> /\ x = v[h][2][1]
              /\ \A m \in h + 1 .. g - 1 : v[m][1] = o => v[m][2] = <<>>
  <2>1. PICK h \in 1 .. g - 1 :
              /\ v[h][1] = o /\ v[h][2] # <<>> /\ x = v[h][2][1]
              /\ \A m \in h + 1 .. g - 1 : v[m][1] = o => v[m][2] = <<>>
      BY <1>3
  <2>2. ASSUME NEW m \in h + 1 .. g, v[m][1] = o PROVE v[m][2] = <<>>
    <3>1. m \in h + 1 .. g - 1 \/ m = g
        OBVIOUS
    <3> QED BY <2>1, <2>2, <3>1
  <2>3. h \in 1 .. g
      OBVIOUS
  <2> QED BY <2>1, <2>2, <2>3 DEF ValueIn
<1> QED BY <1>2, <1>3 DEF ValueIn

\* A group with a value sets the value of its option.
LEMMA ValueSet ==
    ASSUME NEW v, NEW g \in Nat \ {0}, NEW o, v[g][1] = o, v[g][2] # <<>>
    PROVE  ValueIn(v, o, g, v[g][2][1])
<1>1. g \in 1 .. g /\ \A m \in g + 1 .. g : FALSE
    OBVIOUS
<1> QED BY <1>1 DEF ValueIn

\* A group adds its option to the flags, if it is one.
LEMMA FlagsStep ==
    ASSUME NEW v, NEW g \in Nat \ {0}
    PROVE  FlagsIn(v, g) = FlagsIn(v, g - 1) \cup ({v[g][1]} \cap Switches)
<1>1. \A h : h \in 1 .. g <=> h \in 1 .. g - 1 \/ h = g
    OBVIOUS
<1>2. \A o : (\E h \in 1 .. g : v[h][1] = o) <=> (\E h \in 1 .. g - 1 : v[h][1] = o) \/ v[g][1] = o
    BY <1>1
<1> QED BY <1>2 DEF FlagsIn

\* Before the first argument the invariant holds.
LEMMA CliBegins == Cli!Init => CliInv
<1> SUFFICES ASSUME Cli!Init PROVE CliInv
    OBVIOUS
<1>1. given \in Given /\ main_pc = "args" /\ arg = 1 /\ langs = <<>> /\ flags = {} /\ amount_of_threads = 1
    BY DEF Cli!Init
<1>2. argv = AllArgs(given)
  <2>1. DOMAIN given = 1 .. Len(given) /\ AllArgs(given) = Cli!FlattenSeq(Parts(given))
      BY <1>1, ArgsFacts
  <2> QED BY <2>1 DEF Cli!Init, Parts
<1>3. DOMAIN values = Options /\ \A o \in Options : values[o] = ""
    BY DEF Cli!Init, Options
<1>4. AtGroup(0)
  <2>1. ArgsIn(given, 0) + 1 = 1 /\ LangsIn(given, 0) = 0
      BY <1>1, ArgsFacts, LangsFacts
  <2>2. \A h \in 1 .. 0 : FALSE
      OBVIOUS
  <2>3. Read(given, 0, values, flags)
      BY <1>1, <1>3, <2>2 DEF Read, ValueIn, FlagsIn
  <2>4. langs = Lowered(given, 0)
      BY <1>1, <2>2 DEF Lowered
  <2> QED BY <1>1, <2>1, <2>3, <2>4 DEF AtGroup
<1>5. 0 \in 0 .. Len(given) /\ Len(langs) <= MaxLangs
    BY <1>1, ArgsFacts, IntAssumption
<1>6. Cli!SomeThread
    BY <1>1 DEF Cli!SomeThread
<1> QED BY <1>1, <1>2, <1>3, <1>4, <1>5, <1>6 DEF CliInv

\* The argument that is looked at is the option of the next group.
LEMMA AtOption ==
    ASSUME CliInv, main_pc = "args", arg <= Len(argv)
    PROVE  \E g \in 1 .. Len(given) : AtGroup(g - 1) /\ argv[arg] = given[g][1]
<1>1. PICK h \in 0 .. Len(given) : AtGroup(h)
    BY DEF CliInv
<1>2. given \in Given /\ argv = AllArgs(given) /\ arg = ArgsIn(given, h) + 1
    BY <1>1 DEF CliInv, AtGroup
<1>3. Len(given) \in Nat
    BY <1>2, ArgsFacts
<1>4. /\ ArgsIn(given, h) \in Nat /\ Len(AllArgs(given)) \in Nat
      /\ h = Len(given) <=> ArgsIn(given, h) + 1 > Len(AllArgs(given))
      /\ h < Len(given) => AllArgs(given)[ArgsIn(given, h) + 1] = given[h + 1][1]
    BY <1>2, BehindGroup
<1>5. h # Len(given)
    BY <1>2, <1>4
<1>6. PICK g \in 1 .. Len(given) : g = h + 1 /\ g - 1 = h
    BY <1>3, <1>5
<1>7. argv[arg] = given[g][1]
    BY <1>2, <1>3, <1>4, <1>5, <1>6
<1> QED BY <1>1, <1>6, <1>7

\* The next group is read.
LEMMA GroupRead ==
    ASSUME CliInv, main_pc = "args", NEW g \in 1 .. Len(given), AtGroup(g - 1),
           given[g][1] # "-l",
           UNCHANGED <<given, argv, langs>>, main_pc' = "args",
           arg' = arg + 1 + Len(given[g][2]),
           DOMAIN values' = Options,
           \A o \in Options : values'[o] = IF o = given[g][1] /\ given[g][2] # <<>>
                                           THEN given[g][2][1] ELSE values[o],
           flags' = flags \cup ({given[g][1]} \cap Switches),
           Cli!SomeThread'
    PROVE  CliInv'
<1>1. given \in Given /\ argv = AllArgs(given) /\ Len(langs) <= MaxLangs
    BY DEF CliInv
<1>2. Len(given) \in Nat /\ g \in Nat \ {0} /\ g \in 0 .. Len(given)
  <2>1. Len(given) \in Nat
      BY <1>1, ArgsFacts
  <2> QED BY <2>1
<1>3. ArgsOf(given, g) /\ LangsOf(given, g) /\ Len(given[g][2]) \in Nat
    BY <1>1, ArgsFacts, LangsFacts, GroupFacts
<1>4. arg' = ArgsIn(given, g) + 1
  <2>1. PICK a \in Nat, n \in Nat : /\ a = ArgsIn(given, g - 1) /\ n = Len(given[g][2])
                                    /\ ArgsIn(given, g) = a + 1 + n
      BY <1>3 DEF ArgsOf
  <2>2. arg = a + 1
      BY <2>1 DEF AtGroup
  <2>3. arg' = a + 1 + 1 + n /\ ArgsIn(given, g) = a + 1 + n
      BY <2>1, <2>2
  <2> QED BY ONLY <2>3, a \in Nat, n \in Nat
<1>5. LangsIn(given, g) = LangsIn(given, g - 1)
    BY <1>3 DEF LangsOf
<1>6. \A o \in Options : ValueIn(given, o, g, values'[o])
  <2> TAKE o \in Options
  <2>1. ValueIn(given, o, g - 1, values[o])
      BY DEF AtGroup, Read
  <2>2. CASE o = given[g][1] /\ given[g][2] # <<>>
      BY <1>2, <2>2, ValueSet
  <2>3. CASE ~(o = given[g][1] /\ given[g][2] # <<>>)
    <3>1. values'[o] = values[o]
        BY <2>3
    <3> QED BY <1>2, <2>1, <2>3, <3>1, ValueStays
  <2> QED BY <2>2, <2>3
<1>7. flags' = FlagsIn(given, g)
    BY <1>2, FlagsStep DEF AtGroup, Read
<1>8. langs = Lowered(given, LangsIn(given, g))
    BY <1>5 DEF AtGroup
<1>9. AtGroup(g)'
    BY <1>4, <1>6, <1>7, <1>8 DEF AtGroup, Read
<1> QED BY <1>1, <1>2, <1>9 DEF CliInv

\* The values and flags are not an option's, if it has none.
LEMMA ValuesKept ==
    ASSUME CliInv, NEW g \in 1 .. Len(given), given[g][2] = <<>> \/ given[g][1] \notin Options,
           UNCHANGED values
    PROVE  /\ DOMAIN values' = Options
           /\ \A o \in Options : values'[o] = IF o = given[g][1] /\ given[g][2] # <<>>
                                              THEN given[g][2][1] ELSE values[o]
    BY DEF CliInv

\* A step that leaves the number of threads alone.
LEMMA SomeThreadKept ==
    ASSUME Cli!SomeThread, UNCHANGED <<given, amount_of_threads>>
    PROVE  Cli!SomeThread'
    BY DEF Cli!SomeThread, Cli!Groups

\* An option with a value is not the last argument, one without is, if it needs one.
LEMMA ValueThere ==
    ASSUME CliInv, NEW g \in 1 .. Len(given), AtGroup(g - 1),
           given[g][1] \in Cli!Valued \cup {"-t"}
    PROVE  /\ arg < Len(argv) => given[g][2] # <<>> /\ Len(given[g][2]) = 1 /\ argv[arg + 1] = given[g][2][1]
           /\ ~(arg < Len(argv)) => given[g][2] = <<>> /\ Len(given[g][2]) = 0
<1>1. given \in Given /\ argv = AllArgs(given) /\ arg = ArgsIn(given, g - 1) + 1
    BY DEF CliInv, AtGroup
<1>2. /\ ArgsOf(given, g) /\ given[g][2] \in Seq(STRING)
      /\ Len(given[g][2]) = 1 \/ (given[g][2] = <<>> /\ g = Len(given))
    BY <1>1, ArgsFacts, GroupFacts DEF WellWritten
<1>3. Len(<<>>) = 0
    OBVIOUS
<1>4. CASE Len(given[g][2]) = 1
  <2>1. 1 \in 1 .. Len(given[g][2])
      BY <1>4
  <2>2. PICK a \in Nat : a = ArgsIn(given, g - 1)
      BY <1>2 DEF ArgsOf
  <2>3. a + 1 + 1 <= Len(argv) /\ argv[a + 1 + 1] = given[g][2][1]
      BY <1>1, <1>2, <2>1, <2>2 DEF ArgsOf
  <2>4. arg = a + 1 /\ Len(argv) \in Nat
    <3>1. AllArgs(given) \in Seq(STRING)
        BY <1>1, ArgsFacts
    <3> QED BY <1>1, <2>2, <3>1
  <2>5. arg < Len(argv)
      BY <2>3, <2>4
  <2> QED BY <1>3, <1>4, <2>3, <2>4, <2>5
<1>5. CASE given[g][2] = <<>> /\ g = Len(given)
  <2>1. PICK a \in Nat : a = ArgsIn(given, g - 1) /\ ArgsIn(given, g) = a + 1 + 0
      BY <1>2, <1>3, <1>5 DEF ArgsOf
  <2>2. ArgsIn(given, g) = Len(argv)
      BY <1>1, <1>5 DEF ArgsIn, AllArgs
  <2>3. ~(arg < Len(argv))
      BY <1>1, <2>1, <2>2
  <2> QED BY <1>3, <1>5, <2>3
<1> QED BY <1>2, <1>4, <1>5

\* What the options are.
LEMMA OptionKinds ==
    /\ "-l" \notin Options \cup Switches \cup {"-t"} /\ "-t" \notin Options \cup Switches
    /\ \A o \in Cli!Valued : o \in Options /\ o \notin Switches /\ o # "-l" /\ o # "-t" /\ o # "--print-manifest"
    /\ \A o \in Cli!Flags : o \in Switches /\ o \notin Options /\ o # "-l" /\ o # "-t" /\ o # "--print-manifest"
                            /\ o \notin Cli!Valued
    /\ "--print-manifest" \in Options \cap Switches /\ "--print-manifest" \notin Cli!Valued
    BY DEF Options, Switches, Cli!Valued, Cli!Flags

\* An option with a value.
LEMMA CliValue ==
    ASSUME CliInv, NEW o \in Cli!Valued, Cli!Value(o)
    PROVE  CliInv'
<1>1. main_pc = "args" /\ arg <= Len(argv) /\ argv[arg] = o
    BY DEF Cli!Value, Cli!Is
<1>2. PICK g \in 1 .. Len(given) : AtGroup(g - 1) /\ given[g][1] = o
    BY <1>1, AtOption
<1>3. given[g][2] # <<>> /\ Len(given[g][2]) = 1 /\ argv[arg + 1] = given[g][2][1]
    BY <1>2, ValueThere DEF Cli!Value, Cli!HasValue
<1>4. /\ values' = [values EXCEPT ![o] = given[g][2][1]] /\ arg' = arg + 2
      /\ UNCHANGED <<given, argv, main_pc, amount_of_threads, langs, flags>>
    BY <1>3 DEF Cli!Value, Cli!input
<1>5. o \in Options /\ o # "-l" /\ o \notin Switches
    BY OptionKinds
<1>6. /\ DOMAIN values' = Options
      /\ \A p \in Options : values'[p] = IF p = given[g][1] /\ given[g][2] # <<>>
                                         THEN given[g][2][1] ELSE values[p]
    BY <1>2, <1>3, <1>4, <1>5 DEF CliInv
<1>7. Cli!SomeThread'
    BY <1>4, SomeThreadKept DEF CliInv
<1>8. arg \in Int
  <2>1. ArgsIn(given, g - 1) \in Nat
      BY <1>2, ArgsFacts DEF CliInv, ArgsOf
  <2> QED BY <1>2, <2>1 DEF AtGroup
<1>9. arg' = arg + 1 + Len(given[g][2]) /\ flags' = flags \cup ({given[g][1]} \cap Switches)
    BY <1>2, <1>3, <1>4, <1>5, <1>8
<1> QED BY <1>1, <1>2, <1>4, <1>5, <1>6, <1>7, <1>9, GroupRead

\* strtol's value as an int, if it fits.
LEMMA ThreadsFit ==
    ASSUME NEW n \in Int, n < IntSize \div 2
    PROVE  Cli!Threads(n) >= 1
<1>1. PICK h \in Nat, r \in {0, 1} : h = IntSize \div 2 /\ IntSize = 2 * h + r /\ h >= 2
  <2>1. PICK q \in Nat, r \in 0 .. 2 - 1 : q = IntSize \div 2 /\ IntSize = (2 * q) + r
    <3>1. 2 \in Nat \ {0} /\ IntSize \in Nat
        BY IntAssumption
    <3> QED BY <3>1, DivMod
  <2>2. q >= 2
      BY <2>1, IntAssumption
  <2> QED BY <2>1, <2>2
<1>2. PICK m \in Nat : m = (IF n > 1 THEN n ELSE 1) /\ m >= 1 /\ m < h
    BY <1>1
<1>3. (m + h) % IntSize = m + h
  <2>1. IntSize \in Nat \ {0} /\ m + h \in 0 .. IntSize - 1 /\ m + h \in Nat
      BY <1>1, <1>2, IntAssumption
  <2>2. m + h = (IntSize * 0) + (m + h) /\ 0 \in Nat
      BY IntAssumption
  <2> QED BY <2>1, <2>2, Quotient
<1>4. Cli!Threads(n) = (m + h) - h
    BY <1>1, <1>2, <1>3 DEF Cli!Threads, Cli!ToInt
<1> QED BY <1>2, <1>4

\* The number of threads.
LEMMA CliThreads ==
    ASSUME CliInv, Cli!SetThreads
    PROVE  CliInv'
<1>1. main_pc = "args" /\ arg <= Len(argv) /\ argv[arg] = "-t"
    BY DEF Cli!SetThreads, Cli!Is
<1>2. PICK g \in 1 .. Len(given) : AtGroup(g - 1) /\ given[g][1] = "-t"
    BY <1>1, AtOption
<1>3. given[g][2] # <<>> /\ Len(given[g][2]) = 1 /\ argv[arg + 1] = given[g][2][1]
    BY <1>2, ValueThere DEF Cli!SetThreads, Cli!HasValue
<1>4. /\ amount_of_threads' = Cli!Threads(Number[given[g][2][1]]) /\ arg' = arg + 2
      /\ UNCHANGED <<given, argv, main_pc, values, langs, flags>>
    BY <1>3 DEF Cli!SetThreads, Cli!input
<1>5. /\ DOMAIN values' = Options
      /\ \A p \in Options : values'[p] = IF p = given[g][1] /\ given[g][2] # <<>>
                                         THEN given[g][2][1] ELSE values[p]
    BY <1>2, <1>4, ValuesKept, OptionKinds
<1>6. Cli!SomeThread'
  <2>1. Number[given[g][2][1]] \in Int /\ g \in DOMAIN given
    <3>1. given \in Given
        BY DEF CliInv
    <3> QED BY <1>2, <1>3, <3>1, GroupFacts, ArgsFacts DEF WellWritten
  <2> SUFFICES ASSUME \A h \in Cli!Groups("-t") : given[h][2] # <<>> => Number[given[h][2][1]] < IntSize \div 2
               PROVE  amount_of_threads' >= 1
      BY <1>4 DEF Cli!SomeThread, Cli!Groups
  <2>2. Number[given[g][2][1]] < IntSize \div 2
      BY <1>2, <1>3, <2>1 DEF Cli!Groups
  <2> QED BY <1>4, <2>1, <2>2, ThreadsFit
<1>7. arg \in Int
  <2>1. ArgsIn(given, g - 1) \in Nat
      BY <1>2, ArgsFacts DEF CliInv, ArgsOf
  <2> QED BY <1>2, <2>1 DEF AtGroup
<1>8. arg' = arg + 1 + Len(given[g][2]) /\ flags' = flags \cup ({given[g][1]} \cap Switches)
    BY <1>2, <1>3, <1>4, <1>7, OptionKinds
<1> QED BY <1>1, <1>2, <1>4, <1>5, <1>6, <1>8, GroupRead

\* An option whose value is missing.
LEMMA CliNoValue ==
    ASSUME CliInv, Cli!NoValue
    PROVE  CliInv'
<1>1. PICK o \in Cli!Valued \cup {"-t"} : main_pc = "args" /\ arg <= Len(argv) /\ argv[arg] = o
    BY DEF Cli!NoValue, Cli!Is
<1>2. PICK g \in 1 .. Len(given) : AtGroup(g - 1) /\ given[g][1] = o
    BY <1>1, AtOption
<1>3. given[g][2] = <<>> /\ Len(given[g][2]) = 0
    BY <1>2, ValueThere DEF Cli!NoValue, Cli!HasValue
<1>4. arg' = arg + 1 /\ UNCHANGED <<given, argv, main_pc, values, amount_of_threads, langs, flags>>
    BY DEF Cli!NoValue, Cli!input, Cli!options
<1>5. /\ DOMAIN values' = Options
      /\ \A p \in Options : values'[p] = IF p = given[g][1] /\ given[g][2] # <<>>
                                         THEN given[g][2][1] ELSE values[p]
    BY <1>3, <1>4, ValuesKept
<1>6. Cli!SomeThread'
    BY <1>4, SomeThreadKept DEF CliInv
<1>7. arg \in Int
  <2>1. ArgsIn(given, g - 1) \in Nat
      BY <1>2, ArgsFacts DEF CliInv, ArgsOf
  <2> QED BY <1>2, <2>1 DEF AtGroup
<1>8. arg' = arg + 1 + Len(given[g][2]) /\ flags' = flags \cup ({given[g][1]} \cap Switches)
    BY <1>2, <1>3, <1>4, <1>7, OptionKinds
<1>9. o # "-l"
    BY OptionKinds
<1> QED BY <1>1, <1>2, <1>4, <1>5, <1>6, <1>8, <1>9, GroupRead

\* An option without values.
LEMMA CliNoValues ==
    ASSUME CliInv, main_pc = "args", arg <= Len(argv),
           argv[arg] \notin Cli!Valued \cup {"-t", "-l", "--print-manifest"},
           arg' = arg + 1, flags' = flags \cup ({argv[arg]} \cap Switches),
           UNCHANGED <<given, argv, main_pc, values, amount_of_threads, langs>>
    PROVE  CliInv'
<1>1. PICK g \in 1 .. Len(given) : AtGroup(g - 1) /\ given[g][1] = argv[arg]
    BY AtOption
<1>2. given[g][2] = <<>> /\ Len(given[g][2]) = 0
  <2>1. WellWritten(given[g], g = Len(given))
      BY GroupFacts DEF CliInv
  <2>2. given[g][2] = <<>>
      BY <1>1, <2>1 DEF WellWritten
  <2> QED BY <2>2
<1>3. /\ DOMAIN values' = Options
      /\ \A p \in Options : values'[p] = IF p = given[g][1] /\ given[g][2] # <<>>
                                         THEN given[g][2][1] ELSE values[p]
    BY <1>2, ValuesKept
<1>4. Cli!SomeThread'
    BY SomeThreadKept DEF CliInv
<1>5. arg \in Int
  <2>1. ArgsIn(given, g - 1) \in Nat
      BY <1>1, ArgsFacts DEF CliInv, ArgsOf
  <2> QED BY <1>1, <2>1 DEF AtGroup
<1>6. arg' = arg + 1 + Len(given[g][2]) /\ flags' = flags \cup ({given[g][1]} \cap Switches)
    BY <1>1, <1>2, <1>5
<1>7. main_pc' = "args" /\ given[g][1] # "-l"
    BY <1>1
<1> QED BY <1>1, <1>3, <1>4, <1>6, <1>7, GroupRead

\* A flag.
LEMMA CliFlag == ASSUME CliInv, NEW o \in Cli!Flags, Cli!SetFlag(o) PROVE CliInv'
<1>1. main_pc = "args" /\ arg <= Len(argv) /\ argv[arg] = o
    BY DEF Cli!SetFlag, Cli!Is
<1>2. /\ arg' = arg + 1 /\ flags' = flags \cup {o}
      /\ UNCHANGED <<given, argv, main_pc, values, amount_of_threads, langs>>
    BY DEF Cli!SetFlag, Cli!input
<1>3. o \in Switches /\ o \notin Cli!Valued \cup {"-t", "-l", "--print-manifest"}
    BY OptionKinds
<1> QED BY <1>1, <1>2, <1>3, CliNoValues

\* An argument that is passed over.
LEMMA CliOther == ASSUME CliInv, Cli!Other PROVE CliInv'
<1>1. /\ main_pc = "args" /\ arg <= Len(argv)
      /\ argv[arg] \notin Cli!Valued \cup Cli!Flags \cup {"-t", "-l", "--print-manifest"}
    BY DEF Cli!Other
<1>2. arg' = arg + 1 /\ UNCHANGED <<given, argv, main_pc, values, amount_of_threads, langs, flags>>
    BY DEF Cli!Other, Cli!input, Cli!options
<1>3. flags' = flags \cup ({argv[arg]} \cap Switches)
    BY <1>1, <1>2 DEF Switches
<1> QED BY <1>1, <1>2, <1>3, CliNoValues

\* The path behind --print-manifest is there if the next argument is no option.
LEMMA PathThere ==
    ASSUME CliInv, NEW g \in 1 .. Len(given), AtGroup(g - 1), given[g][1] = "--print-manifest"
    PROVE  IF arg < Len(argv) /\ argv[arg + 1] \notin Dashed
           THEN given[g][2] # <<>> /\ Len(given[g][2]) = 1 /\ argv[arg + 1] = given[g][2][1]
           ELSE given[g][2] = <<>> /\ Len(given[g][2]) = 0
<1>1. given \in Given /\ argv = AllArgs(given) /\ arg = ArgsIn(given, g - 1) + 1
    BY DEF CliInv, AtGroup
<1>2. /\ ArgsOf(given, g) /\ given[g][2] \in Seq(STRING) /\ Len(<<>>) = 0
      /\ given[g][2] = <<>> \/ (Len(given[g][2]) = 1 /\ given[g][2][1] \notin Dashed)
    BY <1>1, ArgsFacts, GroupFacts DEF WellWritten
<1>3. PICK a \in Nat, n \in Nat : /\ a = ArgsIn(given, g - 1) /\ arg = a + 1 /\ n = Len(argv)
                                  /\ Len(given) \in Nat
  <2>1. Len(AllArgs(given)) \in Nat /\ Len(given) \in Nat
    <3>1. AllArgs(given) \in Seq(STRING)
        BY <1>1, ArgsFacts
    <3> QED BY <1>1, <3>1, ArgsFacts
  <2> QED BY <1>1, <1>2, <2>1 DEF ArgsOf
<1>4. CASE Len(given[g][2]) = 1 /\ given[g][2][1] \notin Dashed
  <2>1. 1 \in 1 .. Len(given[g][2])
      BY <1>4
  <2>2. a + 1 + 1 <= n /\ argv[a + 1 + 1] = given[g][2][1]
      BY <1>1, <1>2, <1>3, <2>1 DEF ArgsOf
  <2>3. arg < Len(argv) /\ argv[arg + 1] = given[g][2][1]
      BY <1>3, <2>2
  <2> QED BY <1>2, <1>4, <2>3
<1>5. CASE given[g][2] = <<>>
  <2>1. SUFFICES ASSUME arg < Len(argv) PROVE argv[arg + 1] \in Dashed
      BY <1>2, <1>5
  <2>2. ArgsIn(given, g) = a + 1 + 0
      BY <1>2, <1>3, <1>5 DEF ArgsOf
  <2>3. /\ g = Len(given) <=> ArgsIn(given, g) + 1 > Len(AllArgs(given))
        /\ g < Len(given) => AllArgs(given)[ArgsIn(given, g) + 1] = given[g + 1][1] /\ g + 1 \in 1 .. Len(given)
    <3>1. g \in 0 .. Len(given)
        BY <1>3
    <3> QED BY <1>1, <3>1, BehindGroup
  <2>4. ArgsIn(given, g) + 1 = arg + 1 /\ ~(ArgsIn(given, g) + 1 > n)
      BY <1>3, <2>1, <2>2
  <2>5. g < Len(given)
      BY <1>1, <1>3, <2>3, <2>4
  <2>6. argv[arg + 1] = given[g + 1][1] /\ g + 1 \in 1 .. Len(given) /\ g + 1 > 1 /\ (g + 1) - 1 = g
      BY <1>1, <2>3, <2>4, <2>5
  <2>7. Open(given[g])
      BY <1>5 DEF Open
  <2> QED BY <1>1, <2>6, <2>7, GroupFacts
<1> QED BY <1>2, <1>4, <1>5

\* The manifest shall be printed.
LEMMA CliPrint == ASSUME CliInv, Cli!SetPrint PROVE CliInv'
<1>1. main_pc = "args" /\ arg <= Len(argv) /\ argv[arg] = "--print-manifest"
    BY DEF Cli!SetPrint, Cli!Is
<1>2. PICK g \in 1 .. Len(given) : AtGroup(g - 1) /\ given[g][1] = "--print-manifest"
    BY <1>1, AtOption
<1>3. /\ flags' = flags \cup {"--print-manifest"}
      /\ UNCHANGED <<given, argv, main_pc, amount_of_threads, langs>>
    BY DEF Cli!SetPrint, Cli!input
<1>4. "--print-manifest" \in Options /\ "--print-manifest" \in Switches
    BY OptionKinds
<1>5. arg \in Int
  <2>1. ArgsIn(given, g - 1) \in Nat
      BY <1>2, ArgsFacts DEF CliInv, ArgsOf
  <2> QED BY <1>2, <2>1 DEF AtGroup
<1>6. /\ DOMAIN values' = Options /\ arg' = arg + 1 + Len(given[g][2])
      /\ \A p \in Options : values'[p] = IF p = given[g][1] /\ given[g][2] # <<>>
                                         THEN given[g][2][1] ELSE values[p]
  <2>1. CASE arg < Len(argv) /\ argv[arg + 1] \notin Dashed
    <3>1. given[g][2] # <<>> /\ Len(given[g][2]) = 1 /\ argv[arg + 1] = given[g][2][1]
        BY <1>2, <2>1, PathThere
    <3>2. values' = [values EXCEPT !["--print-manifest"] = given[g][2][1]] /\ arg' = arg + 2
        BY <2>1, <3>1 DEF Cli!SetPrint, Cli!HasValue
    <3> QED BY <1>2, <1>4, <1>5, <3>1, <3>2 DEF CliInv
  <2>2. CASE ~(arg < Len(argv) /\ argv[arg + 1] \notin Dashed)
    <3>1. given[g][2] = <<>> /\ Len(given[g][2]) = 0
        BY <1>2, <2>2, PathThere
    <3>2. values' = values /\ arg' = arg + 1
        BY <2>2 DEF Cli!SetPrint, Cli!HasValue
    <3>3. /\ DOMAIN values' = Options
          /\ \A p \in Options : values'[p] = IF p = given[g][1] /\ given[g][2] # <<>>
                                             THEN given[g][2][1] ELSE values[p]
        BY <3>1, <3>2, ValuesKept
    <3> QED BY <1>5, <3>1, <3>2, <3>3
  <2> QED BY <2>1, <2>2
<1>7. Cli!SomeThread'
    BY <1>3, SomeThreadKept DEF CliInv
<1>8. flags' = flags \cup ({given[g][1]} \cap Switches)
    BY <1>2, <1>3, <1>4
<1> QED BY <1>1, <1>2, <1>3, <1>6, <1>7, <1>8, GroupRead

\* A list of languages begins.
LEMMA CliStartLangs == ASSUME CliInv, Cli!StartLangs PROVE CliInv'
<1>1. main_pc = "args" /\ arg <= Len(argv) /\ argv[arg] = "-l" /\ given \in Given
    BY DEF Cli!StartLangs, Cli!Is, CliInv
<1>2. PICK g \in 1 .. Len(given) : AtGroup(g - 1) /\ given[g][1] = "-l"
    BY <1>1, AtOption
<1>3. /\ arg' = arg + 1 /\ main_pc' = "langs"
      /\ UNCHANGED <<given, argv, values, amount_of_threads, langs, flags>>
    BY DEF Cli!StartLangs, Cli!input, Cli!options
<1>4. ArgsIn(given, g - 1) \in Nat /\ LangsIn(given, g - 1) \in Nat /\ Len(given[g][2]) \in Nat /\ Len(given) \in Nat
    BY <1>1, ArgsFacts, LangsFacts, GroupFacts DEF ArgsOf, LangsOf
<1>5. g \in Nat \ {0} /\ 0 \in 0 .. Len(given[g][2])
    BY <1>4
<1>6. Read(given, g, values, flags)
  <2>1. Read(given, g - 1, values, flags)
      BY <1>2 DEF AtGroup
  <2>2. "-l" \notin Options /\ "-l" \notin Switches
      BY OptionKinds
  <2>3. \A o \in Options : ValueIn(given, o, g, values[o])
    <3> TAKE o \in Options
    <3>1. ValueIn(given, o, g - 1, values[o]) /\ given[g][1] # o
        BY <1>2, <2>1, <2>2 DEF Read
    <3> QED BY <1>5, <3>1, ValueStays
  <2>4. flags = FlagsIn(given, g)
    <3>1. FlagsIn(given, g) = FlagsIn(given, g - 1) \cup ({given[g][1]} \cap Switches)
        BY <1>5, FlagsStep
    <3>2. {given[g][1]} \cap Switches = {}
        BY <1>2, <2>2
    <3>3. flags = FlagsIn(given, g - 1)
        BY <2>1 DEF Read
    <3> QED BY <3>1, <3>2, <3>3
  <2> QED BY <2>3, <2>4 DEF Read
<1>7. arg' = ArgsIn(given, g - 1) + 2 + 0 /\ LangsIn(given, g - 1) + 0 = LangsIn(given, g - 1)
    BY <1>2, <1>3, <1>4 DEF AtGroup
<1>8. langs = Lowered(given, LangsIn(given, g - 1))
    BY <1>2 DEF AtGroup
<1>9. InLangs(g, 0)'
    BY <1>2, <1>3, <1>6, <1>7, <1>8 DEF InLangs
<1>10. Cli!SomeThread'
    BY <1>3, SomeThreadKept DEF CliInv
<1> QED BY <1>3, <1>5, <1>9, <1>10 DEF CliInv

\* What is not an option within a list of languages is the next of them.
LEMMA LangThere ==
    ASSUME CliInv, NEW g \in 1 .. Len(given), NEW j \in 0 .. Len(given[g][2]), InLangs(g, j)
    PROVE  IF Cli!IsLang
           THEN j + 1 \in 1 .. Len(given[g][2]) /\ argv[arg] = given[g][2][j + 1]
           ELSE j = Len(given[g][2])
<1>1. given \in Given /\ argv = AllArgs(given) /\ given[g][1] = "-l"
    BY DEF CliInv, InLangs
<1>2. /\ ArgsOf(given, g) /\ given[g][2] \in Seq(STRING)
      /\ \A w \in 1 .. Len(given[g][2]) : given[g][2][w] \notin Dashed
    BY <1>1, ArgsFacts, GroupFacts DEF WellWritten
<1>3. PICK a \in Nat, n \in Nat, m \in Nat :
         /\ a = ArgsIn(given, g - 1) /\ n = Len(argv) /\ m = Len(given[g][2])
         /\ ArgsIn(given, g) = a + 1 + m /\ arg = a + 2 + j
  <2>1. Len(AllArgs(given)) \in Nat
    <3>1. AllArgs(given) \in Seq(STRING)
        BY <1>1, ArgsFacts
    <3> QED BY <3>1
  <2> QED BY <1>1, <1>2, <2>1 DEF ArgsOf, InLangs
<1>4. j \in Nat /\ j <= m /\ Len(given) \in Nat
    BY <1>1, <1>3, ArgsFacts
<1>5. CASE j < m
  <2>1. j + 1 \in 1 .. m /\ a + 1 + (j + 1) = a + 2 + j
      BY <1>4, <1>5
  <2>2. a + 1 + (j + 1) <= Len(argv) /\ argv[a + 1 + (j + 1)] = given[g][2][j + 1]
      BY <1>1, <1>2, <1>3, <2>1 DEF ArgsOf
  <2>3. arg <= Len(argv) /\ argv[arg] = given[g][2][j + 1]
      BY <1>3, <2>1, <2>2
  <2>4. argv[arg] \notin Dashed
      BY <1>2, <1>3, <2>1, <2>3
  <2>5. Cli!IsLang
      BY <2>3, <2>4 DEF Cli!IsLang
  <2> QED BY <1>3, <2>1, <2>3, <2>5
<1>6. CASE j = m
  <2>1. ASSUME Cli!IsLang PROVE FALSE
    <3>1. arg <= n /\ argv[arg] \notin Dashed
        BY <1>3, <2>1 DEF Cli!IsLang
    <3>2. /\ g = Len(given) <=> ArgsIn(given, g) + 1 > Len(AllArgs(given))
          /\ g < Len(given) => AllArgs(given)[ArgsIn(given, g) + 1] = given[g + 1][1] /\ g + 1 \in 1 .. Len(given)
      <4>1. g \in 0 .. Len(given)
          BY <1>4
      <4> QED BY <1>1, <4>1, BehindGroup
    <3>3. ArgsIn(given, g) + 1 = arg
      <4>1. ArgsIn(given, g) = a + 1 + m /\ arg = a + 2 + m
          BY <1>3, <1>6
      <4> QED BY ONLY <4>1, a \in Nat, m \in Nat
    <3>4. g < Len(given)
        BY <1>1, <1>3, <1>4, <3>1, <3>2, <3>3
    <3>5. argv[arg] = given[g + 1][1] /\ g + 1 \in 1 .. Len(given) /\ g + 1 > 1 /\ (g + 1) - 1 = g
        BY <1>1, <3>2, <3>3, <3>4
    <3>6. Open(given[g])
        BY <1>1 DEF Open
    <3>7. argv[arg] \in Dashed
        BY <1>1, <3>5, <3>6, GroupFacts
    <3> QED BY <3>1, <3>7
  <2> QED BY <1>3, <1>6, <2>1
<1> QED BY <1>4, <1>5, <1>6

\* Language j of a group is one of all languages.
LEMMA LangListed ==
    ASSUME NEW v \in Given, NEW g \in 1 .. Len(v), v[g][1] = "-l", NEW j \in 1 .. Len(v[g][2])
    PROVE  /\ LangsIn(v, g - 1) \in Nat /\ LangsIn(v, g - 1) + j <= Len(AllLangs(v))
           /\ AllLangs(v)[LangsIn(v, g - 1) + j] = v[g][2][j]
    BY LangsFacts DEF LangsOf

\* One more language.
LEMMA OneMoreLang ==
    ASSUME NEW v, NEW n \in Nat
    PROVE  /\ Len(Lowered(v, n)) = n
           /\ Append(Lowered(v, n), Lower[AllLangs(v)[n + 1]]) = Lowered(v, n + 1)
<1> DEFINE L == [l \in 1 .. n + 1 |-> Lower[AllLangs(v)[l]]]
           V == {L[l] : l \in 1 .. n + 1}
           m == [l \in 1 .. n |-> L[l]]
<1>1. Lowered(v, n + 1) = L
    BY DEF Lowered
<1>2. m = [l \in 1 .. n |-> Lower[AllLangs(v)[l]]] /\ L[n + 1] = Lower[AllLangs(v)[n + 1]]
    OBVIOUS
<1>3. L \in [1 .. n + 1 -> V] /\ m \in [1 .. n -> V] /\ L[n + 1] \in V
    OBVIOUS
<1> HIDE DEF V
<1>4. m \in Seq(V) /\ Len(m) = n /\ \A l \in 1 .. n : m[l] = L[l]
    BY <1>3
<1> HIDE DEF m, L
<1>5. Append(m, L[n + 1]) = L
  <2>1. L \in Seq(V) /\ Len(L) = n + 1
      BY <1>3
  <2>2. PICK e \in V : e = L[n + 1]
      BY <1>3
  <2>3. /\ Append(m, e) \in Seq(V) /\ Len(Append(m, e)) = n + 1
        /\ Append(m, e)[n + 1] = e /\ \A l \in 1 .. n : Append(m, e)[l] = m[l]
      BY ONLY <1>4, n \in Nat, e \in V
  <2>4. \A l \in 1 .. n + 1 : Append(m, e)[l] = L[l]
    <3> TAKE l \in 1 .. n + 1
    <3>1. CASE l = n + 1
        BY <2>2, <2>3, <3>1
    <3>2. CASE l # n + 1
      <4>1. l \in 1 .. n
          BY <3>2
      <4> QED BY <1>4, <2>3, <4>1
    <3> QED BY <3>1, <3>2
  <2>5. PICK b \in Seq(V) : b = Append(m, e)
      BY <2>3
  <2>6. Len(b) = Len(L) /\ \A l \in 1 .. Len(b) : b[l] = L[l]
      BY <2>1, <2>3, <2>4, <2>5
  <2>7. b = L
      BY ONLY <2>1, <2>6, b \in Seq(V), SeqEqual
  <2> QED BY <2>2, <2>5, <2>7
<1>6. Lowered(v, n) = m
    BY <1>2 DEF Lowered
<1> QED BY <1>1, <1>2, <1>4, <1>5, <1>6

\* A language is taken.
LEMMA CliAddLang == ASSUME CliInv, Cli!AddLang PROVE CliInv'
<1>1. main_pc = "langs" /\ Cli!IsLang /\ Len(langs) # MaxLangs /\ given \in Given
    BY DEF Cli!AddLang, Cli!TooMany, CliInv
<1>a. PICK g \in 1 .. Len(given) : \E j \in 0 .. Len(given[g][2]) : InLangs(g, j)
    BY <1>1 DEF CliInv
<1>2. PICK j \in 0 .. Len(given[g][2]) : InLangs(g, j)
    BY <1>a
<1>3. j + 1 \in 1 .. Len(given[g][2]) /\ argv[arg] = given[g][2][j + 1]
    BY <1>1, <1>2, LangThere
<1>4. /\ langs' = Append(langs, Lower[given[g][2][j + 1]]) /\ arg' = arg + 1
      /\ UNCHANGED <<given, argv, main_pc, values, amount_of_threads, flags>>
    BY <1>3 DEF Cli!AddLang, Cli!input
<1>5. PICK n \in Nat : n = LangsIn(given, g - 1) + j /\ AllLangs(given)[n + 1] = given[g][2][j + 1]
  <2>0. given[g][1] = "-l"
      BY <1>2 DEF InLangs
  <2>1. /\ LangsIn(given, g - 1) \in Nat
        /\ AllLangs(given)[LangsIn(given, g - 1) + (j + 1)] = given[g][2][j + 1]
      BY <1>1, <1>3, <2>0, LangListed
  <2>2. LangsIn(given, g - 1) + (j + 1) = (LangsIn(given, g - 1) + j) + 1 /\ LangsIn(given, g - 1) + j \in Nat
      BY <1>3, <2>1
  <2> QED BY <2>1, <2>2
<1>6. langs = Lowered(given, n)
    BY <1>2, <1>5 DEF InLangs
<1>7. langs' = Lowered(given, n + 1) /\ Len(langs) = n /\ Len(langs') = n + 1
  <2>1. /\ Len(Lowered(given, n)) = n /\ Len(Lowered(given, n + 1)) = n + 1
        /\ Append(Lowered(given, n), Lower[AllLangs(given)[n + 1]]) = Lowered(given, n + 1)
    <3>1. n + 1 \in Nat
        OBVIOUS
    <3> QED BY <3>1, OneMoreLang
  <2>2. langs' = Append(langs, Lower[AllLangs(given)[n + 1]])
      BY <1>4, <1>5
  <2> QED BY ONLY <1>6, <2>1, <2>2
<1>8. n + 1 = LangsIn(given, g - 1) + (j + 1)
  <2>1. LangsIn(given, g - 1) \in Nat
      BY <1>1, LangsFacts DEF LangsOf
  <2> QED BY <1>3, <1>5, <2>1
<1>9. arg' = ArgsIn(given, g - 1) + 2 + (j + 1)
  <2>1. ArgsIn(given, g - 1) \in Nat
      BY <1>1, ArgsFacts DEF ArgsOf
  <2> QED BY <1>2, <1>3, <1>4, <2>1 DEF InLangs
<1>10. InLangs(g, j + 1)'
    BY <1>2, <1>4, <1>7, <1>8, <1>9 DEF InLangs
<1>11. Cli!SomeThread'
    BY <1>4, SomeThreadKept DEF CliInv
<1>12. Len(langs') <= MaxLangs
    BY <1>1, <1>7, IntAssumption DEF CliInv
<1>13. j + 1 \in 0 .. Len(given[g][2])
    BY <1>3
<1> QED BY <1>1, <1>4, <1>10, <1>11, <1>12, <1>13 DEF CliInv

\* There are more languages than the array holds.
LEMMA CliTooMany == ASSUME CliInv, Cli!TooManyLangs PROVE CliInv'
<1>1. main_pc = "langs" /\ Cli!IsLang /\ Len(langs) = MaxLangs /\ given \in Given
    BY DEF Cli!TooManyLangs, Cli!TooMany, CliInv
<1>a. PICK g \in 1 .. Len(given) : \E j \in 0 .. Len(given[g][2]) : InLangs(g, j)
    BY <1>1 DEF CliInv
<1>2. PICK j \in 0 .. Len(given[g][2]) : InLangs(g, j)
    BY <1>a
<1>3. /\ main_pc' = "failed"
      /\ UNCHANGED <<given, argv, arg, values, amount_of_threads, langs, flags>>
    BY DEF Cli!TooManyLangs, Cli!input, Cli!options
<1>4. j + 1 \in 1 .. Len(given[g][2])
    BY <1>1, <1>2, LangThere
<1>5. LangsIn(given, g - 1) \in Nat /\ LangsIn(given, g - 1) + (j + 1) <= Len(AllLangs(given))
    BY <1>1, <1>2, <1>4, LangListed DEF InLangs
<1>6. PICK n \in Nat : n = LangsIn(given, g - 1) + j /\ n + 1 = LangsIn(given, g - 1) + (j + 1)
    BY <1>4, <1>5
<1>7. Len(langs) = n
    BY <1>2, <1>6, OneMoreLang DEF InLangs
<1>8. Len(AllLangs(given)) \in Nat
  <2>1. AllLangs(given) \in Seq(STRING)
      BY <1>1, LangsFacts
  <2> QED BY <2>1
<1>9. Len(AllLangs(given)) > MaxLangs
    BY <1>1, <1>5, <1>6, <1>7, <1>8
<1>10. Cli!SomeThread'
    BY <1>3, SomeThreadKept DEF CliInv
<1> QED BY <1>3, <1>9, <1>10 DEF CliInv

\* The list of languages ends.
LEMMA CliEndLangs == ASSUME CliInv, Cli!EndLangs PROVE CliInv'
<1>1. main_pc = "langs" /\ ~Cli!IsLang /\ given \in Given
    BY DEF Cli!EndLangs, CliInv
<1>a. PICK g \in 1 .. Len(given) : \E j \in 0 .. Len(given[g][2]) : InLangs(g, j)
    BY <1>1 DEF CliInv
<1>2. PICK j \in 0 .. Len(given[g][2]) : InLangs(g, j)
    BY <1>a
<1>3. /\ main_pc' = "args"
      /\ UNCHANGED <<given, argv, arg, values, amount_of_threads, langs, flags>>
    BY DEF Cli!EndLangs, Cli!input, Cli!options
<1>4. j = Len(given[g][2]) /\ given[g][1] = "-l"
    BY <1>1, <1>2, LangThere DEF InLangs
<1>5. ArgsOf(given, g) /\ LangsOf(given, g) /\ j \in Nat /\ Len(given) \in Nat
    BY <1>1, ArgsFacts, LangsFacts
<1>6. arg = ArgsIn(given, g) + 1 /\ LangsIn(given, g) = LangsIn(given, g - 1) + j
  <2>1. PICK a \in Nat : a = ArgsIn(given, g - 1) /\ ArgsIn(given, g) = a + 1 + j
      BY <1>4, <1>5 DEF ArgsOf
  <2>2. arg = a + 2 + j
      BY <1>2, <2>1 DEF InLangs
  <2>3. arg = ArgsIn(given, g) + 1
    <3>1. ArgsIn(given, g) = a + 1 + j
        BY <2>1
    <3> QED BY ONLY <1>5, <2>2, <3>1, a \in Nat
  <2> QED BY <1>4, <1>5, <2>3 DEF LangsOf
<1>7. AtGroup(g)'
    BY <1>2, <1>3, <1>6 DEF AtGroup, InLangs
<1>8. Cli!SomeThread'
    BY <1>3, SomeThreadKept DEF CliInv
<1>9. g \in 0 .. Len(given)
    BY <1>5
<1> QED BY <1>3, <1>7, <1>8, <1>9 DEF CliInv

\* All arguments are read.
LEMMA AllRead ==
    ASSUME CliInv, main_pc = "args", arg > Len(argv)
    PROVE  AtGroup(Len(given))
<1>1. PICK g \in 0 .. Len(given) : AtGroup(g)
    BY DEF CliInv
<1>2. given \in Given /\ argv = AllArgs(given) /\ arg = ArgsIn(given, g) + 1
    BY <1>1 DEF CliInv, AtGroup
<1>3. g = Len(given)
    BY <1>2, BehindGroup
<1> QED BY <1>1, <1>3

\* The manifest is printed, or cannot be had.
LEMMA CliPrintOrFail == ASSUME CliInv, Cli!PrintOrFail PROVE CliInv'
<1>1. /\ main_pc = "args" /\ arg > Len(argv) /\ main_pc' \in {"failed", "printed"}
      /\ UNCHANGED <<given, argv, arg, values, amount_of_threads, langs, flags>>
    BY DEF Cli!PrintOrFail, Cli!input, Cli!options
<1>2. AtGroup(Len(given))
    BY <1>1, AllRead
<1>3. AtGroup(Len(given))'
    BY <1>1, <1>2 DEF AtGroup
<1>4. Cli!SomeThread'
    BY <1>1, SomeThreadKept DEF CliInv
<1>5. ~(arg' <= Len(argv'))
  <2>1. given \in Given /\ argv = AllArgs(given) /\ arg = ArgsIn(given, Len(given)) + 1
      BY <1>2 DEF CliInv, AtGroup
  <2>2. Len(given) \in 0 .. Len(given)
      BY <2>1, ArgsFacts
  <2>3. ArgsIn(given, Len(given)) \in Nat /\ Len(argv) \in Nat
      BY <2>1, <2>2, BehindGroup
  <2> QED BY <1>1, <2>1, <2>3
<1> QED BY <1>1, <1>3, <1>4, <1>5 DEF CliInv

\* The files are chosen.
LEMMA CliSelect == ASSUME CliInv, Cli!Select PROVE CliInv'
<1>1. /\ main_pc = "args" /\ arg > Len(argv) /\ main_pc' = "download"
      /\ UNCHANGED <<given, argv, arg, values, amount_of_threads, langs, flags>>
    BY DEF Cli!Select, Cli!input, Cli!options
<1>2. AtGroup(Len(given))
    BY <1>1, AllRead
<1>3. AtGroup(Len(given))'
    BY <1>1, <1>2 DEF AtGroup
<1>4. Cli!SomeThread'
    BY <1>1, SomeThreadKept DEF CliInv
<1> QED BY <1>1, <1>3, <1>4 DEF CliInv

\* The invariant of the command line.
ReadingInv == algorithm = "cli" => CliInv

\* A step of any of the algorithms keeps it.
LEMMA ReadingStep ==
    ASSUME ReadingInv, [AnyNext]_allVars
    PROVE  ReadingInv'
<1> SUFFICES ASSUME algorithm' = "cli" PROVE CliInv'
    BY DEF ReadingInv
<1>1. ASSUME CliInv, UNCHANGED cli PROVE CliInv'
  <2>1. UNCHANGED <<given, argv, arg, main_pc, values, amount_of_threads, langs, flags, to_download>>
      BY <1>1 DEF cli
  <2>2. Cli!SomeThread'
      BY <1>1, <2>1, SomeThreadKept DEF CliInv
  <2>3. \A g, j : (AtGroup(g)' <=> AtGroup(g)) /\ (InLangs(g, j)' <=> InLangs(g, j))
      BY <2>1 DEF AtGroup, InLangs
  <2> QED BY <1>1, <2>1, <2>2, <2>3 DEF CliInv
<1>2. CASE UNCHANGED allVars
    BY <1>1, <1>2 DEF allVars, ReadingInv
<1>3. CASE AnyNext
  <2>1. algorithm = "cli" /\ Cli!Next
      BY <1>3 DEF AnyNext
  <2>2. CliInv
      BY <2>1 DEF ReadingInv
  <2>3. CASE Cli!Ended
      BY <1>1, <2>2, <2>3 DEF Cli!Ended, Cli!vars, cli
  <2> QED BY <2>1, <2>2, <2>3, CliValue, CliFlag, CliThreads, CliNoValue, CliStartLangs,
             CliAddLang, CliTooMany, CliEndLangs, CliPrint, CliOther, CliPrintOrFail, CliSelect
          DEF Cli!Next
<1> QED BY <1>2, <1>3

\* The value that was read is the one that is meant.
LEMMA ValueMeant ==
    ASSUME given \in Given, NEW o, NEW x, ValueIn(given, o, Len(given), x)
    PROVE  x = Cli!Meant(o)
<1> DEFINE valued == {g \in Cli!Groups(o) : given[g][2] # <<>>}
<1>1. DOMAIN given = 1 .. Len(given) /\ Len(given) \in Nat
    BY ArgsFacts
<1>2. \A g : g \in valued <=> g \in 1 .. Len(given) /\ given[g][1] = o /\ given[g][2] # <<>>
    BY <1>1 DEF Cli!Groups
<1>3. Cli!Meant(o) = IF valued = {} THEN ""
                     ELSE given[CHOOSE g \in valued : \A h \in valued : h <= g][2][1]
    BY DEF Cli!Meant
<1> HIDE DEF valued
<1>4. CASE x = "" /\ \A h \in 1 .. Len(given) : given[h][1] = o => given[h][2] = <<>>
  <2>1. valued = {}
      BY <1>2, <1>4
  <2> QED BY <1>3, <1>4, <2>1
<1>5. CASE \E h \in 1 .. Len(given) :
              /\ given[h][1] = o /\ given[h][2] # <<>> /\ x = given[h][2][1]
              /\ \A m \in h + 1 .. Len(given) : given[m][1] = o => given[m][2] = <<>>
  <2>1. PICK h \in 1 .. Len(given) :
              /\ given[h][1] = o /\ given[h][2] # <<>> /\ x = given[h][2][1]
              /\ \A m \in h + 1 .. Len(given) : given[m][1] = o => given[m][2] = <<>>
      BY <1>5
  <2>2. h \in valued
      BY <1>2, <2>1
  <2>3. ASSUME NEW m \in valued PROVE m <= h
    <3>1. m \in 1 .. Len(given) /\ given[m][1] = o /\ given[m][2] # <<>>
        BY <1>2
    <3>2. ~(m \in h + 1 .. Len(given))
        BY <2>1, <3>1
    <3> QED BY <1>1, <3>1, <3>2
  <2>4. ASSUME NEW g \in valued, \A m \in valued : m <= g PROVE g = h
    <3>1. g \in Int /\ h \in Int /\ g <= h /\ h <= g
        BY <1>2, <2>2, <2>3, <2>4
    <3> QED BY ONLY <3>1
  <2>5. (CHOOSE g \in valued : \A m \in valued : m <= g) = h
      BY <2>2, <2>3, <2>4
  <2> QED BY <1>3, <2>1, <2>2, <2>5
<1> QED BY <1>4, <1>5 DEF ValueIn

\* What is known when the arguments are read.
LEMMA MeaningRead ==
    ASSUME CliInv, AtGroup(Len(given))
    PROVE  /\ \A o \in Options : values[o] = Cli!Meant(o)
           /\ Cli!MeantLangs = AllLangs(given) /\ DOMAIN Cli!MeantLangs = 1 .. Len(AllLangs(given))
           /\ langs = [l \in DOMAIN Cli!MeantLangs |-> Lower[Cli!MeantLangs[l]]]
           /\ flags = {o \in Switches : Cli!Groups(o) # {}}
<1>1. given \in Given /\ DOMAIN given = 1 .. Len(given)
    BY ArgsFacts DEF CliInv
<1>2. \A o \in Options : values[o] = Cli!Meant(o)
  <2> TAKE o \in Options
  <2>1. ValueIn(given, o, Len(given), values[o])
      BY DEF AtGroup, Read
  <2> QED BY <1>1, <2>1, ValueMeant
<1>3. Cli!MeantLangs = AllLangs(given)
  <2>1. AllLangs(given) = Cli!FlattenSeq(Languages(given))
      BY <1>1, LangsFacts
  <2> QED BY <1>1, <2>1 DEF Cli!MeantLangs, Languages
<1>4. DOMAIN Cli!MeantLangs = 1 .. Len(AllLangs(given))
  <2>1. AllLangs(given) \in Seq(STRING)
      BY <1>1, LangsFacts
  <2> QED BY <1>3, <2>1
<1>5. langs = [l \in DOMAIN Cli!MeantLangs |-> Lower[Cli!MeantLangs[l]]]
    BY <1>3, <1>4 DEF AtGroup, Lowered, LangsIn, AllLangs
<1>6. flags = {o \in Switches : Cli!Groups(o) # {}}
  <2>1. \A o : Cli!Groups(o) # {} <=> \E h \in 1 .. Len(given) : given[h][1] = o
      BY <1>1 DEF Cli!Groups
  <2> QED BY <2>1 DEF AtGroup, Read, FlagsIn
<1> QED BY <1>2, <1>3, <1>4, <1>5, <1>6

\* The invariant says that the options are the ones that are meant.
LEMMA GivesOptions == CliInv => Cli!OptionsMeant
<1> SUFFICES ASSUME CliInv PROVE Cli!OptionsMeant
    OBVIOUS
<1>1. Cli!SomeThread /\ Len(langs) <= MaxLangs
    BY DEF CliInv
<1>2. ASSUME main_pc = "failed", arg <= Len(argv) PROVE Len(Cli!MeantLangs) > MaxLangs
  <2>1. given \in Given /\ DOMAIN given = 1 .. Len(given)
      BY ArgsFacts DEF CliInv
  <2>2. Cli!MeantLangs = AllLangs(given)
    <3>1. AllLangs(given) = Cli!FlattenSeq(Languages(given))
        BY <2>1, LangsFacts
    <3> QED BY <2>1, <3>1 DEF Cli!MeantLangs, Languages
  <2> QED BY <1>2, <2>2 DEF CliInv
<1>3. Cli!LangsFit
    BY <1>1, <1>2 DEF Cli!LangsFit
<1>4. ASSUME main_pc \in {"printed", "download"}
      PROVE  /\ \A o \in DOMAIN values : values[o] = Cli!Meant(o)
             /\ langs = [l \in DOMAIN Cli!MeantLangs |-> Lower[Cli!MeantLangs[l]]]
             /\ flags = {o \in Cli!Flags \cup {"--print-manifest"} : Cli!Groups(o) # {}}
  <2>1. AtGroup(Len(given)) /\ DOMAIN values = Options
      BY <1>4 DEF CliInv
  <2> QED BY <2>1, MeaningRead DEF Switches
<1> QED BY <1>1, <1>3, <1>4 DEF Cli!OptionsMeant

\* The options are those the user has written, the languages fit their array, and
\* there is a thread, for command lines of every length.
THEOREM OptionsAlwaysMeant == AnySpec => []OptionsMeant
<1>1. AnyInit => ReadingInv
    BY CliBegins DEF AnyInit, ReadingInv
<1>2. ReadingInv /\ [AnyNext]_allVars => ReadingInv'
    BY ReadingStep
<1>3. ReadingInv => OptionsMeant
    BY GivesOptions DEF ReadingInv, OptionsMeant
<1> QED BY <1>1, <1>2, <1>3, PTL DEF AnySpec

=============================================================================
