-------------------------- MODULE SortedListProofs --------------------------
(***************************************************************************)
(* Proofs about SortedList, for lists of any length: the order, the bounds *)
(* of every access, the result of a search, and that the list is a bag.    *)
(***************************************************************************)
EXTENDS SortedList, FiniteSetTheorems, TLAPS

\* The approach cannot leave the list: what is still to be walked fits on
\* either side of the position.
Reach == pc = "approach" => /\ 2 * step <= position
                            /\ position + 2 * step <= length

\* In the walk upwards everything before the position is smaller than the key,
\* unless the walk has not begun: then the position itself is not larger.
Below == pc = "up" => \/ position < length /\ objects[position + 1] <= value
                      \/ \A i \in 1 .. position : objects[i] < value

NotEmpty == pc \in {"approach", "down", "up"} => length # 0

\* out_object is still NULL, and the room can grow by a half.
Fresh == (pc # "idle" => out = NULL) /\ allocated_length >= 2

IInv == TypeOK /\ Sorted /\ InBounds /\ Reach /\ Below /\ NotEmpty /\ FindRight /\ Fresh

\* An insertion between objects that are not larger and objects that are not
\* smaller keeps the order.
LEMMA InsertedSorted ==
    ASSUME NEW s \in Seq(Key), NEW p \in 0 .. Len(s), NEW k \in Key,
           \A i, j \in 1 .. Len(s) : i < j => s[i] <= s[j],
           \A i \in 1 .. p : s[i] <= k,
           \A i \in (p + 1) .. Len(s) : k <= s[i]
    PROVE  /\ Inserted(s, p, k) \in Seq(Key)
           /\ Len(Inserted(s, p, k)) = Len(s) + 1
           /\ \A i, j \in 1 .. Len(s) + 1 : i < j => Inserted(s, p, k)[i] <= Inserted(s, p, k)[j]
<1> DEFINE t == Inserted(s, p, k)
<1>1. \A i \in 1 .. Len(s) : s[i] \in Int
  <2>1. \A i \in 1 .. Len(s) : s[i] \in Key
    OBVIOUS
  <2>2. QED
    BY <2>1, KeyAssumption
<1>2. \A i \in 1 .. Len(s) + 1 : /\ i <= p => t[i] = s[i]
                                 /\ i = p + 1 => t[i] = k
                                 /\ i > p + 1 => t[i] = s[i - 1]
  BY DEF Inserted
<1>3. /\ t \in Seq(Key) /\ Len(t) = Len(s) + 1
  <2>1. t \in [1 .. Len(s) + 1 -> Key]
    BY DEF Inserted
  <2>2. QED
    BY <2>1
<1>4. ASSUME NEW i \in 1 .. Len(s) + 1, NEW j \in 1 .. Len(s) + 1, i < j
      PROVE  t[i] <= t[j]
  <2> k \in Int
    BY KeyAssumption
  <2>1. CASE j <= p
    BY <1>1, <1>2, <1>4, <2>1
  <2>2. CASE j = p + 1
    BY <1>1, <1>2, <1>4, <2>2
  <2>3. CASE j > p + 1 /\ i <= p
    BY SMTT(30), <1>1, <1>2, <1>4, <2>3
  <2>4. CASE j > p + 1 /\ i = p + 1
    BY <1>1, <1>2, <1>4, <2>4
  <2>5. CASE j > p + 1 /\ i > p + 1
    <3>1. t[i] = s[i - 1] /\ t[j] = s[j - 1]
      BY <1>2, <2>5
    <3>2. i - 1 \in 1 .. Len(s) /\ j - 1 \in 1 .. Len(s) /\ i - 1 < j - 1
      BY <1>4, <2>5
    <3>3. QED
      BY <3>1, <3>2
  <2>6. QED
    BY <2>1, <2>2, <2>3, <2>4, <2>5
<1>5. QED
  BY <1>3, <1>4

\* A new list satisfies the invariant.
LEMMA InitInv == Init => IInv
BY KeyAssumption, SizeAssumption
   DEF Init, IInv, TypeOK, Sorted, InBounds, Reach, Below, NotEmpty, FindRight, Fresh, length, NULL

\* Every step of a search or an insertion keeps the invariant.
LEMMA NextInv == IInv /\ [Next]_vars => IInv'
<1> SUFFICES ASSUME IInv, [Next]_vars PROVE IInv'
  OBVIOUS
<1> USE DEF IInv, length
<1>k. /\ length \in Nat /\ value \in Int
      /\ \A i \in 1 .. length : objects[i] \in Int
  <2>1. /\ length \in Nat /\ value \in Key
        /\ \A i \in 1 .. length : objects[i] \in Key
    BY DEF TypeOK
  <2>2. QED
    BY <2>1, KeyAssumption
<1>1. ASSUME NEW o \in {"find", "add"}, NEW k \in Key, Call(o, k) PROVE IInv'
  BY <1>1 DEF Call, TypeOK, Sorted, InBounds, Reach, Below, NotEmpty, FindRight, Fresh, NULL
<1>2. CASE Empty
  <2>1. CASE op = "add"
    BY <1>2, <2>1 DEF Empty, TypeOK, Sorted, InBounds, Reach, Below, NotEmpty, FindRight, Fresh, NULL
  <2>2. CASE op = "find"
    BY <1>2, <2>2 DEF Empty, TypeOK, Sorted, InBounds, Reach, Below, NotEmpty, FindRight, Fresh, NULL
  <2>3. QED
    BY <2>1, <2>2 DEF TypeOK
<1>3. CASE Start
  BY <1>3, <1>k DEF Start, Grown, TypeOK, Sorted, InBounds, Reach, Below, NotEmpty, FindRight, Fresh, Limit
<1>4. CASE Approach
  BY <1>4, <1>k DEF Approach, KeyAt, TypeOK, Sorted, InBounds, Reach, Below, NotEmpty, FindRight, Fresh, Limit
<1>5. CASE Approached
  BY <1>5 DEF Approached, TypeOK, Sorted, InBounds, Reach, Below, NotEmpty, FindRight, Fresh, Limit
<1>6. CASE Down
  BY <1>6 DEF Down, TooHigh, TypeOK, Sorted, InBounds, Reach, Below, NotEmpty, FindRight, Fresh, Limit
<1>7. CASE DownEnds
  BY <1>7, <1>k DEF DownEnds, TooHigh, KeyAt, TypeOK, Sorted, InBounds, Reach, Below, NotEmpty, FindRight, Fresh, Limit
<1>8. CASE Up
  BY <1>8, <1>k DEF Up, TooLow, KeyAt, TypeOK, Sorted, InBounds, Reach, Below, NotEmpty, FindRight, Fresh, Limit
<1>9. CASE Found
  <2>1. FindRight'
    BY SMTT(30), <1>9, <1>k DEF Found, TooLow, KeyAt, TypeOK, Sorted, InBounds, Below, NotEmpty, FindRight, Fresh, Limit, NULL
  <2>2. QED
    BY <1>9, <2>1 DEF Found, TypeOK, Sorted, InBounds, Reach, Below, NotEmpty, Fresh, Limit, NULL
<1>10. CASE Insert
  <2>1. /\ position \in 0 .. Len(objects) /\ objects \in Seq(Key) /\ value \in Key
        /\ \A i \in 1 .. position : objects[i] <= value
        /\ \A i \in (position + 1) .. Len(objects) : value <= objects[i]
    BY SMTT(30), <1>10, <1>k DEF Insert, TooLow, KeyAt, TypeOK, Sorted, InBounds, Below, Limit
  <2>2. /\ objects' \in Seq(Key) /\ Len(objects') = Len(objects) + 1
        /\ Sorted'
    BY <1>10, <2>1, InsertedSorted DEF Insert, Sorted
  <2>3. QED
    BY <1>10, <2>2 DEF Insert, TypeOK, InBounds, Reach, Below, NotEmpty, FindRight, Fresh, Limit
<1>11. CASE UNCHANGED vars
  BY <1>11 DEF vars, TypeOK, Sorted, InBounds, Reach, Below, NotEmpty, FindRight, Fresh, Limit, KeyAt, NULL
<1>12. QED
  BY <1>1, <1>2, <1>3, <1>4, <1>5, <1>6, <1>7, <1>8, <1>9, <1>10, <1>11 DEF Next, Work

\* The types of the list and of the search hold in every state.
THEOREM TypeCorrect == Spec => []TypeOK
<1>1. IInv => TypeOK
  BY DEF IInv
<1>2. QED
  BY <1>1, InitInv, NextInv, PTL DEF Spec

\* The objects stay in order under any sequence of searches and insertions, for
\* every length and all keys, equal ones included (list.h:54-99).
THEOREM SortedAlways == Spec => []Sorted
<1>1. IInv => Sorted
  BY DEF IInv
<1>2. QED
  BY <1>1, InitInv, NextInv, PTL DEF Spec

\* No access of a search or an insertion is outside the array, and the array has
\* room for every insertion (list.h:56-67, 78-97).
THEOREM InBoundsAlways == Spec => []InBounds
<1>1. IInv => InBounds
  BY DEF IInv
<1>2. QED
  BY <1>1, InitInv, NextInv, PTL DEF Spec

\* A search finds an object with its key iff there is one (list.h:54-70).
THEOREM FindRightAlways == Spec => []FindRight
<1>1. IInv => FindRight
  BY DEF IInv
<1>2. QED
  BY <1>1, InitInv, NextInv, PTL DEF Spec

\* Where a key stands in a list.
Places(s, k) == {i \in 1 .. Len(s) : s[i] = k}

\* The places of a key in a list are finitely many, so they can be counted.
LEMMA PlacesFinite ==
    ASSUME NEW s \in Seq(Key), NEW k
    PROVE  IsFiniteSet(Places(s, k)) /\ Cardinality(Places(s, k)) \in Nat
<1>1. IsFiniteSet(1 .. Len(s))
  BY FS_Interval
<1>2. IsFiniteSet(Places(s, k))
  BY <1>1, FS_Subset DEF Places
<1>3. QED
  BY <1>2, FS_CardinalityType

\* An insertion moves the places of every key and adds one for the new object.
LEMMA InsertedPlaces ==
    ASSUME NEW s \in Seq(Key), NEW p \in 0 .. Len(s), NEW k \in Key, NEW j \in Key
    PROVE  Cardinality(Places(Inserted(s, p, k), j)) =
               Cardinality(Places(s, j)) + (IF j = k THEN 1 ELSE 0)
<1> DEFINE t == Inserted(s, p, k)
           S == Places(s, j)
           T == Places(t, j) \ {p + 1}
           f == [i \in S |-> IF i <= p THEN i ELSE i + 1]
<1>1. /\ t \in Seq(Key) /\ Len(t) = Len(s) + 1
      /\ \A i \in 1 .. Len(s) + 1 : /\ i <= p => t[i] = s[i]
                                    /\ i = p + 1 => t[i] = k
                                    /\ i > p + 1 => t[i] = s[i - 1]
  <2>1. t \in [1 .. Len(s) + 1 -> Key]
    BY DEF Inserted
  <2>2. QED
    BY <2>1 DEF Inserted
<1> HIDE DEF t
<1>2. f \in [S -> T]
  BY <1>1 DEF Places
<1>3. \A a, b \in S : f[a] = f[b] => a = b
  BY DEF Places
<1>4. ASSUME NEW x \in T PROVE \E i \in S : f[i] = x
  <2>1. CASE x <= p
    <3>1. x \in S
      BY <1>1, <2>1 DEF Places
    <3>2. QED
      BY <2>1, <3>1
  <2>2. CASE x > p + 1
    <3>1. x - 1 \in S /\ ~(x - 1 <= p) /\ (x - 1) + 1 = x
      BY <1>1, <2>2 DEF Places
    <3>2. QED
      BY <3>1
  <2>3. x \in Nat /\ x # p + 1
    BY <1>1, <1>4 DEF Places
  <2>4. QED
    BY <2>1, <2>2, <2>3
<1>5. f \in Bijection(S, T)
  BY <1>2, <1>3, <1>4 DEF Bijection, Injection, Surjection, IsInjective
<1>6. IsFiniteSet(S) /\ IsFiniteSet(T) /\ Cardinality(T) = Cardinality(S)
  BY <1>5, PlacesFinite, FS_Bijection DEF ExistsBijection
<1>7. CASE j = k
  <2>1. Places(t, j) = T \cup {p + 1} /\ p + 1 \notin T
    BY <1>1, <1>7 DEF Places
  <2>2. Cardinality(Places(t, j)) = Cardinality(T) + 1
    BY <1>6, <2>1, FS_AddElement
  <2>3. QED
    BY <1>6, <1>7, <2>2 DEF t
<1>8. CASE j # k
  <2>1. Places(t, j) = T
    BY <1>1, <1>8 DEF Places
  <2>2. Cardinality(S) \in Nat
    BY PlacesFinite
  <2>3. Cardinality(Places(t, j)) = Cardinality(S)
    BY <1>6, <2>1
  <2>4. QED
    BY <1>8, <2>2, <2>3 DEF t
<1>9. QED
  BY <1>7, <1>8 DEF t

\* The list is a bag of keys (Collection): a search answers whether the key was
\* ever added, an insertion adds one object and loses none, for every length
\* (list.h:54-99).
THEOREM CollectionImplemented == Spec => CollectionSpec
<1> DEFINE ask == IF pc = "idle" THEN <<>> ELSE <<op, value>>
<1>o. ASSUME NEW s \in Seq(Key), NEW k PROVE
         Cardinality(Places(s, k)) > 0 <=> \E i \in 1 .. Len(s) : s[i] = k
  <2>1. Places(s, k) # {} <=> \E i \in 1 .. Len(s) : s[i] = k
    BY DEF Places
  <2>2. QED
    BY <2>1, PlacesFinite, FS_EmptySet
<1>1. Init => Bag!Init
  <2> SUFFICES ASSUME Init PROVE Bag!Init
    OBVIOUS
  <2>1. occurrences = [k \in Key |-> 0]
    <3>1. \A k \in Key : {i \in 1 .. length : objects[i] = k} = {}
      BY DEF Init, length
    <3>2. QED
      BY <3>1, FS_EmptySet DEF occurrences
  <2>2. QED
    BY <2>1 DEF Init, Bag!Init, NULL
<1>2. IInv /\ IInv' /\ [Next]_vars => [Bag!Next]_(Bag!vars)
  <2> SUFFICES ASSUME IInv, IInv', [Next]_vars PROVE [Bag!Next]_(Bag!vars)
    OBVIOUS
  <2>s. /\ objects \in Seq(Key) /\ value \in Key /\ op \in {"find", "add"}
        /\ pc # "idle" => out = NULL
    BY DEF IInv, TypeOK, Fresh
  <2>q. occurrences = [k \in Key |-> Cardinality(Places(objects, k))]
    BY DEF occurrences, Places, length
  <2>r. occurrences' = [k \in Key |-> Cardinality(Places(objects', k))]
    BY DEF occurrences, Places, length
  <2>t. ASSUME UNCHANGED <<objects, out>>, ask' = ask PROVE UNCHANGED Bag!vars
    BY <2>q, <2>r, <2>t DEF Bag!vars
  <2>1. ASSUME NEW o \in {"find", "add"}, NEW k \in Key, Call(o, k) PROVE Bag!Next
    <3>1. /\ pc = "idle" /\ pc' = "called" /\ op' = o /\ value' = k /\ out' = NULL
          /\ objects' = objects
      BY <2>1 DEF Call
    <3>2. Bag!Call(o, k)
      BY <2>q, <2>r, <3>1 DEF Bag!Call
    <3>3. QED
      BY <3>2 DEF Bag!Next
  <2>f. ASSUME pc # "idle", pc' = "idle", op = "find", objects' = objects,
               value' = value, op' = op
        PROVE  Bag!Next
    <3>1. (out' # NULL) = (Cardinality(Places(objects, value)) > 0)
      <4>1. (out' # NULL) <=> \E i \in 1 .. Len(objects) : objects[i] = value
        BY <2>f DEF IInv, FindRight, length, NULL
      <4>2. QED
        BY <4>1, <1>o, <2>s
    <3>2. occurrences' = occurrences /\ occurrences[value] = Cardinality(Places(objects, value))
      BY <2>f, <2>q, <2>r, <2>s
    <3>3. Bag!ReturnFind
      BY <2>f, <3>1, <3>2 DEF Bag!ReturnFind
    <3>4. QED
      BY <3>3 DEF Bag!Next
  <2>a. ASSUME pc # "idle", pc' = "idle", op = "add", out' = out, value' = value, op' = op,
               NEW p \in 0 .. Len(objects), objects' = Inserted(objects, p, value)
        PROVE  Bag!Next
    <3>1. \A j \in Key : Cardinality(Places(objects', j)) =
              Cardinality(Places(objects, j)) + (IF j = value THEN 1 ELSE 0)
      BY <2>a, <2>s, InsertedPlaces
    <3>2. \A j \in Key : Cardinality(Places(objects, j)) \in Nat
      BY <2>s, PlacesFinite
    <3>3. occurrences' = [occurrences EXCEPT ![value] = @ + 1]
      BY SMTT(30), <2>q, <2>r, <2>s, <3>1, <3>2
    <3>4. Bag!ReturnAdd
      BY <2>a, <2>s, <3>3 DEF Bag!ReturnAdd
    <3>5. QED
      BY <3>4 DEF Bag!Next
  <2>2. CASE Empty /\ op = "find"
    BY <2>2, <2>f DEF Empty
  <2>3. CASE Empty /\ op = "add"
    <3>1. objects' = Inserted(objects, 0, value)
      <4>1. objects = <<>> /\ Len(objects) = 0 /\ objects' = <<value>>
        BY <2>3, <2>s DEF Empty, length
      <4>2. <<value>> = [j \in 1 .. 1 |-> value]
        OBVIOUS
      <4>3. Inserted(objects, 0, value) = [j \in 1 .. 1 |-> value]
        BY <4>1 DEF Inserted
      <4>4. QED
        BY <4>1, <4>2, <4>3
    <3>2. QED
      BY <2>3, <2>a, <2>s, <3>1 DEF Empty
  <2>4. CASE Found
    BY <2>4, <2>f DEF Found
  <2>5. CASE Insert
    <3>1. position \in 0 .. Len(objects)
      BY <2>5 DEF Insert, IInv, InBounds, Limit, length
    <3>2. QED
      BY <2>5, <2>a, <3>1 DEF Insert
  <2>6. CASE Start \/ Approach \/ Approached \/ Down \/ DownEnds \/ Up \/ UNCHANGED vars
    BY <2>6, <2>t DEF Start, Approach, Approached, Down, DownEnds, Up, vars
  <2>7. QED
    BY <2>1, <2>2, <2>3, <2>4, <2>5, <2>6, <2>s DEF Next, Work
<1>3. QED
  BY <1>1, <1>2, InitInv, NextInv, PTL DEF Spec, CollectionSpec, Bag!Spec
=============================================================================
