----------------------------- MODULE SortedList -----------------------------
(***************************************************************************)
(* The ordered arrays of list.h: find_object_s and add_object_s, one       *)
(* action per round of their loops.  Only the keys of the objects are      *)
(* kept; objects with equal keys are interchangeable.                      *)
(***************************************************************************)
EXTENDS Integers, Sequences, FiniteSets

CONSTANTS Key,         \* keys, a set of integers
          InitialSize, \* room of a new list (16 in initialize_list)
          MaxLength    \* bound of the model on the length of the list

ASSUME KeyAssumption == Key \subseteq Int
\* With room for one object the growth by a half would not grow.
ASSUME SizeAssumption == InitialSize \in Nat /\ InitialSize >= 2
ASSUME LengthAssumption == MaxLength \in Nat

VARIABLES objects,          \* the keys, from position 0 on
          allocated_length, \* room in the array
          pc, op, value,    \* the operation and its argument
          position, step,   \* the search
          out               \* out_object: a position, or NULL

vars == <<objects, allocated_length, pc, op, value, position, step, out>>

NULL == -1
length == Len(objects)
KeyAt(i) == objects[i + 1]

Init == /\ objects = <<>> /\ allocated_length = InitialSize
        /\ pc = "idle" /\ op = "find" /\ value \in Key
        /\ position = 0 /\ step = 0 /\ out = NULL

\* A caller looks for an object, with out_object set to NULL, or adds one.
Call(o, k) ==
    /\ pc = "idle" /\ (o = "add" => length < MaxLength)
    /\ pc' = "called" /\ op' = o /\ value' = k /\ out' = NULL
    /\ UNCHANGED <<objects, allocated_length, position, step>>

\* An empty list: nothing is found; an object is stored without a look at the
\* room.
Empty ==
    /\ pc = "called" /\ length = 0
    /\ objects' = IF op = "add" THEN <<value>> ELSE objects
    /\ pc' = "idle"
    /\ UNCHANGED <<allocated_length, op, value, position, step, out>>

\* Faulty: the array grows only when it is already too small.
GrownLate == IF length > allocated_length
             THEN allocated_length + allocated_length \div 2 ELSE allocated_length
\* add_object_s makes room, by a half of what there is.
Grown == IF length = allocated_length
         THEN allocated_length + allocated_length \div 2 ELSE allocated_length

Start ==
    /\ pc = "called" /\ length # 0
    /\ allocated_length' = IF op = "add" THEN Grown ELSE allocated_length
    /\ position' = length \div 2 /\ step' = (length \div 2) \div 2
    /\ pc' = "approach"
    /\ UNCHANGED <<objects, op, value, out>>

\* The loop that halves its steps, down to steps of two.
Approach ==
    /\ pc = "approach" /\ step > 2
    /\ position' = IF KeyAt(position) > value THEN position - step ELSE position + step
    /\ step' = step \div 2
    /\ UNCHANGED <<objects, allocated_length, pc, op, value, out>>

Approached ==
    /\ pc = "approach" /\ step <= 2 /\ pc' = "down"
    /\ UNCHANGED <<objects, allocated_length, op, value, position, step, out>>

TooHigh == position > 0 /\ KeyAt(position) > value

\* Faulty: the position is not changed.
DownInPlace == pc = "down" /\ TooHigh /\ UNCHANGED vars
Down ==
    /\ pc = "down" /\ TooHigh /\ position' = position - 1
    /\ UNCHANGED <<objects, allocated_length, pc, op, value, step, out>>

DownEnds ==
    /\ pc = "down" /\ ~TooHigh /\ pc' = "up"
    /\ UNCHANGED <<objects, allocated_length, op, value, position, step, out>>

\* A search stays on the objects, an insertion may go behind the last one.
Limit == IF op = "find" THEN length - 1 ELSE length

TooLow == position < Limit /\ KeyAt(position) < value

Up ==
    /\ pc = "up" /\ TooLow /\ position' = position + 1
    /\ UNCHANGED <<objects, allocated_length, pc, op, value, step, out>>

Found ==
    /\ pc = "up" /\ op = "find" /\ ~TooLow
    /\ out' = IF KeyAt(position) = value THEN position ELSE NULL
    /\ pc' = "idle"
    /\ UNCHANGED <<objects, allocated_length, op, value, position, step>>

\* Faulty: the new object takes the place of the one that should move up.
Overwritten(s, i, k) == [j \in 1 .. Len(s) + 1 |-> IF j = i + 1 \/ j > Len(s) THEN k ELSE s[j]]
\* Faulty: the object at position i stays, and the new one comes behind it.
InsertedBehind(s, i, k) ==
    LET at == IF i < Len(s) THEN i + 1 ELSE i
    IN  [j \in 1 .. Len(s) + 1 |-> IF j <= at THEN s[j] ELSE IF j = at + 1 THEN k ELSE s[j - 1]]
\* The objects from position i on move up, and i gets the new one.
Inserted(s, i, k) ==
    [j \in 1 .. Len(s) + 1 |-> IF j <= i THEN s[j] ELSE IF j = i + 1 THEN k ELSE s[j - 1]]

Insert ==
    /\ pc = "up" /\ op = "add" /\ ~TooLow
    /\ objects' = Inserted(objects, position, value)
    /\ pc' = "idle"
    /\ UNCHANGED <<allocated_length, op, value, position, step, out>>

Work == Empty \/ Start \/ Approach \/ Approached \/ Down \/ DownEnds \/ Up \/ Found \/ Insert

Next == (\E o \in {"find", "add"}, k \in Key : Call(o, k)) \/ Work

\* The thread that has called an operation runs on.
Spec == Init /\ [][Next]_vars /\ WF_vars(Work)

-----------------------------------------------------------------------------
\* Every variable has its type; the unsigned position never falls below zero
\* (list.h:58-66).
TypeOK ==
    /\ objects \in Seq(Key) /\ allocated_length \in Nat
    /\ pc \in {"idle", "called", "approach", "down", "up"}
    /\ op \in {"find", "add"} /\ value \in Key
    /\ position \in Nat /\ step \in Nat /\ out \in Int

\* The keys stand in ascending order whenever an operation begins, works or
\* has ended (list.h:54-99).
Sorted == \A i, j \in 1 .. length : i < j => objects[i] <= objects[j]

\* No loop reads behind the last object or before the first one, and an
\* insertion has room for one more object (list.h:56-67 and 78-97).
InBounds ==
    /\ length <= allocated_length
    /\ pc \in {"approach", "down"} => position \in 0 .. length - 1
    /\ pc = "up" => position \in 0 .. Limit
    /\ pc \in {"approach", "down", "up"} /\ op = "add" => length < allocated_length

\* A search returns an object with the key, and does so if there is one
\* (list.h:54-70).
FindRight ==
    pc = "idle" /\ op = "find" =>
        IF \E i \in 1 .. length : objects[i] = value
        THEN out \in 0 .. length - 1 /\ KeyAt(out) = value
        ELSE out = NULL

\* The list is a bag of keys: what is searched for is found iff it was added,
\* and an insertion adds one object and loses none (list.h:54-99).
occurrences == [k \in Key |-> Cardinality({i \in 1 .. length : objects[i] = k})]
Bag == INSTANCE Collection WITH
           bag <- occurrences,
           asked <- IF pc = "idle" THEN <<>> ELSE <<op, value>>,
           answer <- out # NULL
CollectionSpec == Bag!Spec

\* Every search and every insertion returns (the loops of list.h:57-66).
Returns == (pc # "idle") ~> (pc = "idle")
=============================================================================
