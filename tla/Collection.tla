----------------------------- MODULE Collection -----------------------------
(***************************************************************************)
(* What the sorted lists of list.h promise their users: a bag of keys that *)
(* can be asked for a key and can be given one more.  An operation is      *)
(* called, works, and returns.                                             *)
(***************************************************************************)
EXTENDS Integers

CONSTANT Key

VARIABLES bag,    \* how often each key is there
          asked,  \* the operation that is under way, <<>> if there is none
          answer  \* find: whether the object was found

vars == <<bag, asked, answer>>

Init == bag = [k \in Key |-> 0] /\ asked = <<>> /\ answer = FALSE

Call(op, k) == /\ asked = <<>>
               /\ asked' = <<op, k>> /\ answer' = FALSE
               /\ UNCHANGED bag

ReturnFind == /\ asked # <<>> /\ asked[1] = "find"
              /\ answer' = (bag[asked[2]] > 0) /\ asked' = <<>>
              /\ UNCHANGED bag

ReturnAdd == /\ asked # <<>> /\ asked[1] = "add"
             /\ bag' = [bag EXCEPT ![asked[2]] = @ + 1] /\ asked' = <<>>
             /\ UNCHANGED answer

Next == \/ \E op \in {"find", "add"}, k \in Key : Call(op, k)
        \/ ReturnFind \/ ReturnAdd

Spec == Init /\ [][Next]_vars
=============================================================================
