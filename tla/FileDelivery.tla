---------------------------- MODULE FileDelivery ----------------------------
(***************************************************************************)
(* What the download pool promises about the output files, without threads *)
(* or pipes.  A file is opened with the number of bundles it is made of;   *)
(* every bundle is delivered into the open file at most once; the file is  *)
(* closed (brought to its final size) only when every bundle has been      *)
(* delivered; nothing happens to a closed file.                            *)
(***************************************************************************)
EXTENDS Integers

CONSTANTS
    NFiles,         \* number of files of the download list
    BundleCounts    \* numbers of bundles a file may consist of

VARIABLES
    job,            \* "absent", "open" or "freed" for every file
    len,            \* number of bundles of a file
    written         \* the bundles already delivered into the file

vars == <<job, len, written>>

Files == 0 .. NFiles - 1

Init ==
    /\ job = [f \in Files |-> "absent"]
    /\ len = [f \in Files |-> 0]
    /\ written = [f \in Files |-> {}]

(* The output file is created, or opened for repair.                       *)
Open(f, n) ==
    /\ job[f] = "absent"
    /\ job' = [job EXCEPT ![f] = "open"]
    /\ len' = [len EXCEPT ![f] = n]
    /\ UNCHANGED written

(* One bundle arrives and all of its chunks are stored.                    *)
Deliver(f, b) ==
    /\ job[f] = "open"
    /\ b \notin written[f]
    /\ written' = [written EXCEPT ![f] = @ \cup {b}]
    /\ UNCHANGED <<job, len>>

(* The file gets its final size and is closed.                             *)
Close(f) ==
    /\ job[f] = "open"
    /\ written[f] = 0 .. len[f] - 1
    /\ job' = [job EXCEPT ![f] = "freed"]
    /\ UNCHANGED <<len, written>>

Next ==
    \E f \in Files :
        \/ \E n \in BundleCounts : Open(f, n)
        \/ \E b \in 0 .. len[f] - 1 : Deliver(f, b)
        \/ Close(f)

Spec == Init /\ [][Next]_vars

=============================================================================
