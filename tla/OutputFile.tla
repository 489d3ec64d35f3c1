----------------------------- MODULE OutputFile -----------------------------
(***************************************************************************)
(* One output file of download_files() on disk, over any number of runs of *)
(* the program: the decision what to do with it, its verification, the     *)
(* repair or the first download, and what a run that fails or is killed    *)
(* leaves behind for the next one.                                         *)
(*                                                                         *)
(* All chunks have length 1, so file_size is the number of chunks and      *)
(* chunk c occupies the bytes below c + 1.  The bytes of a chunk are       *)
(* either the right ones (the chunk is in good) or not.  stdio keeps the   *)
(* end of what was last written in its buffer (pending) until the next     *)
(* seek, flush or close; exit() writes it out and a killed process loses   *)
(* it.  On a full disk a write may also fail, which the code never asks.   *)
(***************************************************************************)
EXTENDS Integers, FiniteSets

CONSTANTS
    ChunkCounts,    \* numbers of chunks a file may have
    Options,        \* sets of command line options the user gives
    MaxMishaps      \* bound of the model: runs killed or failing, writes failing

OptionNames == {"verify_only", "skip_existing", "existing_only"}

ASSUME ChunkCountsAssumption == ChunkCounts \subseteq Nat
ASSUME OptionsAssumption == Options \subseteq SUBSET OptionNames
ASSUME MaxMishapsAssumption == MaxMishaps \in Nat

VARIABLES
    \* the file's entry in the manifest
    file_size,
    hash_known,     \* chunk_valid implements the hash type
    \* the disk
    exists,
    size,           \* st_size
    good,           \* chunks whose bytes on disk are right
    touched,        \* the program has written to the file, in this run or before
    failed,         \* a write of its last download or repair has failed
    \* the running program
    pc,
    options,
    fixup,
    todo,           \* chunks still to be written
    pending,        \* chunks in the stdio buffer
    outcome,        \* what the last run did
    mishaps

entryVars == <<file_size, hash_known>>
diskVars  == <<exists, size, good, touched, failed>>
runVars   == <<pc, options, fixup, todo, pending, outcome>>
vars      == <<entryVars, diskVars, runVars, mishaps>>

Chunks == 0 .. file_size - 1

Init ==
    /\ file_size \in ChunkCounts
    /\ hash_known \in BOOLEAN
    /\ exists \in BOOLEAN
    /\ size \in IF exists THEN 0 .. file_size + 2 ELSE {0}
    /\ good \in SUBSET {c \in Chunks : c < size}
    /\ touched = FALSE /\ failed = FALSE
    /\ pc = "idle" /\ options = {} /\ fixup = FALSE
    /\ todo = {} /\ pending = {} /\ outcome = "none"
    /\ mishaps = 0

-----------------------------------------------------------------------------

(* The user runs the program with the options o.                           *)
Start(o) ==
    /\ pc = "idle"
    /\ pc' = "lookup"
    /\ options' = o
    /\ fixup' = FALSE /\ todo' = {} /\ outcome' = "none"
    /\ UNCHANGED <<entryVars, diskVars, pending, mishaps>>

(* The program is through with the file.                                   *)
End(o) ==
    /\ pc' = "idle"
    /\ outcome' = o
    /\ UNCHANGED <<entryVars, options, fixup, todo, mishaps>>

(* Faulty: a file of the right size is never looked into.                  *)
SkippedAlways == exists /\ size = file_size

(* --skip-existing and the size is right.                                  *)
Skipped == exists /\ "skip_existing" \in options /\ size = file_size

(* Faulty: --verify-only is not looked at.                                 *)
NotWantedUnlessExistingOnly == ~exists /\ "existing_only" \in options

(* A missing file that must not be created.                                *)
NotWanted == ~exists /\ options \cap {"existing_only", "verify_only"} # {}

(* The file is left alone.                                                 *)
Pass ==
    /\ pc = "lookup"
    /\ \/ Skipped /\ End("skipped")
       \/ NotWanted /\ End("missing")
    /\ UNCHANGED <<diskVars, pending>>

(* A missing file is downloaded as a whole, an existing one verified.      *)
Lookup ==
    /\ pc = "lookup"
    /\ ~Skipped /\ ~NotWanted
    /\ fixup' = exists
    /\ todo' = IF exists THEN {} ELSE Chunks
    /\ pc' = IF exists THEN "verify" ELSE "open"
    /\ UNCHANGED <<entryVars, diskVars, options, pending, outcome, mishaps>>

(* The hash of the chunk's bytes is its id; a hash type that is not        *)
(* implemented makes every chunk invalid.                                  *)
chunk_valid(c) == hash_known /\ c \in good

(* From the first chunk beyond the end of the file on every chunk is       *)
(* needed, before it the invalid ones.                                     *)
Needed == {c \in Chunks : size < c + 1 \/ ~chunk_valid(c)}

(* Faulty: the size is not compared.                                       *)
CorrectWhateverSize == Needed = {}

Correct == Needed = {} /\ size = file_size

(* Read the file chunk by chunk: it is correct, or it is not and the user  *)
(* only wants to know, or the bad chunks are to be written.                *)
Verify ==
    /\ pc = "verify"
    /\ \/ Correct /\ End("correct")
       \/ ~Correct /\ "verify_only" \in options /\ End("incorrect")
       \/ /\ ~Correct /\ "verify_only" \notin options
          /\ todo' = Needed
          /\ pc' = "open"
          /\ UNCHANGED <<entryVars, options, fixup, outcome, mishaps>>
    /\ UNCHANGED <<diskVars, pending>>

(* truncate()                                                              *)
Cut == size' = file_size

(* All chunks are valid, only the size is wrong.                           *)
Truncate ==
    /\ pc = "open" /\ fixup /\ todo = {}
    /\ Cut
    /\ touched' = TRUE
    /\ End("truncated")
    /\ UNCHANGED <<exists, good, failed, pending>>

(* fopen(..., "wb").                                                       *)
Create == exists' = TRUE /\ size' = 0 /\ good' = {} /\ touched' = TRUE

(* Faulty: the file is opened with "wb".                                   *)
Reopen_wb == Create

(* fopen(..., "rb+").                                                      *)
Reopen == UNCHANGED <<exists, size, good, touched>>

Open ==
    /\ pc = "open" /\ (fixup => todo # {})
    /\ IF fixup THEN Reopen ELSE Create
    /\ pc' = "grow"
    /\ UNCHANGED <<entryVars, failed, options, fixup, todo, pending, outcome, mishaps>>

(* A file that is being written is one byte too long.                      *)
Grown == file_size + 1

(* ftruncate() to that size.  A file without chunks has no bundles either: *)
(* no worker gets it, and the program leaves it as it is.                  *)
Grow ==
    /\ pc = "grow"
    /\ size' = Grown
    /\ touched' = TRUE /\ failed' = FALSE
    /\ IF todo = {}
       THEN End("abandoned")
       ELSE pc' = "write" /\ UNCHANGED <<entryVars, options, fixup, todo, outcome, mishaps>>
    /\ UNCHANGED <<exists, good, pending>>

(* fseeko() flushes what is pending; of what fwrite() is given the last    *)
(* part may stay in the buffer, and with it the chunk is incomplete.       *)
WriteChunk(c) ==
    /\ pc = "write" /\ c \in todo
    /\ \E buffered \in SUBSET {c} :
           /\ pending' = buffered
           /\ good' = good \cup pending \cup ({c} \ buffered)
    /\ todo' = todo \ {c}
    /\ UNCHANGED <<entryVars, exists, size, touched, failed, pc, options, fixup>>
    /\ UNCHANGED <<outcome, mishaps>>

(* A write fails.  The results of fseeko(), fwrite() and fflush() are not  *)
(* looked at, so the program goes on; what of the buffer reaches the disk, *)
(* and where the bytes after a seek that failed go, is up to the library:  *)
(* bytes may be lost, other chunks overwritten and the file made longer.   *)
WriteFails ==
    /\ mishaps < MaxMishaps
    /\ mishaps' = mishaps + 1
    /\ failed' = TRUE
    /\ size' \in size .. file_size + 2
    /\ UNCHANGED <<entryVars, exists, touched, options, fixup, outcome>>

WriteChunkFails(c) ==
    /\ pc = "write" /\ c \in todo
    /\ WriteFails
    /\ good' \in SUBSET (good \cup pending \cup {c})
    /\ pending' \in SUBSET {c}
    /\ todo' = todo \ {c}
    /\ UNCHANGED pc

CleanupFlushFails ==
    /\ pc = "write" /\ todo = {}
    /\ WriteFails
    /\ good' \in SUBSET (good \cup pending)
    /\ pending' = {}
    /\ pc' = "trim"
    /\ UNCHANGED todo

Flush == good' = good \cup pending /\ pending' = {}

(* A transfer or a decompression fails: exit(EXIT_FAILURE) flushes.        *)
TransferFails ==
    /\ pc = "write" /\ todo # {}
    /\ mishaps < MaxMishaps
    /\ mishaps' = mishaps + 1
    /\ Flush
    /\ pc' = "idle" /\ outcome' = "failed"
    /\ UNCHANGED <<entryVars, exists, size, touched, failed, options, fixup, todo>>

(* Faulty: nothing is flushed before the file gets its final size.         *)
FlushLater == UNCHANGED <<good, pending>>

FlushFirst == Flush

(* cleanup_variable_bundle_args: flush, ...                                *)
CleanupFlush ==
    /\ pc = "write" /\ todo = {}
    /\ FlushFirst
    /\ pc' = "trim"
    /\ UNCHANGED <<entryVars, exists, size, touched, failed, options, fixup, todo>>
    /\ UNCHANGED <<outcome, mishaps>>

(* ... cut off the last byte (of what is before the position of the        *)
(* stream, which a failing seek has not moved to the end of the file), ... *)
CleanupTruncate ==
    /\ pc = "trim"
    /\ size' \in IF failed THEN 0 .. size - 1 ELSE {size - 1}
    /\ good' = {c \in good : c < size'}
    /\ pc' = "close"
    /\ UNCHANGED <<entryVars, exists, touched, failed, options, fixup, todo, pending>>
    /\ UNCHANGED <<outcome, mishaps>>

(* ... and close.                                                          *)
CleanupClose ==
    /\ pc = "close"
    /\ Flush
    /\ End("downloaded")
    /\ UNCHANGED <<exists, size, touched, failed>>

(* The process is killed, or aborts because the file cannot be opened:     *)
(* any part of the buffer may have been written.                           *)
Kill ==
    /\ pc # "idle"
    /\ mishaps < MaxMishaps
    /\ mishaps' = mishaps + 1
    /\ \E landed \in SUBSET pending : good' = good \cup landed
    /\ pending' = {}
    /\ pc' = "idle" /\ outcome' = "killed"
    /\ UNCHANGED <<entryVars, exists, size, touched, failed, options, fixup, todo>>

Step ==
    \/ Pass \/ Lookup \/ Verify \/ Truncate \/ Open \/ Grow
    \/ \E c \in todo : WriteChunk(c)
    \/ CleanupFlush \/ CleanupTruncate \/ CleanupClose

Begin == \E o \in Options : Start(o)

Mishap ==
    \/ \E c \in todo : WriteChunkFails(c)
    \/ CleanupFlushFails \/ TransferFails \/ Kill

Next == Begin \/ Step \/ Mishap

Spec == Init /\ [][Next]_vars

(* A running program runs on, and the user runs it again.                  *)
FairSpec == Spec /\ WF_vars(Step) /\ WF_vars(Begin)

-----------------------------------------------------------------------------

PCs == {"idle", "lookup", "verify", "open", "grow", "write", "trim", "close"}

Outcomes == {"none", "skipped", "missing", "correct", "incorrect", "truncated",
             "abandoned", "downloaded", "failed", "killed"}

(* Every variable has its type, and the file never grows beyond the larger *)
(* of its first size and one byte more than its final one.                 *)
TypeOK ==
    /\ file_size \in Nat
    /\ hash_known \in BOOLEAN
    /\ exists \in BOOLEAN
    /\ size \in 0 .. file_size + 2
    /\ good \in SUBSET Chunks
    /\ touched \in BOOLEAN
    /\ failed \in BOOLEAN
    /\ pc \in PCs
    /\ options \in SUBSET OptionNames
    /\ fixup \in BOOLEAN
    /\ todo \in SUBSET Chunks
    /\ pending \in SUBSET Chunks
    /\ outcome \in Outcomes
    /\ mishaps \in 0 .. MaxMishaps

Intact == exists /\ size = file_size /\ good = Chunks

(* A file the program has written to, in this run or in one that was       *)
(* killed, has the right size only if all its chunks are there, unless a   *)
(* write failed: what --skip-existing (download.c:153) relies on, and what *)
(* the extra byte of download.c:247 and its removal in download.c:28-30    *)
(* are for.                                                                *)
SizeImpliesComplete == touched /\ ~failed /\ exists /\ size = file_size => good = Chunks

(* What the run reports is what is on disk: a file found correct or cut to *)
(* its size is intact, whatever happened before; so is a downloaded file   *)
(* unless a write failed, and one called incorrect is not (unless its hash *)
(* type is unknown); one that is skipped is intact unless the program      *)
(* never wrote to it or a write failed.                                    *)
OutcomeTruthful ==
    /\ outcome \in {"correct", "truncated"} => Intact
    /\ outcome = "downloaded" /\ ~failed => Intact
    /\ outcome = "skipped" /\ touched /\ ~failed => Intact
    /\ outcome = "incorrect" => ~Intact \/ ~hash_known

(* The bytes of a chunk that are right stay right, whatever else is        *)
(* repaired, fails or is killed, unless a write failed: the repair writes  *)
(* in place.                                                               *)
GoodBytesKept == [][good \subseteq good' \/ failed']_good

(* --verify-only leaves the disk alone, --existing-only creates no file    *)
(* (main.c:75-76).                                                         *)
OptionsHonoured ==
    [][/\ "verify_only" \notin options
       /\ "existing_only" \in options => exists' = exists]_<<exists, size, good>>

(* A user who from some time on runs the program without options ends up   *)
(* with an intact file that stays so, if finitely many runs are killed or  *)
(* fail and finitely many writes fail unnoticed; with an unknown hash type *)
(* the file is rewritten by every run, but intact again and again.         *)
Converges ==
    <>[](options = {}) => []<>Intact /\ (hash_known => <>[]Intact)

=============================================================================
