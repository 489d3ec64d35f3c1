-------------------------- MODULE OutputFileProofs --------------------------
(***************************************************************************)
(* Proofs about OutputFile for files of any number of chunks, any sets of  *)
(* options and any number of runs that are killed or fail.                 *)
(*                                                                         *)
(* The argument.  From the moment the file is one byte too long until that *)
(* byte is cut off, every chunk is on disk, in the stdio buffer or still   *)
(* to be written (Progress).  The byte is cut off when nothing is to be    *)
(* written and the buffer is flushed, so the right size means that all     *)
(* chunks are on disk; a run that dies before leaves the wrong size.  All  *)
(* of this is void from a write that fails until the next repair begins;   *)
(* what the verification finds does not rest on it.                        *)
(***************************************************************************)
EXTENDS OutputFile, TLAPS

(* Where the program is tells what the file on disk looks like.            *)
Disk ==
    /\ ~exists => good = {}
    /\ pc \in {"verify", "open"} => (exists <=> fixup)
    /\ pc \in {"verify", "grow", "write", "trim", "close"} => exists
    /\ pc \in {"write", "trim"} => size > file_size /\ touched
    /\ pc \in {"write", "trim"} /\ ~failed => size = file_size + 1
    /\ pc = "close" /\ ~failed => size = file_size
    /\ pc = "close" => touched

(* No chunk is forgotten on its way to the disk, if no write fails.        *)
Progress ==
    /\ pc \in {"open", "grow"} => todo \cup good = Chunks
    /\ pc = "write" /\ ~failed => todo \cup pending \cup good = Chunks
    /\ pc \in {"trim", "close"} /\ ~failed => good = Chunks
    /\ pc # "write" => pending = {}

(* The options decided that the program got here.                          *)
Permitted ==
    /\ pc # "idle" => outcome = "none"
    /\ pc \in {"open", "grow", "write", "trim", "close"} => "verify_only" \notin options
    /\ pc = "open" /\ ~exists => "existing_only" \notin options

IndInv ==
    /\ TypeOK
    /\ Disk
    /\ Progress
    /\ Permitted
    /\ SizeImpliesComplete
    /\ OutcomeTruthful

(* Init establishes the invariant.                                         *)
LEMMA InitInv == Init => IndInv
<1> SUFFICES ASSUME Init PROVE IndInv
  OBVIOUS
<1> USE ChunkCountsAssumption, MaxMishapsAssumption DEF Init
<1>0. file_size \in Nat
  OBVIOUS
<1>1. size \in 0 .. file_size + 2 /\ good \in SUBSET Chunks
  BY <1>0 DEF Chunks
<1>2. TypeOK
  <2>1. options \in SUBSET OptionNames /\ todo \in SUBSET Chunks /\ pending \in SUBSET Chunks
    OBVIOUS
  <2>2. hash_known \in BOOLEAN /\ exists \in BOOLEAN /\ touched \in BOOLEAN /\ fixup \in BOOLEAN
       /\ failed \in BOOLEAN
    BY Zenon
  <2>3. pc \in PCs /\ outcome \in Outcomes /\ mishaps \in 0 .. MaxMishaps
    BY DEF PCs, Outcomes
  <2>. QED
    BY <1>0, <1>1, <2>1, <2>2, <2>3, Zenon DEF TypeOK
<1>3. ~exists => good = {}
  BY DEF Chunks
<1>4. Disk /\ Progress /\ Permitted /\ SizeImpliesComplete /\ OutcomeTruthful
  BY <1>3 DEF Disk, Progress, Permitted, SizeImpliesComplete, OutcomeTruthful
<1>. QED
  BY <1>2, <1>4 DEF IndInv

(* Every step preserves the types.                                         *)
LEMMA TypeStep == IndInv /\ [Next]_vars => TypeOK'
<1> SUFFICES ASSUME IndInv, [Next]_vars PROVE TypeOK'
  OBVIOUS
<1> USE OptionsAssumption, MaxMishapsAssumption DEF IndInv, TypeOK, Chunks, PCs, Outcomes
<1>1. ASSUME NEW o \in Options, Start(o) PROVE TypeOK'
  BY <1>1 DEF Start, entryVars, diskVars
<1>2. CASE Pass
  BY <1>2 DEF Pass, End, entryVars, diskVars
<1>3. CASE Lookup
  BY <1>3 DEF Lookup, entryVars, diskVars
<1>4. CASE Verify
  BY <1>4 DEF Verify, End, Needed, entryVars, diskVars
<1>5. CASE Truncate
  BY <1>5 DEF Truncate, Cut, End, entryVars
<1>6. CASE Open
  <2>1. CASE fixup
    BY <1>6, <2>1 DEF Open, Reopen, entryVars
  <2>2. CASE ~fixup
    BY <1>6, <2>2 DEF Open, Create, entryVars
  <2>. QED
    BY <2>1, <2>2
<1>7. CASE Grow
  <2>1. CASE todo = {}
    <3>1. size' = file_size + 1 /\ file_size' = file_size /\ pc' = "idle" /\ outcome' = "abandoned"
      BY <1>7, <2>1 DEF Grow, Grown, End, entryVars
    <3>2. UNCHANGED <<hash_known, exists, good, options, fixup, todo, pending, mishaps>>
      BY <1>7, <2>1 DEF Grow, End, entryVars
    <3>3. touched' \in BOOLEAN /\ failed' \in BOOLEAN
      BY <1>7, Zenon DEF Grow
    <3>. QED
      BY <3>1, <3>2, <3>3
  <2>2. CASE todo # {}
    <3>1. size' = file_size + 1 /\ file_size' = file_size /\ pc' = "write"
      BY <1>7, <2>2 DEF Grow, Grown, entryVars
    <3>2. UNCHANGED <<hash_known, exists, good, options, fixup, todo, pending, outcome, mishaps>>
      BY <1>7, <2>2 DEF Grow, entryVars
    <3>3. touched' \in BOOLEAN /\ failed' \in BOOLEAN
      BY <1>7, Zenon DEF Grow
    <3>. QED
      BY <3>1, <3>2, <3>3
  <2>. QED
    BY <2>1, <2>2
<1>8. ASSUME NEW c \in todo, WriteChunk(c) PROVE TypeOK'
  BY <1>8 DEF WriteChunk, entryVars
<1>9. CASE TransferFails
  BY <1>9 DEF TransferFails, Flush, entryVars
<1>10. CASE CleanupFlush
  BY <1>10 DEF CleanupFlush, FlushFirst, Flush, entryVars
<1>11. CASE CleanupTruncate
  <2>1. size' \in 0 .. size /\ good' \in SUBSET good
    <3>1. CASE failed
      BY <1>11, <3>1 DEF CleanupTruncate
    <3>2. CASE ~failed
      BY <1>11, <3>2 DEF CleanupTruncate, Disk
    <3>. QED
      BY <3>1, <3>2
  <2>2. UNCHANGED <<file_size, hash_known, exists, touched, failed, options, fixup, todo, pending>>
        /\ UNCHANGED <<outcome, mishaps>> /\ pc' = "close"
    BY <1>11 DEF CleanupTruncate, entryVars
  <2>. QED
    BY <2>1, <2>2
<1>12. CASE CleanupClose
  BY <1>12 DEF CleanupClose, Flush, End, entryVars
<1>13. CASE Kill
  BY <1>13 DEF Kill, entryVars
<1>14. CASE UNCHANGED vars
  BY <1>14 DEF vars, entryVars, diskVars, runVars
<1>15. ASSUME NEW c \in todo, WriteChunkFails(c) PROVE TypeOK'
  BY <1>15 DEF WriteChunkFails, WriteFails, entryVars
<1>16. CASE CleanupFlushFails
  BY <1>16 DEF CleanupFlushFails, WriteFails, entryVars
<1>. QED
  BY <1>1, <1>2, <1>3, <1>4, <1>5, <1>6, <1>7, <1>8, <1>9, <1>10, <1>11, <1>12,
     <1>13, <1>14, <1>15, <1>16 DEF Next, Begin, Step, Mishap

(* Every step preserves what is known of the disk.                         *)
LEMMA DiskStep == IndInv /\ [Next]_vars => Disk'
<1> SUFFICES ASSUME IndInv, [Next]_vars PROVE Disk'
  OBVIOUS
<1> USE DEF IndInv, TypeOK, Disk
<1>1. ASSUME NEW o \in Options, Start(o) PROVE Disk'
  BY <1>1 DEF Start, entryVars, diskVars
<1>2. CASE Pass
  BY <1>2 DEF Pass, End, entryVars, diskVars
<1>3. CASE Lookup
  BY <1>3 DEF Lookup, entryVars, diskVars
<1>4. CASE Verify
  BY <1>4 DEF Verify, End, entryVars, diskVars
<1>5. CASE Truncate
  BY <1>5 DEF Truncate, End, entryVars
<1>6. CASE Open
  BY <1>6 DEF Open, Reopen, Create, entryVars
<1>7. CASE Grow
  BY <1>7 DEF Grow, Grown, End, entryVars
<1>8. ASSUME NEW c \in todo, WriteChunk(c) PROVE Disk'
  BY <1>8 DEF WriteChunk, entryVars
<1>9. CASE TransferFails
  BY <1>9 DEF TransferFails, Flush, entryVars
<1>10. CASE CleanupFlush
  BY <1>10 DEF CleanupFlush, FlushFirst, Flush, entryVars
<1>11. CASE CleanupTruncate
  BY <1>11 DEF CleanupTruncate, entryVars
<1>12. CASE CleanupClose
  BY <1>12 DEF CleanupClose, Flush, End, entryVars
<1>13. CASE Kill
  BY <1>13 DEF Kill, entryVars, Progress
<1>14. CASE UNCHANGED vars
  BY <1>14 DEF vars, entryVars, diskVars, runVars
<1>15. ASSUME NEW c \in todo, WriteChunkFails(c) PROVE Disk'
  BY <1>15 DEF WriteChunkFails, WriteFails, entryVars
<1>16. CASE CleanupFlushFails
  BY <1>16 DEF CleanupFlushFails, WriteFails, entryVars
<1>. QED
  BY <1>1, <1>2, <1>3, <1>4, <1>5, <1>6, <1>7, <1>8, <1>9, <1>10, <1>11, <1>12,
     <1>13, <1>14, <1>15, <1>16 DEF Next, Begin, Step, Mishap

(* No step forgets a chunk.                                                *)
LEMMA ProgressStep == IndInv /\ [Next]_vars => Progress'
<1> SUFFICES ASSUME IndInv, [Next]_vars PROVE Progress'
  OBVIOUS
<1> USE DEF IndInv, TypeOK, Progress, Chunks
<1>1. ASSUME NEW o \in Options, Start(o) PROVE Progress'
  BY <1>1 DEF Start, entryVars, diskVars
<1>2. CASE Pass
  BY <1>2 DEF Pass, End, entryVars, diskVars
<1>3. CASE Lookup
  BY <1>3, Zenon DEF Lookup, entryVars, diskVars, Disk
<1>4. CASE Verify
  BY <1>4 DEF Verify, End, Needed, chunk_valid, entryVars, diskVars
<1>5. CASE Truncate
  BY <1>5 DEF Truncate, End, entryVars
<1>6. CASE Open
  BY <1>6 DEF Open, Reopen, Create, Disk, entryVars
<1>7. CASE Grow
  BY <1>7 DEF Grow, End, entryVars
<1>8. ASSUME NEW c \in todo, WriteChunk(c) PROVE Progress'
  <2>1. pc = "write" /\ UNCHANGED <<pc, failed, file_size>>
    BY <1>8 DEF WriteChunk, entryVars
  <2>2. todo' \cup pending' \cup good' = todo \cup pending \cup good
    BY <1>8 DEF WriteChunk
  <2>. QED
    BY <2>1, <2>2
<1>9. CASE TransferFails
  BY <1>9 DEF TransferFails, Flush, entryVars
<1>10. CASE CleanupFlush
  BY <1>10 DEF CleanupFlush, FlushFirst, Flush, entryVars
<1>11. CASE CleanupTruncate
  <2>1. pc = "trim" /\ pc' = "close" /\ UNCHANGED <<failed, file_size, pending>>
    BY <1>11 DEF CleanupTruncate, entryVars
  <2>2. ASSUME ~failed PROVE good' = Chunks
    <3>1. size' = file_size /\ good' = {c \in good : c < size'} /\ good = Chunks
      BY <1>11, <2>2 DEF CleanupTruncate, Disk
    <3>. QED
      BY <3>1
  <2>. QED
    BY <2>1, <2>2
<1>12. CASE CleanupClose
  BY <1>12 DEF CleanupClose, Flush, End, entryVars
<1>13. CASE Kill
  BY <1>13 DEF Kill, entryVars
<1>14. CASE UNCHANGED vars
  BY <1>14 DEF vars, entryVars, diskVars, runVars
<1>15. ASSUME NEW c \in todo, WriteChunkFails(c) PROVE Progress'
  BY <1>15 DEF WriteChunkFails, WriteFails, entryVars
<1>16. CASE CleanupFlushFails
  BY <1>16 DEF CleanupFlushFails, WriteFails, entryVars
<1>. QED
  BY <1>1, <1>2, <1>3, <1>4, <1>5, <1>6, <1>7, <1>8, <1>9, <1>10, <1>11, <1>12,
     <1>13, <1>14, <1>15, <1>16 DEF Next, Begin, Step, Mishap

(* Every step respects the options.                                        *)
LEMMA PermittedStep == IndInv /\ [Next]_vars => Permitted'
<1> SUFFICES ASSUME IndInv, [Next]_vars PROVE Permitted'
  OBVIOUS
<1> USE DEF IndInv, Permitted
<1>1. ASSUME NEW o \in Options, Start(o) PROVE Permitted'
  BY <1>1 DEF Start, entryVars, diskVars
<1>2. CASE Pass
  BY <1>2 DEF Pass, End, entryVars, diskVars
<1>3. CASE Lookup
  BY <1>3 DEF Lookup, NotWanted, entryVars, diskVars
<1>4. CASE Verify
  BY <1>4 DEF Verify, End, Disk, entryVars, diskVars
<1>5. CASE Truncate
  BY <1>5 DEF Truncate, End, entryVars
<1>6. CASE Open
  BY <1>6 DEF Open, entryVars
<1>7. CASE Grow
  BY <1>7 DEF Grow, End, entryVars
<1>8. ASSUME NEW c \in todo, WriteChunk(c) PROVE Permitted'
  BY <1>8 DEF WriteChunk, entryVars
<1>9. CASE TransferFails
  BY <1>9 DEF TransferFails, entryVars
<1>10. CASE CleanupFlush
  BY <1>10 DEF CleanupFlush, entryVars
<1>11. CASE CleanupTruncate
  BY <1>11 DEF CleanupTruncate, entryVars
<1>12. CASE CleanupClose
  BY <1>12 DEF CleanupClose, End, entryVars
<1>13. CASE Kill
  BY <1>13 DEF Kill, entryVars
<1>14. CASE UNCHANGED vars
  BY <1>14 DEF vars, entryVars, diskVars, runVars
<1>15. ASSUME NEW c \in todo, WriteChunkFails(c) PROVE Permitted'
  BY <1>15 DEF WriteChunkFails, WriteFails, entryVars
<1>16. CASE CleanupFlushFails
  BY <1>16 DEF CleanupFlushFails, WriteFails, entryVars
<1>. QED
  BY <1>1, <1>2, <1>3, <1>4, <1>5, <1>6, <1>7, <1>8, <1>9, <1>10, <1>11, <1>12,
     <1>13, <1>14, <1>15, <1>16 DEF Next, Begin, Step, Mishap

(* A step that gives the file its final size finds all chunks on disk, and *)
(* no step takes one away from a file of that size.                        *)
LEMMA SizeStep == IndInv /\ [Next]_vars => SizeImpliesComplete'
<1> SUFFICES ASSUME IndInv, [Next]_vars PROVE SizeImpliesComplete'
  OBVIOUS
<1> USE DEF IndInv, TypeOK, SizeImpliesComplete, Chunks
<1>1. ASSUME NEW o \in Options, Start(o) PROVE SizeImpliesComplete'
  BY <1>1 DEF Start, entryVars, diskVars
<1>2. CASE Pass
  BY <1>2 DEF Pass, End, entryVars, diskVars
<1>3. CASE Lookup
  BY <1>3 DEF Lookup, entryVars, diskVars
<1>4. CASE Verify
  BY <1>4 DEF Verify, End, entryVars, diskVars
<1>5. CASE Truncate
  BY <1>5 DEF Truncate, End, Progress, entryVars
<1>6. CASE Open
  <2>1. CASE fixup
    BY <1>6, <2>1 DEF Open, Reopen, entryVars
  <2>2. CASE ~fixup
    <3>1. size' = 0 /\ good' = {} /\ file_size' = file_size
      BY <1>6, <2>2 DEF Open, Create, entryVars
    <3>. QED
      BY <3>1
  <2>. QED
    BY <2>1, <2>2
<1>7. CASE Grow
  BY <1>7 DEF Grow, Grown, End, entryVars
<1>8. ASSUME NEW c \in todo, WriteChunk(c) PROVE SizeImpliesComplete'
  BY <1>8 DEF WriteChunk, Disk, entryVars
<1>9. CASE TransferFails
  BY <1>9 DEF TransferFails, Disk, entryVars
<1>10. CASE CleanupFlush
  BY <1>10 DEF CleanupFlush, Disk, entryVars
<1>11. CASE CleanupTruncate
  BY <1>11 DEF CleanupTruncate, Progress, entryVars
<1>12. CASE CleanupClose
  BY <1>12 DEF CleanupClose, Flush, End, Progress, entryVars
<1>13. CASE Kill
  BY <1>13 DEF Kill, entryVars
<1>14. CASE UNCHANGED vars
  BY <1>14 DEF vars, entryVars, diskVars, runVars
<1>15. ASSUME NEW c \in todo, WriteChunkFails(c) PROVE SizeImpliesComplete'
  BY <1>15 DEF WriteChunkFails, WriteFails, Disk, entryVars
<1>16. CASE CleanupFlushFails
  BY <1>16 DEF CleanupFlushFails, WriteFails, Disk, entryVars
<1>. QED
  BY <1>1, <1>2, <1>3, <1>4, <1>5, <1>6, <1>7, <1>8, <1>9, <1>10, <1>11, <1>12,
     <1>13, <1>14, <1>15, <1>16 DEF Next, Begin, Step, Mishap

(* Every step that ends a run reports what is on disk; between two runs    *)
(* the disk does not change.                                               *)
LEMMA OutcomeStep == IndInv /\ [Next]_vars => OutcomeTruthful'
<1> SUFFICES ASSUME IndInv, [Next]_vars PROVE OutcomeTruthful'
  OBVIOUS
<1> USE DEF IndInv, TypeOK, OutcomeTruthful, Intact, Chunks, Permitted
<1>1. ASSUME NEW o \in Options, Start(o) PROVE OutcomeTruthful'
  BY <1>1 DEF Start, entryVars, diskVars
<1>2. CASE Pass
  BY <1>2 DEF Pass, End, Skipped, SizeImpliesComplete, entryVars, diskVars
<1>3. CASE Lookup
  BY <1>3 DEF Lookup, entryVars, diskVars
<1>4. CASE Verify
  <2>1. UNCHANGED <<file_size, hash_known, exists, size, good, touched>>
    BY <1>4 DEF Verify, End, entryVars, diskVars
  <2>2. outcome = "none" /\ exists
    BY <1>4 DEF Verify, Disk
  <2>3. Correct => Intact
    BY <2>2 DEF Correct, Needed, chunk_valid
  <2>4. ~Correct => ~Intact \/ ~hash_known
    BY DEF Correct, Needed, chunk_valid
  <2>5. Intact' <=> Intact
    BY <2>1
  <2>6. \/ Correct /\ outcome' = "correct"
        \/ ~Correct /\ outcome' = "incorrect"
        \/ outcome' = "none"
    BY <1>4, <2>2 DEF Verify, End
  <2>. QED
    BY <2>1, <2>3, <2>4, <2>5, <2>6
<1>5. CASE Truncate
  BY <1>5 DEF Truncate, Cut, End, Progress, Disk, entryVars
<1>6. CASE Open
  BY <1>6 DEF Open, entryVars
<1>7. CASE Grow
  BY <1>7 DEF Grow, End, entryVars
<1>8. ASSUME NEW c \in todo, WriteChunk(c) PROVE OutcomeTruthful'
  BY <1>8 DEF WriteChunk, entryVars
<1>9. CASE TransferFails
  BY <1>9 DEF TransferFails, entryVars
<1>10. CASE CleanupFlush
  BY <1>10 DEF CleanupFlush, entryVars
<1>11. CASE CleanupTruncate
  BY <1>11 DEF CleanupTruncate, entryVars
<1>12. CASE CleanupClose
  BY <1>12 DEF CleanupClose, Flush, End, Progress, Disk, entryVars
<1>13. CASE Kill
  BY <1>13 DEF Kill, entryVars
<1>14. CASE UNCHANGED vars
  BY <1>14 DEF vars, entryVars, diskVars, runVars
<1>15. ASSUME NEW c \in todo, WriteChunkFails(c) PROVE OutcomeTruthful'
  BY <1>15 DEF WriteChunkFails, WriteFails, entryVars
<1>16. CASE CleanupFlushFails
  BY <1>16 DEF CleanupFlushFails, WriteFails, entryVars
<1>. QED
  BY <1>1, <1>2, <1>3, <1>4, <1>5, <1>6, <1>7, <1>8, <1>9, <1>10, <1>11, <1>12,
     <1>13, <1>14, <1>15, <1>16 DEF Next, Begin, Step, Mishap

(* IndInv is an invariant.                                                 *)
LEMMA Invariance == Spec => []IndInv
<1>1. IndInv /\ [Next]_vars => IndInv'
  BY TypeStep, DiskStep, ProgressStep, PermittedStep, SizeStep, OutcomeStep DEF IndInv
<1>. QED
  BY InitInv, <1>1, PTL DEF Spec

-----------------------------------------------------------------------------

(* Type correctness, with the bound of the size of the file.               *)
THEOREM TypeCorrect == Spec => []TypeOK
<1>1. IndInv => TypeOK
  BY DEF IndInv
<1>. QED
  BY Invariance, <1>1, PTL

(* A file the program has written to has the right size only if it is      *)
(* complete, however many runs were killed: --skip-existing (download.c:   *)
(* 153) never skips a file that a run left unfinished.                     *)
THEOREM SizeImpliesCompleteAlways == Spec => []SizeImpliesComplete
<1>1. IndInv => SizeImpliesComplete
  BY DEF IndInv
<1>. QED
  BY Invariance, <1>1, PTL

(* The messages "is correct" and "is incorrect" (download.c:200, 206) and  *)
(* the completion of a repair or a download tell the truth.                *)
THEOREM OutcomeTruthfulAlways == Spec => []OutcomeTruthful
<1>1. IndInv => OutcomeTruthful
  BY DEF IndInv
<1>. QED
  BY Invariance, <1>1, PTL

(* A correct chunk is never destroyed unless a write fails: the only step  *)
(* that empties a file (fopen with "wb", download.c:242) creates it.       *)
THEOREM GoodBytesKeptAlways == Spec => GoodBytesKept
<1>1. IndInv /\ [Next]_vars => [good \subseteq good' \/ failed']_good
  <2> SUFFICES ASSUME IndInv, Next PROVE good \subseteq good' \/ failed'
    BY DEF vars, diskVars
  <2>1. CASE Open
    BY <2>1 DEF Open, Reopen, Create, IndInv, Disk, TypeOK
  <2>2. CASE CleanupTruncate
    <3>1. CASE failed
      BY <2>2, <3>1 DEF CleanupTruncate
    <3>2. CASE ~failed
      <4>1. good \subseteq Chunks /\ size' = file_size /\ good' = {c \in good : c < size'}
        BY <2>2, <3>2 DEF CleanupTruncate, IndInv, TypeOK, Disk
      <4>. QED
        BY <4>1 DEF Chunks, IndInv, TypeOK
    <3>. QED
      BY <3>1, <3>2
  <2>3. ASSUME ~Open, ~CleanupTruncate PROVE good \subseteq good' \/ failed'
    BY <2>3 DEF Next, Begin, Step, Start, Pass, Lookup, Verify, Truncate, Grow, WriteChunk,
         Flush, FlushFirst, CleanupFlush, CleanupClose, TransferFails, Kill,
         WriteChunkFails, CleanupFlushFails, WriteFails, Mishap, End, diskVars
  <2>. QED
    BY <2>1, <2>2, <2>3
<1>. QED
  BY Invariance, <1>1, PTL DEF Spec, GoodBytesKept

(* --verify-only changes nothing on disk and --existing-only creates no    *)
(* file (main.c:75-76), in any combination of the options.                 *)
THEOREM OptionsHonouredAlways == Spec => OptionsHonoured
<1> DEFINE Honours == /\ "verify_only" \notin options
                      /\ "existing_only" \in options => exists' = exists
<1>1. IndInv /\ [Next]_vars => [Honours]_<<exists, size, good>>
  <2> SUFFICES ASSUME IndInv, Next, <<exists, size, good>>' # <<exists, size, good>>
               PROVE  Honours
    BY DEF vars, diskVars
  <2>1. pc \in {"open", "grow", "write", "trim", "close"}
    <3>1. CASE Kill
      BY <3>1 DEF Kill, IndInv, Progress, TypeOK, PCs
    <3>2. CASE TransferFails
      BY <3>2 DEF TransferFails
    <3>3. CASE Begin
      BY <3>3 DEF Begin, Start, diskVars
    <3>4. CASE Step
      BY <3>4 DEF Step, Pass, Lookup, Verify, Truncate, Open, Grow, WriteChunk,
           CleanupFlush, CleanupTruncate, CleanupClose, diskVars
    <3>5. CASE CleanupFlushFails \/ \E c \in todo : WriteChunkFails(c)
      BY <3>5 DEF CleanupFlushFails, WriteChunkFails
    <3>. QED
      BY <3>1, <3>2, <3>3, <3>4, <3>5 DEF Next, Mishap
  <2>2. "verify_only" \notin options
    BY <2>1 DEF IndInv, Permitted
  <2>3. CASE Open
    BY <2>2, <2>3 DEF Open, Reopen, Create, IndInv, Permitted, Disk, TypeOK
  <2>4. ASSUME ~Open PROVE exists' = exists
    BY <2>4 DEF Next, Begin, Step, Start, Pass, Lookup, Verify, Truncate, Grow, WriteChunk,
         CleanupFlush, CleanupTruncate, CleanupClose, TransferFails, Kill,
         WriteChunkFails, CleanupFlushFails, WriteFails, Mishap, diskVars
  <2>. QED
    BY <2>2, <2>3, <2>4
<1>. QED
  BY Invariance, <1>1, PTL DEF Spec, OptionsHonoured

=============================================================================
