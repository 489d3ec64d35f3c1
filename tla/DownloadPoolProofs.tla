------------------------- MODULE DownloadPoolProofs -------------------------
(***************************************************************************)
(* Proofs about DownloadPool for every number of threads, files, bundles   *)
(* and pipe slots, and whatever the timing of the transfers.               *)
(*                                                                         *)
(* The argument.  Call a worker inside a job when it has taken an index of *)
(* the job that belongs to a bundle; it will come back for another index.  *)
(* Every visitor of an open job is inside it or has taken exactly one of   *)
(* the indices past the end, so the visitors not inside are as many as the *)
(* indices taken past the end (Counting).  A worker whose index equals     *)
(* length + threads_visited - 1 thus knows that nobody is inside, and a    *)
(* bundle whose index was taken is in the file or with a worker inside     *)
(* (Covered): the file is complete.                                        *)
(*                                                                         *)
(* When the main thread is done, all workers have returned, and each has   *)
(* come back from every job it was in (Attended): the last file too is     *)
(* delivered.                                                              *)
(***************************************************************************)
EXTENDS DownloadPool, FiniteSetTheorems, SequenceTheorems, TLAPS

(* Where the main thread is tells what it knows of its counters.           *)
MainControl ==
    /\ mpc \notin {"file", "stop", "done"} => i < NFiles
    /\ mpc \in {"stop", "done"} => i = NFiles
    /\ mpc = "stop" => stopped < threads_created

(* Only started workers do anything, and those not idle have a job.        *)
WorkerControl ==
    \A w \in Workers :
        /\ w > threads_created => wpc[w] = "none"
        /\ wpc[w] \in {"none", "returned"} => ~visited[w]
        /\ wpc[w] \notin {"none", "returned"} => variable_args[w] \in Files

Control == MainControl /\ WorkerControl

(* The jobs that exist are those of the files the main thread has passed,  *)
(* and the current one from the point where it is opened.                  *)
JobsOpened ==
    /\ \A f \in Files : i < f => job[f] = "absent"
    /\ mpc \in {"file", "await", "open"} =>
          \A f \in Files : i <= f => job[f] = "absent"
    /\ mpc \in {"spawn", "spawned", "hand", "check", "write", "sent"} =>
          job[i] # "absent"

(* A job exists before anybody refers to it.                               *)
Handles ==
    \A f \in Files : job[f] = "absent" =>
        /\ written[f] = {}
        /\ \A w \in Workers : variable_args[w] # f
        /\ \A k \in 1 .. Len(pipe_to) : pipe_to[k] # f

Inside(f) ==
    {w \in Workers : variable_args[w] = f /\ visited[w] /\ my_index[w] < len[f]}

(* Where a worker is tells what it knows of its index.                     *)
PlaceOf(w) ==
    LET f == variable_args[w]
    IN  /\ visited[w] => f \in Files /\ my_index[w] < index[f]
        /\ wpc[w] = "lock" /\ visited[w] => my_index[w] < len[f]
        /\ wpc[w] \in {"finish", "publish", "branch", "download",
                       "cleanup", "leave", "idle"} => visited[w]
        /\ wpc[w] \in {"finish", "publish", "download"} => my_index[w] < len[f]
        /\ wpc[w] \in {"cleanup", "leave", "idle"} => my_index[w] >= len[f]

Place == \A w \in Workers : PlaceOf(w)

(* No index is taken twice.                                                *)
Distinct ==
    \A v, w \in Workers :
        /\ v # w /\ visited[v] /\ visited[w]
        /\ variable_args[v] = variable_args[w]
        => my_index[v] # my_index[w]

(* A bundle that a worker holds is not yet in the file.                    *)
Fresh ==
    \A w \in Workers : LET f == variable_args[w] IN
        Claiming(w) /\ my_index[w] < len[f] => my_index[w] \notin written[f]

(* Only bundles whose index was taken are in the file.                     *)
Bounded ==
    \A f \in Files : \A b \in written[f] : b < len[f] /\ b < index[f]

PastEnd(f) == IF index[f] > len[f] THEN index[f] - len[f] ELSE 0

(* The visitors that are not inside took one index past the end each.      *)
Counting ==
    \A f \in Files : job[f] = "open" =>
        Cardinality(Inside(f)) = threads_visited[f] - PastEnd(f)

(* A bundle whose index was taken is in the file or with a worker inside.  *)
Covered ==
    \A f \in Files : \A b \in 0 .. len[f] - 1 : b < index[f] =>
        \/ b \in written[f]
        \/ \E w \in Workers : Claiming(w) /\ variable_args[w] = f /\ my_index[w] = b

(* Whoever cleans up, and whoever comes later, finds a complete file and   *)
(* nobody inside.                                                          *)
Complete ==
    /\ \A w \in Workers : wpc[w] = "cleanup" =>
          /\ Inside(variable_args[w]) = {}
          /\ written[variable_args[w]] = 0 .. len[variable_args[w]] - 1
    /\ \A f \in Files : job[f] = "freed" =>
          Inside(f) = {} /\ written[f] = 0 .. len[f] - 1

IndInv ==
    /\ TypeOK /\ Control /\ JobsOpened /\ Handles /\ Place /\ Distinct
    /\ Fresh /\ Bounded /\ Counting /\ Covered /\ Complete

-----------------------------------------------------------------------------

USE ThreadsAssumption, NFilesAssumption, BundleCountsAssumption,
    PipeCapacityAssumption, IndexBoundAssumption

(* Taking the first pointer out of the pipe.                               *)
LEMMA HeadTail ==
    ASSUME NEW S, NEW s \in Seq(S), s # <<>>
    PROVE  /\ Head(s) \in S /\ Tail(s) \in Seq(S)
           /\ Head(s) = s[1] /\ 1 \in 1 .. Len(s)
           /\ \A k \in 1 .. Len(Tail(s)) : Tail(s)[k] = s[k + 1] /\ k + 1 \in 1 .. Len(s)
<1>1. Len(s) \in Nat \ {0} /\ Len(Tail(s)) = Len(s) - 1
    OBVIOUS
<1>2. Head(s) = s[1]
    OBVIOUS
<1> QED
    BY <1>1, <1>2, HeadTailProperties

(* Putting one more pointer into the pipe.                                 *)
LEMMA AppendFacts ==
    ASSUME NEW S, NEW s \in Seq(S), NEW e \in S, NEW t, t = Append(s, e)
    PROVE  \A k \in 1 .. Len(t) : t[k] = e \/ (k \in 1 .. Len(s) /\ t[k] = s[k])
BY AppendProperties

(* The initial states satisfy the inductive invariant.                     *)
LEMMA InitInd == Init => IndInv
<1> SUFFICES ASSUME Init PROVE IndInv
    OBVIOUS
<1>1. TypeOK
    BY DEF Init, TypeOK, MainTypeOK, SharedTypeOK, JobTypeOK, WorkerTypeOK,
        Files, Workers, NoJob, Free, Main
<1>2. Control /\ JobsOpened /\ Handles /\ Place /\ Distinct /\ Fresh /\ Bounded /\ Covered
    BY DEF Init, Control, MainControl, WorkerControl, JobsOpened, Handles, Place,
        PlaceOf, Distinct, Fresh, Bounded, Covered, Claiming, Files, Workers, NoJob
<1>3. Counting /\ Complete
    BY DEF Init, Counting, Complete, Files, Workers
<1> QED
    BY <1>1, <1>2, <1>3 DEF IndInv

-----------------------------------------------------------------------------
(***************************************************************************)
(* Types.                                                                  *)
(***************************************************************************)

(* The main thread keeps the types of its own variables.                   *)
LEMMA MainStepMainType ==
    ASSUME MainTypeOK, SharedTypeOK, MainControl, MainStep
    PROVE  MainTypeOK'
<1> USE DEF Workers, Files, mainVars, spawnVars, pipeVars,
            jobVars, workerVars
<1>1. CASE MainSkipFile
    BY <1>1 DEF MainTypeOK, SharedTypeOK, MainControl, MainSkipFile
<1>2. CASE MainOpenFails
    BY <1>2 DEF MainTypeOK, SharedTypeOK, MainControl, MainOpenFails, Exit
<1>3. CASE MainNeedsFile
    BY <1>3 DEF MainTypeOK, SharedTypeOK, MainControl, MainNeedsFile
<1>4. CASE MainAwaitIdle
    BY <1>4 DEF MainTypeOK, SharedTypeOK, MainControl, MainAwaitIdle,
        KeepNotice
<1>5. CASE MainTruncateFile
    BY <1>5 DEF MainTypeOK, SharedTypeOK, MainControl, MainTruncateFile,
        NextFile
<1>6. CASE \E n \in BundleCounts : MainOpenFile(n)
    BY <1>6 DEF MainTypeOK, SharedTypeOK, MainControl, MainOpenFile, Main, Free
<1>7. CASE MainSpawn
    BY <1>7 DEF MainTypeOK, SharedTypeOK, MainControl, MainSpawn, SpawnMore
<1>8. CASE MainConnectFails
    BY <1>8 DEF MainTypeOK, SharedTypeOK, MainControl, MainConnectFails, Exit
<1>9. CASE MainSpawned
    BY <1>9 DEF MainTypeOK, SharedTypeOK, MainControl, MainSpawned, SpawnMore,
        NextFile, Goto, Free
<1>10. CASE MainDistribute
    BY <1>10 DEF MainTypeOK, SharedTypeOK, MainControl, MainDistribute,
        NextFile, Goto
<1>11. CASE MainTakeIdle
    BY <1>11 DEF MainTypeOK, SharedTypeOK, MainControl, MainTakeIdle,
        TakeIdleNotice
<1>12. CASE MainCheckFinished
  <2>1. CASE FileFinished
    <3>1. i < NFiles
        BY <1>12 DEF MainControl, MainCheckFinished, LeaveFile
    <3>2. do_read' \in BOOLEAN
        BY <1>12, <2>1, Zenon DEF MainCheckFinished, LeaveFile, KeepNotice
    <3>3. mpc' = "file" /\ i' = i + 1 /\ UNCHANGED <<spawnVars, stopped>>
        BY <1>12, <2>1, Zenon DEF MainCheckFinished, LeaveFile, NextFile
    <3> QED
        BY <3>1, <3>2, <3>3 DEF MainTypeOK
  <2>2. CASE ~FileFinished
    BY <1>12, <2>2 DEF MainTypeOK, MainCheckFinished, LeaveFile, Goto
  <2> QED
    BY <2>1, <2>2
<1>13. CASE MainHandOut
    BY <1>13 DEF MainTypeOK, SharedTypeOK, MainControl, MainHandOut
<1>14. CASE MainSent
    BY <1>14 DEF MainTypeOK, SharedTypeOK, MainControl, MainSent, NextFile,
        Goto
<1>15. CASE MainTakeIdleToStop
    BY <1>15 DEF MainTypeOK, SharedTypeOK, MainControl, MainTakeIdleToStop,
        TakeIdleNotice
<1>16. CASE MainStopWorker
    BY <1>16 DEF MainTypeOK, SharedTypeOK, MainControl, MainStopWorker, NoJob
<1>17. CASE MainJoin
    BY <1>17 DEF MainTypeOK, SharedTypeOK, MainControl, MainJoin
<1> QED
    BY <1>1, <1>2, <1>3, <1>4, <1>5, <1>6, <1>7, <1>8, <1>9, <1>10, <1>11,
        <1>12, <1>13, <1>14, <1>15, <1>16, <1>17
        DEF MainStep

(* The main thread keeps the types of the shared variables.                *)
LEMMA MainStepSharedType ==
    ASSUME MainTypeOK, SharedTypeOK, MainControl, MainStep
    PROVE  SharedTypeOK'
<1> USE DEF Workers, Files, mainVars, spawnVars, pipeVars,
            jobVars, workerVars
<1>1. CASE MainSkipFile
    BY <1>1 DEF MainTypeOK, SharedTypeOK, MainControl, MainSkipFile
<1>2. CASE MainOpenFails
    BY <1>2 DEF MainTypeOK, SharedTypeOK, MainControl, MainOpenFails, Exit
<1>3. CASE MainNeedsFile
    BY <1>3 DEF MainTypeOK, SharedTypeOK, MainControl, MainNeedsFile
<1>4. CASE MainAwaitIdle
    BY <1>4 DEF MainTypeOK, SharedTypeOK, MainControl, MainAwaitIdle,
        KeepNotice
<1>5. CASE MainTruncateFile
    BY <1>5 DEF MainTypeOK, SharedTypeOK, MainControl, MainTruncateFile,
        NextFile
<1>6. CASE \E n \in BundleCounts : MainOpenFile(n)
    BY <1>6 DEF MainTypeOK, SharedTypeOK, MainControl, MainOpenFile, Main, Free
<1>7. CASE MainSpawn
    BY <1>7 DEF MainTypeOK, SharedTypeOK, MainControl, MainSpawn, SpawnMore
<1>8. CASE MainConnectFails
    BY <1>8 DEF MainTypeOK, SharedTypeOK, MainControl, MainConnectFails, Exit
<1>9. CASE MainSpawned
    BY <1>9 DEF MainTypeOK, SharedTypeOK, MainControl, MainSpawned, SpawnMore,
        NextFile, Goto, Free
<1>10. CASE MainDistribute
    BY <1>10 DEF MainTypeOK, SharedTypeOK, MainControl, MainDistribute,
        NextFile, Goto
<1>11. CASE MainTakeIdle
    BY <1>11 DEF MainTypeOK, SharedTypeOK, MainControl, MainTakeIdle,
        TakeIdleNotice
<1>12. CASE MainCheckFinished
    BY <1>12 DEF MainTypeOK, SharedTypeOK, MainControl, MainCheckFinished, LeaveFile,
        KeepNotice, NextFile, Goto
<1>13. CASE MainHandOut
    BY <1>13 DEF MainTypeOK, SharedTypeOK, MainControl, MainHandOut
<1>14. CASE MainSent
    BY <1>14 DEF MainTypeOK, SharedTypeOK, MainControl, MainSent, NextFile,
        Goto
<1>15. CASE MainTakeIdleToStop
    BY <1>15 DEF MainTypeOK, SharedTypeOK, MainControl, MainTakeIdleToStop,
        TakeIdleNotice
<1>16. CASE MainStopWorker
    BY <1>16 DEF MainTypeOK, SharedTypeOK, MainControl, MainStopWorker, NoJob
<1>17. CASE MainJoin
    BY <1>17 DEF MainTypeOK, SharedTypeOK, MainControl, MainJoin
<1> QED
    BY <1>1, <1>2, <1>3, <1>4, <1>5, <1>6, <1>7, <1>8, <1>9, <1>10, <1>11,
        <1>12, <1>13, <1>14, <1>15, <1>16, <1>17
        DEF MainStep

(* What no step of the main thread changes.                                *)
LEMMA MainFrame ==
    ASSUME MainStep
    PROVE  /\ MainSpawn \/ UNCHANGED <<workerVars, threads_created>>
           /\ \/ \E n \in BundleCounts : MainOpenFile(n)
              \/ UNCHANGED <<job, len, index, threads_visited, written>>
           /\ \/ \E n \in BundleCounts : MainOpenFile(n)
              \/ MainSpawned \/ UNCHANGED index_lock
           /\ MainHandOut \/ MainStopWorker \/ UNCHANGED pipe_to
BY DEF MainStep, MainSkipFile, MainOpenFails, MainNeedsFile, MainAwaitIdle,
    MainTruncateFile, MainOpenFile, MainSpawn, MainConnectFails, MainSpawned,
    MainDistribute, MainTakeIdle, MainCheckFinished, LeaveFile, MainHandOut, MainSent,
    MainTakeIdleToStop, MainStopWorker, MainJoin, Exit,
    mainVars, spawnVars, pipeVars, jobVars, workerVars

(* The main thread keeps the types of the jobs.                            *)
LEMMA MainStepJobType ==
    ASSUME MainTypeOK, JobTypeOK, MainControl, MainStep
    PROVE  JobTypeOK'
<1> USE DEF Workers, Files
<1>1. CASE \E n \in BundleCounts : MainOpenFile(n)
    BY <1>1 DEF MainTypeOK, JobTypeOK, MainControl, MainOpenFile, Main, Free
<1>2. CASE MainSpawned
    BY <1>2 DEF JobTypeOK, MainSpawned, Free
<1>3. CASE UNCHANGED jobVars
    BY <1>3 DEF JobTypeOK, jobVars
<1> QED
    BY <1>1, <1>2, <1>3, MainFrame DEF jobVars

(* The main thread keeps the types of the workers.                         *)
LEMMA MainStepWorkerType ==
    ASSUME MainTypeOK, WorkerTypeOK, MainControl, MainStep
    PROVE  WorkerTypeOK'
<1>1. CASE MainSpawn
    BY SMTT(30), <1>1 DEF MainTypeOK, WorkerTypeOK, MainControl, MainSpawn, SpawnMore,
        Workers, Files
<1>2. CASE UNCHANGED workerVars
    BY <1>2 DEF WorkerTypeOK, workerVars
<1> QED
    BY <1>1, <1>2, MainFrame

(* What no step of a worker changes.                                       *)
LEMMA WorkerFrame ==
    ASSUME NEW w \in Workers, WStep(w) \/ WTransfer(w)
    PROVE  /\ UNCHANGED <<mainVars, len>>
           /\ WCleanup(w) \/ UNCHANGED job
           /\ WDownload(w) \/ UNCHANGED written
           /\ WClaim(w) \/ UNCHANGED <<index, threads_visited, my_index>>
           /\ WClaim(w) \/ WPublish(w) \/ WCleanup(w) \/ UNCHANGED index_lock
           /\ WNext(w) \/ UNCHANGED <<pipe_to, variable_args>>
           /\ WNext(w) \/ WClaim(w) \/ UNCHANGED visited
BY DEF WStep, WTransfer, WClaim, WReadFinished, WPublish, WBranch, WCleanup,
    WLeave, WNext, WDownload, WFail, Exit,
    mainVars, spawnVars, pipeVars, jobVars, workerVars

(* A worker keeps the types of the shared variables.                       *)
LEMMA WorkerStepSharedType ==
    ASSUME SharedTypeOK, WorkerTypeOK, WorkerControl,
           NEW w \in Workers, WStep(w) \/ WTransfer(w)
    PROVE  SharedTypeOK'
<1>1. CASE WPublish(w)
  <2>1. variable_args[w] \in Files /\ seen[w] \in -1 .. NFiles - 1
    BY <1>1 DEF WorkerTypeOK, WorkerControl, WPublish
  <2> QED
    BY <1>1, <2>1 DEF SharedTypeOK, WPublish, Files, pipeVars
<1>2. CASE WLeave(w)
    BY <1>2 DEF SharedTypeOK, WLeave
<1>3. CASE WNext(w)
    BY <1>3, HeadTail DEF SharedTypeOK, WNext
<1>4. CASE WFail(w)
    BY <1>4 DEF SharedTypeOK, WFail, Exit, pipeVars
<1>5. CASE UNCHANGED <<file_index_finished, pipeVars, proc>>
    BY <1>5 DEF SharedTypeOK, pipeVars
<1> QED
    BY <1>1, <1>2, <1>3, <1>4, <1>5
       DEF WStep, WTransfer, WClaim, WReadFinished, WBranch, WCleanup, WDownload

(* A worker keeps the types of the jobs.                                   *)
LEMMA WorkerStepJobType ==
    ASSUME JobTypeOK, WorkerTypeOK, WorkerControl,
           NEW w \in Workers, WStep(w) \/ WTransfer(w)
    PROVE  JobTypeOK'
<1>1. CASE WClaim(w)
  <2>1. variable_args[w] \in Files
    BY <1>1 DEF WorkerControl, WClaim
  <2>2. index_lock' \in [Files -> Workers \cup {Free, Main}]
    BY <1>1, <2>1 DEF JobTypeOK, WClaim
  <2>3. threads_visited' \in [Files -> Nat]
    BY <1>1, <2>1 DEF JobTypeOK, WClaim
  <2>4. index' \in [Files -> Nat]
    <3>1. index' = [index EXCEPT ![variable_args[w]] = index[variable_args[w]] + 1]
        BY <1>1 DEF WClaim, TakeIndex
    <3> QED
        BY <2>1, <3>1 DEF JobTypeOK
  <2> QED
    BY <1>1, <2>2, <2>3, <2>4 DEF JobTypeOK, WClaim
<1>2. CASE WPublish(w)
    BY <1>2 DEF JobTypeOK, WPublish
<1>3. CASE WCleanup(w)
    BY <1>3 DEF JobTypeOK, WCleanup
<1>4. CASE WDownload(w)
  <2>1. variable_args[w] \in Files /\ my_index[w] \in Nat
    BY <1>4 DEF WorkerTypeOK, WorkerControl, WDownload
  <2> QED
    BY <1>4, <2>1 DEF JobTypeOK, WDownload
<1>5. CASE UNCHANGED jobVars
    BY <1>5 DEF JobTypeOK, jobVars
<1> QED
    BY <1>1, <1>2, <1>3, <1>4, <1>5, WorkerFrame DEF jobVars

(* A worker keeps the types of the workers.                                *)
LEMMA WorkerStepWorkerType ==
    ASSUME SharedTypeOK, JobTypeOK, WorkerTypeOK, WorkerControl,
           NEW w \in Workers, WStep(w) \/ WTransfer(w)
    PROVE  WorkerTypeOK'
<1>1. CASE WClaim(w)
    BY <1>1 DEF WorkerTypeOK, JobTypeOK, WorkerControl, WClaim, TakeIndex
<1>2. CASE WReadFinished(w)
    BY <1>2 DEF WorkerTypeOK, SharedTypeOK, WReadFinished
<1>3. CASE WPublish(w)
    BY <1>3 DEF WorkerTypeOK, WPublish
<1>4. CASE WBranch(w)
    BY <1>4 DEF WorkerTypeOK, WBranch
<1>5. CASE WCleanup(w)
    BY <1>5 DEF WorkerTypeOK, WCleanup, CleanedUp
<1>6. CASE WLeave(w)
    BY <1>6 DEF WorkerTypeOK, WLeave
<1>7. CASE WNext(w)
  <2>1. Head(pipe_to) \in Files \cup {NoJob}
    BY <1>7, HeadTail DEF SharedTypeOK, WNext
  <2> QED
    BY <1>7, <2>1 DEF WorkerTypeOK, WNext, NewVisit
<1>8. CASE WDownload(w)
    BY <1>8 DEF WorkerTypeOK, WDownload
<1>9. CASE WFail(w)
    BY <1>9 DEF WorkerTypeOK, WFail, Exit, workerVars
<1> QED
    BY <1>1, <1>2, <1>3, <1>4, <1>5, <1>6, <1>7, <1>8, <1>9 DEF WStep, WTransfer

-----------------------------------------------------------------------------
(***************************************************************************)
(* Control and the jobs the threads refer to.                              *)
(***************************************************************************)

(* The counters of the main thread agree with its program counter.         *)
LEMMA MainStepMainControl ==
    ASSUME MainTypeOK, MainControl, MainStep
    PROVE  MainControl'
<1> USE DEF Workers, Files, mainVars, spawnVars, pipeVars,
            jobVars, workerVars
<1>1. CASE MainSkipFile
    BY <1>1 DEF MainTypeOK, MainControl, MainSkipFile
<1>2. CASE MainOpenFails
    BY <1>2 DEF MainTypeOK, MainControl, MainOpenFails, Exit
<1>3. CASE MainNeedsFile
    BY <1>3 DEF MainTypeOK, MainControl, MainNeedsFile
<1>4. CASE MainAwaitIdle
    BY <1>4 DEF MainTypeOK, MainControl, MainAwaitIdle, KeepNotice
<1>5. CASE MainTruncateFile
    BY <1>5 DEF MainTypeOK, MainControl, MainTruncateFile, NextFile
<1>6. CASE \E n \in BundleCounts : MainOpenFile(n)
    BY <1>6 DEF MainTypeOK, MainControl, MainOpenFile, Main, Free
<1>7. CASE MainSpawn
    BY <1>7 DEF MainTypeOK, MainControl, MainSpawn, SpawnMore
<1>8. CASE MainConnectFails
    BY <1>8 DEF MainTypeOK, MainControl, MainConnectFails, Exit
<1>9. CASE MainSpawned
    BY <1>9 DEF MainTypeOK, MainControl, MainSpawned, SpawnMore, NextFile,
        Goto, Free
<1>10. CASE MainDistribute
    BY <1>10 DEF MainTypeOK, MainControl, MainDistribute, NextFile, Goto
<1>11. CASE MainTakeIdle
    BY <1>11 DEF MainTypeOK, MainControl, MainTakeIdle, TakeIdleNotice
<1>12. CASE MainCheckFinished
    BY <1>12 DEF MainTypeOK, MainControl, MainCheckFinished, LeaveFile, KeepNotice,
        NextFile, Goto
<1>13. CASE MainHandOut
    BY <1>13 DEF MainTypeOK, MainControl, MainHandOut
<1>14. CASE MainSent
    BY <1>14 DEF MainTypeOK, MainControl, MainSent, NextFile, Goto
<1>15. CASE MainTakeIdleToStop
    BY <1>15 DEF MainTypeOK, MainControl, MainTakeIdleToStop,
        TakeIdleNotice
<1>16. CASE MainStopWorker
    BY <1>16 DEF MainTypeOK, MainControl, MainStopWorker, NoJob
<1>17. CASE MainJoin
    BY <1>17 DEF MainTypeOK, MainControl, MainJoin
<1> QED
    BY <1>1, <1>2, <1>3, <1>4, <1>5, <1>6, <1>7, <1>8, <1>9, <1>10, <1>11,
        <1>12, <1>13, <1>14, <1>15, <1>16, <1>17
        DEF MainStep

(* The main thread starts workers one after the other.                     *)
LEMMA MainStepWorkerControl ==
    ASSUME MainTypeOK, WorkerTypeOK, MainControl, WorkerControl, MainStep
    PROVE  WorkerControl'
<1>1. CASE MainSpawn
    BY <1>1 DEF MainTypeOK, WorkerTypeOK, MainControl, WorkerControl, MainSpawn,
        SpawnMore, Workers, Files
<1>2. CASE UNCHANGED <<workerVars, threads_created>>
    BY <1>2 DEF WorkerControl, workerVars
<1> QED
    BY <1>1, <1>2, MainFrame

(* A worker that is not idle has a job.                                    *)
LEMMA WorkerStepWorkerControl ==
    ASSUME SharedTypeOK, WorkerTypeOK, WorkerControl,
           NEW w \in Workers, WStep(w) \/ WTransfer(w)
    PROVE  WorkerControl'
<1> USE DEF mainVars, spawnVars
<1>1. CASE WClaim(w)
    BY <1>1 DEF WorkerTypeOK, WorkerControl, WClaim
<1>2. CASE WReadFinished(w)
    BY <1>2 DEF WorkerTypeOK, WorkerControl, WReadFinished
<1>3. CASE WPublish(w)
    BY <1>3 DEF WorkerTypeOK, WorkerControl, WPublish
<1>4. CASE WBranch(w)
    BY <1>4 DEF WorkerTypeOK, WorkerControl, WBranch
<1>5. CASE WCleanup(w)
    BY <1>5 DEF WorkerTypeOK, WorkerControl, WCleanup, CleanedUp
<1>6. CASE WLeave(w)
    BY <1>6 DEF WorkerTypeOK, WorkerControl, WLeave
<1>7. CASE WNext(w)
  <2>1. Head(pipe_to) \in Files \cup {NoJob}
    BY <1>7, HeadTail DEF SharedTypeOK, WNext
  <2> QED
    BY <1>7, <2>1 DEF WorkerTypeOK, WorkerControl, WNext, NewVisit
<1>8. CASE WDownload(w)
    BY <1>8 DEF WorkerTypeOK, WorkerControl, WDownload
<1>9. CASE WFail(w)
    BY <1>9 DEF WorkerControl, WFail, Exit, workerVars
<1> QED
    BY <1>1, <1>2, <1>3, <1>4, <1>5, <1>6, <1>7, <1>8, <1>9 DEF WStep, WTransfer

(* The main thread opens the jobs in the order of the files.               *)
LEMMA MainStepJobsOpened ==
    ASSUME MainTypeOK, JobTypeOK, MainControl, JobsOpened, MainStep
    PROVE  JobsOpened'
<1> USE DEF Workers, Files, mainVars, spawnVars, pipeVars,
            jobVars, workerVars
<1>1. CASE MainSkipFile
    BY <1>1 DEF MainTypeOK, JobTypeOK, MainControl, JobsOpened,
        MainSkipFile
<1>2. CASE MainOpenFails
    BY <1>2 DEF MainTypeOK, JobTypeOK, MainControl, JobsOpened,
        MainOpenFails, Exit
<1>3. CASE MainNeedsFile
    BY <1>3 DEF MainTypeOK, JobTypeOK, MainControl, JobsOpened,
        MainNeedsFile
<1>4. CASE MainAwaitIdle
    BY <1>4 DEF MainTypeOK, JobTypeOK, MainControl, JobsOpened,
        MainAwaitIdle, KeepNotice
<1>5. CASE MainTruncateFile
    BY <1>5 DEF MainTypeOK, JobTypeOK, MainControl, JobsOpened,
        MainTruncateFile, NextFile
<1>6. CASE \E n \in BundleCounts : MainOpenFile(n)
    BY <1>6 DEF MainTypeOK, JobTypeOK, MainControl, JobsOpened,
        MainOpenFile, Main, Free
<1>7. CASE MainSpawn
    BY <1>7 DEF MainTypeOK, JobTypeOK, MainControl, JobsOpened, MainSpawn,
        SpawnMore
<1>8. CASE MainConnectFails
    BY <1>8 DEF MainTypeOK, JobTypeOK, MainControl, JobsOpened,
        MainConnectFails, Exit
<1>9. CASE MainSpawned
    BY SMTT(30), <1>9 DEF MainTypeOK, JobTypeOK, MainControl, JobsOpened,
        MainSpawned, SpawnMore, NextFile, Goto, Free
<1>10. CASE MainDistribute
    <2>1. CASE NextFile
        BY <1>10, <2>1 DEF MainTypeOK, JobTypeOK, MainControl, JobsOpened,
            MainDistribute, NextFile, jobVars
    <2>2. CASE Goto("hand")
        BY <1>10, <2>2 DEF MainTypeOK, JobTypeOK, MainControl, JobsOpened,
            MainDistribute, Goto, jobVars
    <2>. QED
        BY <1>10, <2>1, <2>2 DEF MainDistribute
<1>11. CASE MainTakeIdle
    BY <1>11 DEF MainTypeOK, JobTypeOK, MainControl, JobsOpened,
        MainTakeIdle, TakeIdleNotice
<1>12. CASE MainCheckFinished
    BY SMTT(30), <1>12 DEF MainTypeOK, JobTypeOK, MainControl, JobsOpened,
        MainCheckFinished, LeaveFile, KeepNotice, NextFile, Goto
<1>13. CASE MainHandOut
    BY <1>13 DEF MainTypeOK, JobTypeOK, MainControl, JobsOpened,
        MainHandOut
<1>14. CASE MainSent
    BY <1>14 DEF MainTypeOK, JobTypeOK, MainControl, JobsOpened, MainSent,
        NextFile, Goto
<1>15. CASE MainTakeIdleToStop
    BY <1>15 DEF MainTypeOK, JobTypeOK, MainControl, JobsOpened,
        MainTakeIdleToStop, TakeIdleNotice
<1>16. CASE MainStopWorker
    BY <1>16 DEF MainTypeOK, JobTypeOK, MainControl, JobsOpened,
        MainStopWorker, NoJob
<1>17. CASE MainJoin
    BY <1>17 DEF MainTypeOK, JobTypeOK, MainControl, JobsOpened, MainJoin
<1> QED
    BY <1>1, <1>2, <1>3, <1>4, <1>5, <1>6, <1>7, <1>8, <1>9, <1>10, <1>11,
        <1>12, <1>13, <1>14, <1>15, <1>16, <1>17
        DEF MainStep

(* The main thread hands out only jobs it has opened.                      *)
LEMMA MainStepHandles ==
    ASSUME MainTypeOK, SharedTypeOK, JobTypeOK, WorkerTypeOK, MainControl,
           JobsOpened, Handles, MainStep
    PROVE  Handles'
<1>1. CASE \E n \in BundleCounts : MainOpenFile(n)
    BY <1>1 DEF MainTypeOK, JobTypeOK, MainControl, Handles, MainOpenFile,
        pipeVars, workerVars, Files
<1>2. CASE MainSpawn
    BY <1>2 DEF MainTypeOK, WorkerTypeOK, MainControl, JobsOpened, Handles,
        MainSpawn, SpawnMore, pipeVars, jobVars, Files, Workers
<1>3. CASE MainHandOut
  <2>1. i \in Files /\ job[i] # "absent" /\ pipe_to' = Append(pipe_to, i)
    BY <1>3 DEF MainTypeOK, MainControl, JobsOpened, MainHandOut, Files
  <2>2. \A k \in 1 .. Len(pipe_to') :
            pipe_to'[k] = i \/ (k \in 1 .. Len(pipe_to) /\ pipe_to'[k] = pipe_to[k])
    BY <2>1, AppendFacts DEF SharedTypeOK
  <2> QED
    BY <1>3, <2>1, <2>2 DEF Handles, MainHandOut, jobVars, workerVars
<1>4. CASE MainStopWorker
  <2>1. pipe_to' = Append(pipe_to, NoJob) /\ NoJob \in Files \cup {NoJob}
        /\ pipe_to \in Seq(Files \cup {NoJob})
    BY <1>4 DEF MainStopWorker, SharedTypeOK
  <2>2. \A k \in 1 .. Len(pipe_to') :
            pipe_to'[k] = NoJob \/ (k \in 1 .. Len(pipe_to) /\ pipe_to'[k] = pipe_to[k])
    BY <2>1, AppendFacts
  <2>3. NoJob \notin Files
    BY DEF NoJob, Files
  <2> QED
    BY <1>4, <2>2, <2>3 DEF Handles, MainStopWorker, jobVars, workerVars
<1>5. CASE UNCHANGED <<job, written, variable_args, pipe_to>>
    BY <1>5 DEF Handles
<1> QED
    BY <1>1, <1>2, <1>3, <1>4, <1>5, MainFrame DEF workerVars

(* A worker opens no job.                                                  *)
LEMMA WorkerStepJobsOpened ==
    ASSUME MainTypeOK, JobTypeOK, MainControl, WorkerControl, JobsOpened,
           NEW w \in Workers, WStep(w) \/ WTransfer(w)
    PROVE  JobsOpened'
<1>1. UNCHANGED <<mpc, i>>
    BY WorkerFrame DEF mainVars
<1>2. CASE WCleanup(w)
  <2>1. variable_args[w] \in Files /\ job[variable_args[w]] = "open"
    BY <1>2 DEF WorkerControl, WCleanup
  <2>2. \A f \in Files : job[f] = "absent" => job'[f] = "absent"
    BY <1>2, <2>1 DEF JobTypeOK, WCleanup
  <2>3. mpc \notin {"file", "stop", "done"} /\ job[i] # "absent" => job'[i] # "absent"
    BY <1>2, <2>1 DEF MainTypeOK, MainControl, JobTypeOK, WCleanup, Files
  <2> QED
    BY <1>1, <2>2, <2>3 DEF JobsOpened
<1>3. CASE UNCHANGED job
    BY <1>1, <1>3 DEF JobsOpened
<1> QED
    BY <1>2, <1>3, WorkerFrame

(* A worker refers only to jobs it was handed.                             *)
LEMMA WorkerStepHandles ==
    ASSUME SharedTypeOK, JobTypeOK, WorkerTypeOK, WorkerControl, Handles,
           NEW w \in Workers, WStep(w) \/ WTransfer(w)
    PROVE  Handles'
<1>1. CASE WCleanup(w)
    BY <1>1 DEF JobTypeOK, Handles, WCleanup, pipeVars
<1>2. CASE WDownload(w)
    BY <1>2 DEF JobTypeOK, WorkerControl, Handles, WDownload, pipeVars
<1>3. CASE WNext(w)
  <2>1. /\ Head(pipe_to) = pipe_to[1] /\ 1 \in 1 .. Len(pipe_to)
        /\ \A k \in 1 .. Len(pipe_to') :
              pipe_to'[k] = pipe_to[k + 1] /\ k + 1 \in 1 .. Len(pipe_to)
    BY <1>3, HeadTail DEF SharedTypeOK, WNext
  <2> QED
    BY <1>3, <2>1 DEF WorkerTypeOK, Handles, WNext, jobVars
<1>4. CASE UNCHANGED <<job, written, variable_args, pipe_to>>
    BY <1>4 DEF Handles
<1> QED
    BY <1>1, <1>2, <1>3, <1>4, WorkerFrame

-----------------------------------------------------------------------------
(***************************************************************************)
(* Indices, bundles and visitors.                                          *)
(***************************************************************************)

(* A step of a worker keeps what every worker knows of its index.          *)
LEMMA WorkerStepPlace ==
    ASSUME SharedTypeOK, JobTypeOK, WorkerTypeOK, WorkerControl, Place,
           NEW w \in Workers, WStep(w) \/ WTransfer(w)
    PROVE  Place'
<1> USE DEF jobVars
<1>1. CASE WClaim(w)
  <2> DEFINE f == variable_args[w]
  <2>1. f \in Files /\ index[f] \in Nat /\ len[f] \in Nat
    BY <1>1 DEF JobTypeOK, WorkerControl, WClaim
  <2>2. my_index'[w] = index[f] /\ index'[f] = index[f] + 1 /\ UNCHANGED <<variable_args, len>>
    BY <1>1, <2>1 DEF JobTypeOK, WorkerTypeOK, WClaim, TakeIndex
  <2>3. /\ (wpc'[w] = "finish" /\ index[f] + 1 = len[f]) \/ wpc'[w] = "branch"
        /\ visited'[w]
    BY <1>1 DEF WorkerTypeOK, WClaim, LastTaken
  <2>4. ASSUME NEW v \in Workers, v # w
        PROVE  my_index'[v] = my_index[v] /\ wpc'[v] = wpc[v] /\ visited'[v] = visited[v]
    BY <1>1, <2>4 DEF WorkerTypeOK, WClaim, TakeIndex
  <2>5. \A g \in Files : index'[g] >= index[g]
    BY <1>1, <2>1 DEF JobTypeOK, WClaim, TakeIndex
  <2>6. PlaceOf(w)'
    BY <2>1, <2>2, <2>3 DEF PlaceOf
  <2>7. ASSUME NEW v \in Workers, v # w PROVE PlaceOf(v)'
    <3>1. PlaceOf(v) /\ my_index[v] \in Nat
        BY DEF Place, WorkerTypeOK
    <3>2. visited[v] => my_index[v] < index'[variable_args[v]]
      <4>1. visited[v] => variable_args[v] \in Files /\ my_index[v] < index[variable_args[v]]
        BY <3>1 DEF PlaceOf
      <4>2. variable_args[v] \in Files =>
                /\ index[variable_args[v]] \in Nat /\ index'[variable_args[v]] \in Nat
                /\ index'[variable_args[v]] >= index[variable_args[v]]
        BY <1>1, <2>1, <2>5 DEF JobTypeOK, WClaim, TakeIndex
      <4> QED
        BY <3>1, <4>1, <4>2
    <3> QED
        BY <2>2, <2>4, <2>7, <3>1, <3>2 DEF PlaceOf
  <2> QED
    BY <2>6, <2>7 DEF Place
<1>2. CASE WReadFinished(w)
    BY <1>2 DEF JobTypeOK, WorkerTypeOK, WorkerControl, Place, PlaceOf, WReadFinished
<1>3. CASE WPublish(w)
    BY <1>3 DEF JobTypeOK, WorkerTypeOK, WorkerControl, Place, PlaceOf, WPublish
<1>4. CASE WBranch(w)
    BY <1>4 DEF JobTypeOK, WorkerTypeOK, WorkerControl, Place, PlaceOf, WBranch, HasBundle, LastVisitor
<1>5. CASE WCleanup(w)
    BY <1>5 DEF JobTypeOK, WorkerTypeOK, WorkerControl, Place, PlaceOf, WCleanup, CleanedUp
<1>6. CASE WLeave(w)
    BY <1>6 DEF JobTypeOK, WorkerTypeOK, WorkerControl, Place, PlaceOf, WLeave
<1>7. CASE WNext(w)
    BY <1>7 DEF JobTypeOK, WorkerTypeOK, WorkerControl, Place, PlaceOf, WNext, NewVisit
<1>8. CASE WDownload(w)
    BY <1>8 DEF JobTypeOK, WorkerTypeOK, WorkerControl, Place, PlaceOf, WDownload
<1>9. CASE WFail(w)
    BY <1>9 DEF Place, PlaceOf, WFail, Exit, workerVars
<1> QED
    BY <1>1, <1>2, <1>3, <1>4, <1>5, <1>6, <1>7, <1>8, <1>9 DEF WStep, WTransfer

(* A step of a worker keeps the indices of a job distinct.                 *)
LEMMA WorkerStepDistinct ==
    ASSUME JobTypeOK, WorkerTypeOK, WorkerControl, Place, Distinct,
           NEW w \in Workers, WStep(w) \/ WTransfer(w)
    PROVE  Distinct'
<1> USE DEF jobVars, Claiming, Place, PlaceOf
<1>1. CASE WClaim(w)
    BY <1>1 DEF JobTypeOK, WorkerTypeOK, WorkerControl, Distinct, WClaim, TakeIndex
<1>2. CASE WReadFinished(w)
    BY <1>2 DEF JobTypeOK, WorkerTypeOK, WorkerControl, Distinct, WReadFinished
<1>3. CASE WPublish(w)
    BY <1>3 DEF JobTypeOK, WorkerTypeOK, WorkerControl, Distinct, WPublish
<1>4. CASE WBranch(w)
    BY <1>4 DEF JobTypeOK, WorkerTypeOK, WorkerControl, Distinct, WBranch, HasBundle, LastVisitor
<1>5. CASE WCleanup(w)
    BY <1>5 DEF JobTypeOK, WorkerTypeOK, WorkerControl, Distinct, WCleanup, CleanedUp
<1>6. CASE WLeave(w)
    BY <1>6 DEF JobTypeOK, WorkerTypeOK, WorkerControl, Distinct, WLeave
<1>7. CASE WNext(w)
    BY <1>7 DEF JobTypeOK, WorkerTypeOK, WorkerControl, Distinct, WNext, NewVisit
<1>8. CASE WDownload(w)
    BY <1>8 DEF JobTypeOK, WorkerTypeOK, WorkerControl, Distinct, WDownload
<1>9. CASE WFail(w)
    BY <1>9 DEF Distinct, WFail, Exit, workerVars
<1> QED
    BY <1>1, <1>2, <1>3, <1>4, <1>5, <1>6, <1>7, <1>8, <1>9 DEF WStep, WTransfer

(* A step of a worker writes no bundle that is with another.               *)
LEMMA WorkerStepFresh ==
    ASSUME JobTypeOK, WorkerTypeOK, WorkerControl, Place, Distinct, Fresh,
           Bounded,
           NEW w \in Workers, WStep(w) \/ WTransfer(w)
    PROVE  Fresh'
<1> USE DEF jobVars, Claiming, Place, PlaceOf
<1>1. CASE WClaim(w)
    BY <1>1 DEF JobTypeOK, WorkerTypeOK, WorkerControl, Distinct, Fresh, Bounded, WClaim, TakeIndex
<1>2. CASE WReadFinished(w)
    BY <1>2 DEF JobTypeOK, WorkerTypeOK, WorkerControl, Distinct, Fresh, Bounded, WReadFinished
<1>3. CASE WPublish(w)
    BY <1>3 DEF JobTypeOK, WorkerTypeOK, WorkerControl, Distinct, Fresh, Bounded, WPublish
<1>4. CASE WBranch(w)
    BY <1>4 DEF JobTypeOK, WorkerTypeOK, WorkerControl, Distinct, Fresh, Bounded, WBranch, HasBundle, LastVisitor
<1>5. CASE WCleanup(w)
    BY <1>5 DEF JobTypeOK, WorkerTypeOK, WorkerControl, Distinct, Fresh, Bounded, WCleanup, CleanedUp
<1>6. CASE WLeave(w)
    BY <1>6 DEF JobTypeOK, WorkerTypeOK, WorkerControl, Distinct, Fresh, Bounded, WLeave
<1>7. CASE WNext(w)
    BY <1>7 DEF JobTypeOK, WorkerTypeOK, WorkerControl, Distinct, Fresh, Bounded, WNext, NewVisit
<1>8. CASE WDownload(w)
    BY <1>8 DEF JobTypeOK, WorkerTypeOK, WorkerControl, Distinct, Fresh, Bounded, WDownload
<1>9. CASE WFail(w)
    BY <1>9 DEF Fresh, WFail, Exit, workerVars
<1> QED
    BY <1>1, <1>2, <1>3, <1>4, <1>5, <1>6, <1>7, <1>8, <1>9 DEF WStep, WTransfer

(* What is written of a job are bundles whose index was taken.             *)
LEMMA WorkerStepBounded ==
    ASSUME JobTypeOK, WorkerTypeOK, WorkerControl, Place, Bounded,
           NEW w \in Workers, WStep(w) \/ WTransfer(w)
    PROVE  Bounded'
<1> USE DEF jobVars, Claiming, Place, PlaceOf
<1>1. CASE WClaim(w)
    BY <1>1 DEF JobTypeOK, WorkerTypeOK, WorkerControl, Bounded, WClaim, TakeIndex
<1>2. CASE WReadFinished(w)
    BY <1>2 DEF JobTypeOK, WorkerTypeOK, WorkerControl, Bounded, WReadFinished
<1>3. CASE WPublish(w)
    BY <1>3 DEF JobTypeOK, WorkerTypeOK, WorkerControl, Bounded, WPublish
<1>4. CASE WBranch(w)
    BY <1>4 DEF JobTypeOK, WorkerTypeOK, WorkerControl, Bounded, WBranch, HasBundle, LastVisitor
<1>5. CASE WCleanup(w)
    BY <1>5 DEF JobTypeOK, WorkerTypeOK, WorkerControl, Bounded, WCleanup, CleanedUp
<1>6. CASE WLeave(w)
    BY <1>6 DEF JobTypeOK, WorkerTypeOK, WorkerControl, Bounded, WLeave
<1>7. CASE WNext(w)
    BY <1>7 DEF JobTypeOK, WorkerTypeOK, WorkerControl, Bounded, WNext, NewVisit
<1>8. CASE WDownload(w)
    BY <1>8 DEF JobTypeOK, WorkerTypeOK, WorkerControl, Bounded, WDownload
<1>9. CASE WFail(w)
    BY <1>9 DEF Bounded, WFail, Exit, workerVars
<1> QED
    BY <1>1, <1>2, <1>3, <1>4, <1>5, <1>6, <1>7, <1>8, <1>9 DEF WStep, WTransfer

(* A step of a worker loses no bundle that was taken.                      *)
LEMMA WorkerStepCovered ==
    ASSUME JobTypeOK, WorkerTypeOK, WorkerControl, Place, Covered,
           NEW w \in Workers, WStep(w) \/ WTransfer(w)
    PROVE  Covered'
<1> USE DEF jobVars, Claiming, Place, PlaceOf
<1>1. CASE WClaim(w)
  <2> DEFINE f == variable_args[w]
  <2>1. f \in Files /\ wpc[w] = "lock" /\ UNCHANGED <<variable_args, len, written>>
    BY <1>1 DEF WorkerControl, WClaim
  <2>2. my_index'[w] = index[f] /\ wpc'[w] \in {"finish", "branch"}
    BY <1>1, <2>1 DEF WorkerTypeOK, WClaim, TakeIndex
  <2>3. \A v \in Workers \ {w} : my_index'[v] = my_index[v] /\ wpc'[v] = wpc[v]
    BY <1>1 DEF WorkerTypeOK, WClaim, TakeIndex
  <2>4. /\ index'[f] = index[f] + 1
        /\ \A g \in Files \ {f} : index'[g] = index[g]
    BY <1>1, <2>1 DEF JobTypeOK, WClaim, TakeIndex
  <2>5. SUFFICES ASSUME NEW g \in Files, NEW b \in 0 .. len[g] - 1, b < index'[g],
                        b \notin written[g]
                 PROVE  \E v \in Workers : Claiming(v)' /\ variable_args[v] = g /\ my_index'[v] = b
    BY <2>1 DEF Covered
  <2>6. CASE g = f /\ b = index[f]
    BY <2>1, <2>2, <2>6
  <2>7. CASE ~(g = f /\ b = index[f])
    <3>1. b < index[g]
        BY <2>1, <2>4, <2>5, <2>7 DEF JobTypeOK
    <3>2. PICK v \in Workers : Claiming(v) /\ variable_args[v] = g /\ my_index[v] = b
        BY <2>5, <3>1 DEF Covered
    <3> QED
        BY <2>1, <2>3, <3>2
  <2> QED
    BY <2>6, <2>7
<1>2. CASE WReadFinished(w)
    BY <1>2 DEF JobTypeOK, WorkerTypeOK, WorkerControl, Covered, WReadFinished
<1>3. CASE WPublish(w)
    BY <1>3 DEF JobTypeOK, WorkerTypeOK, WorkerControl, Covered, WPublish
<1>4. CASE WBranch(w)
    BY <1>4 DEF JobTypeOK, WorkerTypeOK, WorkerControl, Covered, WBranch, HasBundle, LastVisitor
<1>5. CASE WCleanup(w)
    BY <1>5 DEF JobTypeOK, WorkerTypeOK, WorkerControl, Covered, WCleanup, CleanedUp
<1>6. CASE WLeave(w)
    BY <1>6 DEF JobTypeOK, WorkerTypeOK, WorkerControl, Covered, WLeave
<1>7. CASE WNext(w)
    BY <1>7 DEF JobTypeOK, WorkerTypeOK, WorkerControl, Covered, WNext, NewVisit
<1>8. CASE WDownload(w)
    BY <1>8 DEF JobTypeOK, WorkerTypeOK, WorkerControl, Covered, WDownload
<1>9. CASE WFail(w)
    BY <1>9 DEF Covered, WFail, Exit, workerVars
<1> QED
    BY <1>1, <1>2, <1>3, <1>4, <1>5, <1>6, <1>7, <1>8, <1>9 DEF WStep, WTransfer

(* The sets Inside(f) are finite, so that their sizes can be counted.      *)
LEMMA InsideFinite ==
    ASSUME NEW f
    PROVE  IsFiniteSet(Inside(f)) /\ Cardinality(Inside(f)) \in Nat
<1>1. IsFiniteSet(Workers)
    BY FS_Interval DEF Workers
<1>2. Inside(f) \in SUBSET Workers
    BY DEF Inside
<1> QED
    BY <1>1, <1>2, FS_Subset, FS_CardinalityType

(* Every step but the taking of an index leaves the sets Inside(f) alone,  *)
(* as long as they are those of jobs that exist.                           *)
LEMMA WorkerStepInside ==
    ASSUME SharedTypeOK, JobTypeOK, WorkerTypeOK, WorkerControl, Place,
           NEW w \in Workers, WStep(w) \/ WTransfer(w), ~WClaim(w),
           NEW f \in Files
    PROVE  Inside(f)' = Inside(f)
<1>1. CASE WNext(w)
  <2>1. ~visited'[w] /\ my_index[w] >= len[variable_args[w]]
    BY <1>1 DEF WorkerTypeOK, Place, PlaceOf, WNext, NewVisit
  <2>2. \A v \in Workers \ {w} :
            visited'[v] = visited[v] /\ variable_args'[v] = variable_args[v]
    BY <1>1 DEF WorkerTypeOK, WNext, NewVisit
  <2>3. UNCHANGED <<len, my_index>>
    BY WorkerFrame
  <2>4. w \notin Inside(f)
    BY <2>1 DEF Inside, WorkerTypeOK, JobTypeOK
  <2>5. w \notin Inside(f)'
    BY <2>1 DEF Inside
  <2> QED
    BY <2>2, <2>3, <2>4, <2>5 DEF Inside
<1>2. CASE ~WNext(w)
    BY <1>2, WorkerFrame DEF Inside
<1> QED
    BY <1>1, <1>2

(* The main thread moves no worker into or out of a job.                   *)
LEMMA MainStepInside ==
    ASSUME MainTypeOK, JobTypeOK, WorkerTypeOK, MainControl, WorkerControl, JobsOpened,
           Handles, MainStep, NEW f \in Files, job[f] # "absent"
    PROVE  Inside(f)' = Inside(f)
<1>1. CASE \E n \in BundleCounts : MainOpenFile(n)
  <2>1. UNCHANGED <<variable_args, visited, my_index>> /\ len'[f] = len[f]
    BY <1>1 DEF MainTypeOK, JobTypeOK, MainControl, JobsOpened, MainOpenFile,
        workerVars, Files
  <2> QED
    BY <2>1 DEF Inside
<1>2. CASE MainSpawn
  <2> DEFINE w == threads_created + 1
  <2>1. w \in Workers /\ ~visited[w] /\ UNCHANGED <<visited, my_index, len>>
    BY <1>2 DEF MainTypeOK, WorkerControl, MainSpawn, SpawnMore, Workers, jobVars
  <2>2. \A v \in Workers \ {w} : variable_args'[v] = variable_args[v]
    BY <1>2 DEF WorkerTypeOK, MainSpawn
  <2> QED
    BY <2>1, <2>2 DEF Inside
<1>3. CASE UNCHANGED <<workerVars, len>>
    BY <1>3 DEF Inside, workerVars
<1> QED
    BY <1>1, <1>2, <1>3, MainFrame

(* What a step of the main thread does to a job that exists and to the     *)
(* workers: nothing but give a job to a worker that had none.              *)
LEMMA MainStepKeeps ==
    ASSUME MainTypeOK, JobTypeOK, WorkerTypeOK, MainControl, WorkerControl, JobsOpened,
           Handles, MainStep
    PROVE  /\ \A f \in Files : job[f] # "absent" =>
                 /\ job'[f] = job[f] /\ len'[f] = len[f] /\ index'[f] = index[f]
                 /\ threads_visited'[f] = threads_visited[f]
           /\ \A f \in Files : job[f] = "absent" =>
                 \/ job'[f] = "absent" /\ len'[f] = len[f] /\ index'[f] = index[f]
                 \/ job'[f] = "open" /\ index'[f] = 0 /\ threads_visited'[f] = 0
           /\ UNCHANGED <<written, visited, my_index>>
           /\ \A w \in Workers :
                 \/ wpc'[w] = wpc[w] /\ variable_args'[w] = variable_args[w]
                 \/ wpc[w] = "none" /\ wpc'[w] = "lock" /\ ~visited[w]
<1>1. CASE \E n \in BundleCounts : MainOpenFile(n)
  <2>1. PICK n \in BundleCounts : MainOpenFile(n)
    BY <1>1
  <2>2. i \in Files /\ job[i] = "absent" /\ n \in Nat
    BY <2>1 DEF MainTypeOK, MainControl, JobsOpened, MainOpenFile, Files
  <2> QED
    BY <2>1, <2>2 DEF JobTypeOK, MainOpenFile, workerVars
<1>2. CASE MainSpawn
    BY <1>2 DEF MainTypeOK, WorkerTypeOK, WorkerControl, MainSpawn, SpawnMore,
        Workers, jobVars
<1>3. CASE UNCHANGED <<workerVars, job, len, index, threads_visited, written>>
    BY <1>3 DEF workerVars
<1> QED
    BY <1>1, <1>2, <1>3, MainFrame

(* A step of the main thread keeps what workers know of their index.       *)
LEMMA MainStepPlace ==
    ASSUME MainTypeOK, JobTypeOK, WorkerTypeOK, MainControl, WorkerControl, JobsOpened,
           Handles, Place, MainStep
    PROVE  Place'
<1> SUFFICES ASSUME NEW w \in Workers PROVE PlaceOf(w)'
    BY DEF Place
<1>1. CASE wpc'[w] = wpc[w] /\ variable_args'[w] = variable_args[w]
  <2>1. CASE variable_args[w] \in Files
    <3>1. job[variable_args[w]] # "absent"
        BY <2>1 DEF Handles
    <3> QED
        BY <1>1, <2>1, <3>1, MainStepKeeps DEF Place, PlaceOf
  <2>2. CASE variable_args[w] \notin Files
    BY <1>1, <2>2, MainStepKeeps DEF Place, PlaceOf, WorkerControl, WorkerTypeOK
  <2> QED
    BY <2>1, <2>2
<1>2. CASE wpc'[w] = "lock" /\ ~visited[w]
    BY <1>2, MainStepKeeps DEF PlaceOf
<1> QED
    BY <1>1, <1>2, MainStepKeeps

(* A step of the main thread takes no index.                               *)
LEMMA MainStepDistinctFresh ==
    ASSUME MainTypeOK, JobTypeOK, WorkerTypeOK, MainControl, WorkerControl, JobsOpened,
           Handles, Place, Distinct, Fresh, MainStep
    PROVE  Distinct' /\ Fresh'
<1>1. Distinct'
    BY MainStepKeeps DEF Distinct
<1>2. Fresh'
  <2> SUFFICES ASSUME NEW w \in Workers, Claiming(w)', (my_index[w] < len[variable_args[w]])'
               PROVE  (my_index[w] \notin written[variable_args[w]])'
    BY DEF Fresh
  <2>1. Claiming(w) /\ variable_args'[w] = variable_args[w]
    BY MainStepKeeps DEF Claiming
  <2>2. variable_args[w] \in Files /\ job[variable_args[w]] # "absent"
    BY <2>1 DEF Claiming, WorkerControl, Handles
  <2> QED
    BY <2>1, <2>2, MainStepKeeps DEF Fresh
<1> QED
    BY <1>1, <1>2

(* A step of the main thread writes and loses no bundle.                   *)
LEMMA MainStepBoundedCovered ==
    ASSUME MainTypeOK, JobTypeOK, WorkerTypeOK, MainControl, WorkerControl, JobsOpened,
           Handles, Bounded, Covered, MainStep, JobTypeOK'
    PROVE  Bounded' /\ Covered'
<1>1. Bounded'
    BY MainStepKeeps DEF Bounded, Handles
<1>2. Covered'
  <2> SUFFICES ASSUME NEW f \in Files, NEW b \in (0 .. len[f] - 1)', b < index'[f],
                      b \notin written'[f]
               PROVE  \E w \in Workers :
                          (Claiming(w) /\ variable_args[w] = f /\ my_index[w] = b)'
    BY DEF Covered
  <2>1. CASE len'[f] = len[f] /\ index'[f] = index[f]
    <3>1. PICK w \in Workers : Claiming(w) /\ variable_args[w] = f /\ my_index[w] = b
        BY <2>1, MainStepKeeps DEF Covered
    <3> QED
        BY <3>1, MainStepKeeps DEF Claiming
  <2>2. CASE index'[f] = 0
    BY <2>2 DEF JobTypeOK
  <2> QED
    BY <2>1, <2>2, MainStepKeeps
<1> QED
    BY <1>1, <1>2

(* A step of the main thread keeps the count of the visitors.              *)
LEMMA MainStepCountingComplete ==
    ASSUME MainTypeOK, JobTypeOK, WorkerTypeOK, MainControl, WorkerControl, JobsOpened,
           Handles, Counting, Complete, MainStep, JobTypeOK'
    PROVE  Counting' /\ Complete'
<1>1. Counting'
  <2> SUFFICES ASSUME NEW f \in Files, job'[f] = "open"
               PROVE  (Cardinality(Inside(f)) = threads_visited[f] - PastEnd(f))'
    BY DEF Counting
  <2>1. CASE job[f] # "absent"
    <3>1. Inside(f)' = Inside(f) /\ PastEnd(f)' = PastEnd(f)
        BY <2>1, MainStepInside, MainStepKeeps DEF PastEnd
    <3> QED
        BY <2>1, <3>1, MainStepKeeps DEF Counting
  <2>2. CASE job[f] = "absent"
    <3>1. index'[f] = 0 /\ threads_visited'[f] = 0
        BY <2>2, MainStepKeeps
    <3>2. \A w \in Workers : variable_args'[w] = f => ~visited'[w]
        BY <2>2, MainStepKeeps DEF Handles
    <3>3. Inside(f)' = {}
        BY <3>2 DEF Inside
    <3>4. PastEnd(f)' = 0
        BY <3>1 DEF PastEnd, JobTypeOK
    <3> QED
        BY <3>1, <3>3, <3>4, FS_EmptySet
  <2> QED
    BY <2>1, <2>2
<1>2. Complete'
  <2>1. ASSUME NEW f \in Files, job[f] # "absent",
               Inside(f) = {}, written[f] = 0 .. len[f] - 1
        PROVE  Inside(f)' = {} /\ written'[f] = 0 .. len'[f] - 1
    BY <2>1, MainStepInside, MainStepKeeps
  <2>2. ASSUME NEW w \in Workers, wpc'[w] = "cleanup"
        PROVE  /\ Inside(variable_args[w])' = {}
               /\ (written[variable_args[w]] = 0 .. len[variable_args[w]] - 1)'
    <3>1. wpc[w] = "cleanup" /\ variable_args'[w] = variable_args[w]
        BY <2>2, MainStepKeeps
    <3>2. variable_args[w] \in Files /\ job[variable_args[w]] # "absent"
        BY <3>1 DEF WorkerControl, Handles
    <3> QED
        BY <2>1, <3>1, <3>2 DEF Complete
  <2>3. ASSUME NEW f \in Files, job'[f] = "freed"
        PROVE  Inside(f)' = {} /\ written'[f] = 0 .. len'[f] - 1
    BY <2>1, <2>3, MainStepKeeps DEF Complete
  <2> QED
    BY <2>2, <2>3 DEF Complete
<1> QED
    BY <1>1, <1>2

(* A step of a worker keeps the count of the visitors.                     *)
LEMMA WorkerStepCounting ==
    ASSUME SharedTypeOK, JobTypeOK, WorkerTypeOK, WorkerControl, Place, Counting,
           NEW w \in Workers, WStep(w) \/ WTransfer(w)
    PROVE  Counting'
<1> SUFFICES ASSUME NEW f \in Files, job'[f] = "open"
             PROVE  (Cardinality(Inside(f)) = threads_visited[f] - PastEnd(f))'
    BY DEF Counting
<1>1. job[f] = "open"
  <2>1. CASE WCleanup(w)
    BY <2>1 DEF JobTypeOK, WCleanup
  <2> QED
    BY <2>1, WorkerFrame
<1>2. CASE ~WClaim(w)
  <2>1. PastEnd(f)' = PastEnd(f) /\ threads_visited' = threads_visited
    BY <1>2, WorkerFrame DEF PastEnd
  <2> QED
    BY <1>1, <1>2, <2>1, WorkerStepInside DEF Counting
<1>3. CASE WClaim(w) /\ variable_args[w] # f
  <2>1. index'[f] = index[f] /\ threads_visited'[f] = threads_visited[f] /\ UNCHANGED len
    BY <1>3 DEF WClaim, TakeIndex, JobTypeOK
  <2>2. Inside(f)' = Inside(f)
    BY <1>3 DEF Inside, WClaim, TakeIndex, WorkerTypeOK
  <2> QED
    BY <1>1, <2>1, <2>2 DEF Counting, PastEnd
<1>4. CASE WClaim(w) /\ variable_args[w] = f
  <2>1. /\ index'[f] = index[f] + 1 /\ index[f] \in Nat
        /\ len'[f] = len[f] /\ len[f] \in Nat /\ threads_visited[f] \in Nat
    BY <1>4 DEF WClaim, TakeIndex, JobTypeOK
  <2>2. threads_visited'[f] = IF visited[w] THEN threads_visited[f] ELSE threads_visited[f] + 1
    BY <1>4 DEF WClaim, JobTypeOK
  <2>3. /\ my_index'[w] = index[f] /\ visited'[w]
        /\ \A v \in Workers \ {w} : my_index'[v] = my_index[v] /\ visited'[v] = visited[v]
        /\ UNCHANGED <<variable_args, len>>
    BY <1>4 DEF WClaim, TakeIndex, WorkerTypeOK
  <2>4. w \in Inside(f) <=> visited[w]
    BY <1>4 DEF Inside, Place, PlaceOf, WClaim
  <2>5. Cardinality(Inside(f)) = threads_visited[f] - PastEnd(f)
    BY <1>1 DEF Counting
  <2>6. CASE index[f] < len[f]
    <3>1. Inside(f)' = Inside(f) \cup {w}
        BY <1>4, <2>1, <2>3, <2>6 DEF Inside
    <3>2. PastEnd(f) = 0 /\ PastEnd(f)' = 0
        BY <2>1, <2>6 DEF PastEnd
    <3>3. Cardinality(Inside(f)') =
              IF visited[w] THEN Cardinality(Inside(f)) ELSE Cardinality(Inside(f)) + 1
        BY <3>1, <2>4, InsideFinite, FS_AddElement
    <3> QED
        BY <2>1, <2>2, <2>5, <3>2, <3>3
  <2>7. CASE index[f] >= len[f]
    <3>1. Inside(f)' = Inside(f) \ {w}
        BY <1>4, <2>1, <2>3, <2>7 DEF Inside
    <3>2. PastEnd(f)' = PastEnd(f) + 1 /\ PastEnd(f) \in Nat
        BY <2>1, <2>7 DEF PastEnd
    <3>3. Cardinality(Inside(f)') =
              IF visited[w] THEN Cardinality(Inside(f)) - 1 ELSE Cardinality(Inside(f))
      <4>1. PICK s : s = Inside(f) /\ IsFiniteSet(s)
          BY InsideFinite
      <4>2. /\ IsFiniteSet(s \ {w})
            /\ Cardinality(s \ {w}) = IF w \in s THEN Cardinality(s) - 1 ELSE Cardinality(s)
          BY <4>1, FS_RemoveElement
      <4> QED
          BY ONLY <2>4, <3>1, <4>1, <4>2
    <3> QED
        BY <2>1, <2>2, <2>5, <3>2, <3>3
  <2> QED
    BY <2>1, <2>6, <2>7
<1> QED
    BY <1>2, <1>3, <1>4

(* The heart of the matter: the test of download.c:68 tells the truth.     *)
LEMMA LastVisitorFindsComplete ==
    ASSUME JobTypeOK, WorkerTypeOK, WorkerControl, Place, Bounded, Counting, Covered,
           NEW w \in Workers, wpc[w] = "branch", job[variable_args[w]] = "open",
           ~HasBundle(w), LastVisitor(w)
    PROVE  /\ Inside(variable_args[w]) = {}
           /\ written[variable_args[w]] = 0 .. len[variable_args[w]] - 1
<1> DEFINE f == variable_args[w]
<1>1. /\ f \in Files /\ index[f] \in Nat /\ len[f] \in Nat
      /\ threads_visited[f] \in Nat /\ my_index[w] \in Nat
    BY DEF WorkerControl, JobTypeOK, WorkerTypeOK
<1>2. /\ my_index[w] < index[f] /\ my_index[w] >= len[f]
      /\ my_index[w] = len[f] + threads_visited[f] - 1
    BY <1>1 DEF Place, PlaceOf, HasBundle, LastVisitor
<1>3. PastEnd(f) >= threads_visited[f] /\ PastEnd(f) \in Nat
    BY <1>1, <1>2 DEF PastEnd
<1>4. Cardinality(Inside(f)) = threads_visited[f] - PastEnd(f)
    BY <1>1 DEF Counting
<1>5. Inside(f) = {}
  <2>1. Cardinality(Inside(f)) = 0
    BY <1>1, <1>3, <1>4, InsideFinite
  <2> QED
    BY <2>1, InsideFinite, FS_EmptySet
<1>6. ASSUME NEW b \in 0 .. len[f] - 1 PROVE b \in written[f]
  <2>1. b < index[f] /\ b < len[f]
    BY <1>1, <1>2
  <2>2. ASSUME NEW v \in Workers, Claiming(v), variable_args[v] = f, my_index[v] = b
        PROVE  FALSE
    <3>1. visited[v]
        BY <2>2 DEF Claiming, Place, PlaceOf
    <3> QED
        BY <1>5, <2>1, <2>2, <3>1 DEF Inside
  <2> QED
    BY <1>1, <2>1, <2>2 DEF Covered
<1>7. written[f] \subseteq 0 .. len[f] - 1
    BY <1>1 DEF Bounded, JobTypeOK
<1> QED
    BY <1>5, <1>6, <1>7

(* A worker closes a file only when it is complete.                        *)
LEMMA WorkerStepComplete ==
    ASSUME SharedTypeOK, JobTypeOK, WorkerTypeOK, WorkerControl, Place, Bounded,
           Counting, Covered, Complete,
           NEW w \in Workers, WStep(w) \/ WTransfer(w)
    PROVE  Complete'
<1> DEFINE Done(f) == Inside(f) = {} /\ written[f] = 0 .. len[f] - 1
<1>1. UNCHANGED len
    BY WorkerFrame
<1>2. ASSUME NEW f \in Files, Done(f), job[f] = "open" => index[f] >= len[f]
      PROVE  Done(f)'
  <2>1. CASE WClaim(w)
    <3>1. CASE variable_args[w] = f
      <4>1. ~visited[w]
        BY <1>2, <2>1, <3>1 DEF Inside, Place, PlaceOf, WClaim
      <4>2. /\ my_index'[w] = index[f] /\ index[f] >= len[f]
            /\ \A v \in Workers \ {w} : my_index'[v] = my_index[v] /\ visited'[v] = visited[v]
            /\ UNCHANGED <<variable_args, len, written>>
        BY <1>2, <2>1, <3>1 DEF WClaim, TakeIndex, WorkerTypeOK
      <4>3. w \notin Inside(f)'
        BY <4>2 DEF Inside, JobTypeOK
      <4> QED
        BY <1>2, <4>2, <4>3 DEF Inside
    <3>2. CASE variable_args[w] # f
        BY <1>2, <2>1, <3>2 DEF Inside, WClaim, TakeIndex, WorkerTypeOK
    <3> QED
        BY <3>1, <3>2
  <2>2. CASE WDownload(w)
    <3>1. variable_args[w] # f
        BY <1>2, <2>2 DEF WDownload, Place, PlaceOf, Inside
    <3>2. written'[f] = written[f]
        BY <2>2, <3>1 DEF WDownload, JobTypeOK
    <3>3. Inside(f)' = Inside(f)
        BY <2>2, WorkerStepInside DEF WDownload, WClaim
    <3> QED
        BY <1>1, <1>2, <3>2, <3>3
  <2>3. CASE ~WClaim(w) /\ ~WDownload(w)
    BY <1>1, <1>2, <2>3, WorkerFrame, WorkerStepInside
  <2> QED
    BY <2>1, <2>2, <2>3
<1>3. ASSUME NEW v \in Workers, wpc'[v] = "cleanup"
      PROVE  Done(variable_args[v])'
  <2>1. CASE wpc[v] = "cleanup" /\ variable_args'[v] = variable_args[v]
    <3>1. /\ variable_args[v] \in Files /\ Done(variable_args[v])
          /\ index[variable_args[v]] >= len[variable_args[v]]
        BY <2>1 DEF WorkerControl, Complete, Place, PlaceOf, JobTypeOK, WorkerTypeOK
    <3> QED
        BY <1>2, <2>1, <3>1
  <2>2. CASE v = w /\ WBranch(w)
    <3>1. ~HasBundle(w) /\ LastVisitor(w) /\ UNCHANGED <<variable_args, len, written>>
        BY <1>3, <2>2 DEF WBranch, WorkerTypeOK, jobVars
    <3>2. Done(variable_args[w])
        BY <2>2, <3>1, LastVisitorFindsComplete DEF WBranch
    <3>3. variable_args[w] \in Files
        BY <2>2 DEF WBranch, WorkerControl
    <3>4. Inside(variable_args[w])' = Inside(variable_args[w])
        BY <2>2, <3>1 DEF Inside, WBranch
    <3> QED
        BY <2>2, <3>1, <3>2, <3>4
  <2>3. (wpc[v] = "cleanup" /\ variable_args'[v] = variable_args[v]) \/ (v = w /\ WBranch(w))
    BY <1>3 DEF WorkerTypeOK, WStep, WTransfer, WClaim, WReadFinished, WPublish,
        WCleanup, CleanedUp, WLeave, WNext, WDownload, WFail, Exit, workerVars, WBranch
  <2> QED
    BY <2>1, <2>2, <2>3
<1>4. ASSUME NEW f \in Files, job'[f] = "freed"
      PROVE  Done(f)'
  <2>1. CASE job[f] = "freed"
    BY <1>2, <2>1 DEF Complete
  <2>2. CASE job[f] # "freed"
    <3>1. WCleanup(w) /\ variable_args[w] = f
        BY <1>4, <2>2, WorkerFrame DEF WCleanup, JobTypeOK
    <3>2. Done(f) /\ index[f] >= len[f]
        BY <3>1 DEF WCleanup, Complete, Place, PlaceOf, JobTypeOK, WorkerTypeOK
    <3> QED
        BY <1>2, <3>2
  <2> QED
    BY <2>1, <2>2
<1> QED
    BY <1>3, <1>4 DEF Complete

-----------------------------------------------------------------------------
(***************************************************************************)
(* The invariant and what follows from it.                                 *)
(***************************************************************************)

(* Every step of the main thread preserves the inductive invariant.        *)
LEMMA MainStepInd == IndInv /\ MainStep => IndInv'
<1> SUFFICES ASSUME IndInv, MainStep PROVE IndInv'
    OBVIOUS
<1> USE DEF IndInv, TypeOK, Control
<1>1. TypeOK'
    BY MainStepMainType, MainStepSharedType, MainStepJobType, MainStepWorkerType
<1>2. Control' /\ JobsOpened' /\ Handles'
    BY MainStepMainControl, MainStepWorkerControl, MainStepJobsOpened, MainStepHandles
<1>3. Place' /\ Distinct' /\ Fresh'
    BY MainStepPlace, MainStepDistinctFresh
<1>4. Bounded' /\ Covered' /\ Counting' /\ Complete'
    BY <1>1, MainStepBoundedCovered, MainStepCountingComplete
<1> QED
    BY <1>1, <1>2, <1>3, <1>4

(* Every step of a worker preserves the inductive invariant.               *)
LEMMA WorkerStepInd ==
    ASSUME IndInv, NEW w \in Workers, WStep(w) \/ WTransfer(w)
    PROVE  IndInv'
<1> USE DEF IndInv, TypeOK, Control
<1>1. UNCHANGED mainVars
    BY WorkerFrame
<1>2. MainTypeOK' /\ MainControl'
    BY <1>1 DEF MainTypeOK, MainControl, mainVars, spawnVars
<1>3. SharedTypeOK' /\ JobTypeOK' /\ WorkerTypeOK'
    BY WorkerStepSharedType, WorkerStepJobType, WorkerStepWorkerType
<1>4. WorkerControl' /\ JobsOpened' /\ Handles'
    BY WorkerStepWorkerControl, WorkerStepJobsOpened, WorkerStepHandles
<1>5. Place' /\ Distinct' /\ Fresh' /\ Bounded'
    BY WorkerStepPlace, WorkerStepDistinct, WorkerStepFresh, WorkerStepBounded
<1>6. Counting' /\ Covered' /\ Complete'
    BY WorkerStepCounting, WorkerStepCovered, WorkerStepComplete
<1> QED
    BY <1>2, <1>3, <1>4, <1>5, <1>6

(* Exit and the touching of a freed job change nothing but proc.           *)
LEMMA StutterInd ==
    ASSUME IndInv, proc' \in {"running", "exited", "undefined"},
           UNCHANGED <<mainVars, file_index_finished, pipeVars, jobVars, workerVars>>
    PROVE  IndInv'
<1> USE DEF mainVars, spawnVars, pipeVars, jobVars, workerVars
<1>1. TypeOK'
    BY DEF IndInv, TypeOK, MainTypeOK, SharedTypeOK, JobTypeOK, WorkerTypeOK
<1>2. Control' /\ JobsOpened' /\ Handles'
    BY DEF IndInv, Control, MainControl, WorkerControl, JobsOpened, Handles
<1>3. Place' /\ Distinct' /\ Fresh' /\ Bounded' /\ Covered'
    BY DEF IndInv, Place, PlaceOf, Distinct, Fresh, Bounded, Covered, Claiming
<1>4. Counting' /\ Complete'
    BY DEF IndInv, Counting, Complete, Inside, PastEnd
<1> QED
    BY <1>1, <1>2, <1>3, <1>4 DEF IndInv

(* Every step preserves the inductive invariant.                           *)
LEMMA NextInd == IndInv /\ [Next]_vars => IndInv'
<1> SUFFICES ASSUME IndInv, [Next]_vars PROVE IndInv'
    OBVIOUS
<1>1. CASE MainStep
    BY <1>1, MainStepInd
<1>2. CASE \E w \in Workers : WStep(w) \/ WTransfer(w)
    BY <1>2, WorkerStepInd
<1>3. CASE TouchFreed
    BY <1>3, StutterInd DEF TouchFreed
<1>4. CASE UNCHANGED vars
  <2>1. proc' \in {"running", "exited", "undefined"}
    BY <1>4 DEF vars, IndInv, TypeOK, SharedTypeOK
  <2> QED
    BY <1>4, <2>1, StutterInd DEF vars
<1> QED
    BY <1>1, <1>2, <1>3, <1>4 DEF Next

(* The inductive invariant holds in every reachable state.                 *)
LEMMA Invariance == Spec => []IndInv
BY InitInd, NextInd, PTL DEF Spec

(* Every variable keeps its type: no counter leaves its range and no       *)
(* worker reads an index of a job that does not exist (download.c:54-65).  *)
THEOREM TypeCorrect == Spec => []TypeOK
<1>1. IndInv => TypeOK
    BY DEF IndInv
<1> QED
    BY <1>1, Invariance, PTL

(* However the threads interleave, the output file is truncated to its     *)
(* final size and closed only when every bundle was written into it: the   *)
(* count of visitors in download.c:58-68 is right for any number of        *)
(* workers.                                                                *)
THEOREM ClosedIsCompleteAlways == Spec => []ClosedIsComplete
<1>1. IndInv => ClosedIsComplete
    BY DEF IndInv, Complete, ClosedIsComplete
<1> QED
    BY <1>1, Invariance, PTL

(* No bundle is fetched by two workers or a second time (download.c:55-57).*)
THEOREM BundleClaimedOnceAlways == Spec => []BundleClaimedOnce
<1>1. ASSUME IndInv PROVE BundleClaimedOnce
  <2>1. \A w \in Workers : Claiming(w) => visited[w]
    BY <1>1 DEF IndInv, Place, PlaceOf, Claiming
  <2> QED
    BY <1>1, <2>1 DEF IndInv, Distinct, Fresh, BundleClaimedOnce
<1> QED
    BY <1>1, Invariance, PTL

(* No output file is closed while a worker has a bundle of it to write     *)
(* (download.c:62-64, 95-110).                                             *)
THEOREM NoWriteAfterCloseAlways == Spec => []NoWriteAfterClose
<1>1. ASSUME IndInv PROVE NoWriteAfterClose
  <2> SUFFICES ASSUME NEW w \in Workers,
                      \/ wpc[w] \in {"finish", "publish", "download"}
                      \/ wpc[w] = "branch" /\ my_index[w] < len[variable_args[w]]
               PROVE  job[variable_args[w]] = "open"
    BY DEF NoWriteAfterClose
  <2>1. variable_args[w] \in Files /\ job[variable_args[w]] # "absent"
    BY <1>1 DEF IndInv, Control, WorkerControl, Handles
  <2>2. w \in Inside(variable_args[w])
    BY <1>1 DEF IndInv, Place, PlaceOf, Inside
  <2>3. job[variable_args[w]] # "freed"
    BY <1>1, <2>1, <2>2 DEF IndInv, Complete
  <2> QED
    BY <1>1, <2>1, <2>3 DEF IndInv, TypeOK, JobTypeOK
<1> QED
    BY <1>1, Invariance, PTL

-----------------------------------------------------------------------------
(***************************************************************************)
(* Refinement.                                                             *)
(***************************************************************************)

(* A step of the main thread opens one file of FileDelivery or none.       *)
LEMMA MainStepDelivers ==
    ASSUME IndInv, MainStep
    PROVE  [Delivery!Next]_(Delivery!vars)
<1>1. CASE \E n \in BundleCounts : MainOpenFile(n)
  <2>1. PICK n \in BundleCounts : MainOpenFile(n)
    BY <1>1
  <2>2. i \in Files /\ job[i] = "absent"
    BY <2>1 DEF IndInv, TypeOK, MainTypeOK, Control, MainControl, JobsOpened,
        MainOpenFile, Files
  <2>3. Delivery!Open(i, n)
    BY <2>1, <2>2 DEF MainOpenFile, Delivery!Open
  <2> QED
    BY <2>2, <2>3 DEF Delivery!Next, Delivery!Files, Files
<1>2. CASE UNCHANGED <<job, len, written>>
    BY <1>2 DEF Delivery!vars
<1> QED
    BY <1>1, <1>2, MainFrame

(* A step of a worker delivers one bundle, closes one file or neither.     *)
LEMMA WorkerStepDelivers ==
    ASSUME IndInv, NEW w \in Workers, WStep(w) \/ WTransfer(w)
    PROVE  [Delivery!Next]_(Delivery!vars)
<1> DEFINE f == variable_args[w]
<1>1. CASE WDownload(w)
  <2>1. f \in Files /\ job[f] # "absent"
    BY <1>1 DEF IndInv, Control, WorkerControl, Handles, WDownload
  <2>2. my_index[w] \in 0 .. len[f] - 1 /\ w \in Inside(f)
    BY <1>1, <2>1 DEF IndInv, TypeOK, WorkerTypeOK, JobTypeOK, Place, PlaceOf, WDownload, Inside
  <2>3. job[f] = "open"
    <3>1. job[f] # "freed"
        BY <2>1, <2>2 DEF IndInv, Complete
    <3> QED
        BY <2>1, <3>1 DEF IndInv, TypeOK, JobTypeOK
  <2>4. my_index[w] \notin written[f]
    BY <1>1, <2>2 DEF IndInv, Fresh, Claiming, WDownload, Inside
  <2>5. Delivery!Deliver(f, my_index[w])
    BY <1>1, <2>3, <2>4 DEF WDownload, Delivery!Deliver
  <2> QED
    BY <2>1, <2>2, <2>5 DEF Delivery!Next, Delivery!Files, Files
<1>2. CASE WCleanup(w)
  <2>1. f \in Files /\ written[f] = 0 .. len[f] - 1
    BY <1>2 DEF IndInv, Control, WorkerControl, Complete, WCleanup
  <2>2. Delivery!Close(f)
    BY <1>2, <2>1 DEF WCleanup, Delivery!Close
  <2> QED
    BY <2>1, <2>2 DEF Delivery!Next, Delivery!Files, Files
<1>3. CASE UNCHANGED <<job, len, written>>
    BY <1>3 DEF Delivery!vars
<1> QED
    BY <1>1, <1>2, <1>3, WorkerFrame

(* The pool implements FileDelivery: whatever the threads and pipes do     *)
(* (download.c:44-339), seen from the files it is a sequence of opening a  *)
(* file, delivering each of its bundles once, and closing it when all are  *)
(* there.                                                                  *)
THEOREM DeliveryRefined == Spec => DeliverySpec
<1>1. Init => Delivery!Init
    BY DEF Init, Delivery!Init, Delivery!Files, Files
<1>2. IndInv /\ [Next]_vars => [Delivery!Next]_(Delivery!vars)
  <2> SUFFICES ASSUME IndInv, [Next]_vars PROVE [Delivery!Next]_(Delivery!vars)
    OBVIOUS
  <2>1. CASE MainStep
    BY <2>1, MainStepDelivers
  <2>2. CASE \E w \in Workers : WStep(w) \/ WTransfer(w)
    BY <2>2, WorkerStepDelivers
  <2>3. CASE TouchFreed \/ UNCHANGED vars
    BY <2>3 DEF TouchFreed, vars, jobVars, Delivery!vars
  <2> QED
    BY <2>1, <2>2, <2>3 DEF Next
<1> QED
    BY <1>1, <1>2, Invariance, PTL DEF Spec, DeliverySpec, Delivery!Spec

-----------------------------------------------------------------------------
(***************************************************************************)
(* The idle notices.                                                       *)
(***************************************************************************)

Idle == {w \in Workers : wpc[w] = "idle"}

(* While the main thread works with a notice it has none kept as well.     *)
NoticeInv ==
    /\ mpc \in {"check", "write", "sent", "stop"} => do_read
    /\ CreditsBalance

(* There are finitely many idle workers.                                   *)
LEMMA IdleFinite == IsFiniteSet(Idle) /\ Cardinality(Idle) \in Nat
<1>1. IsFiniteSet(Workers)
    BY FS_Interval DEF Workers
<1> QED
    BY <1>1, FS_Subset, FS_CardinalityType DEF Idle

(* The main thread neither loses a notice nor spends one twice.            *)
LEMMA MainStepNotices ==
    ASSUME MainTypeOK, SharedTypeOK, WorkerTypeOK, WorkerControl, NoticeInv, MainStep
    PROVE  NoticeInv'
<1>1. Idle' = Idle
  <2>1. CASE MainSpawn
    BY <2>1 DEF Idle, MainSpawn, SpawnMore, MainTypeOK, WorkerTypeOK, WorkerControl, Workers
  <2>2. CASE UNCHANGED workerVars
    BY <2>2 DEF Idle, workerVars
  <2> QED
    BY <2>1, <2>2, MainFrame
<1>2. Cardinality(Idle) = pipe_from + Len(pipe_to) + HeldNotice
    BY DEF NoticeInv, CreditsBalance, Idle
<1>3. SUFFICES /\ (mpc \in {"check", "write", "sent", "stop"} => do_read)'
               /\ pipe_from' + Len(pipe_to') + HeldNotice' = pipe_from + Len(pipe_to) + HeldNotice
    BY <1>1, <1>2 DEF NoticeInv, CreditsBalance, Idle
<1> USE DEF MainTypeOK, SharedTypeOK, NoticeInv, HeldNotice, mainVars, spawnVars, pipeVars
<1>4. CASE MainSkipFile
    BY <1>4 DEF MainSkipFile
<1>5. CASE MainOpenFails
    BY <1>5 DEF MainOpenFails, Exit
<1>6. CASE MainNeedsFile
    BY <1>6 DEF MainNeedsFile
<1>7. CASE MainAwaitIdle
    BY <1>7 DEF MainAwaitIdle, KeepNotice
<1>8. CASE MainTruncateFile
    BY <1>8 DEF MainTruncateFile, NextFile
<1>9. CASE \E n \in BundleCounts : MainOpenFile(n)
    BY <1>9 DEF MainOpenFile
<1>10. CASE MainSpawn
    BY <1>10 DEF MainSpawn, SpawnMore
<1>11. CASE MainConnectFails
    BY <1>11 DEF MainConnectFails, Exit
<1>12. CASE MainSpawned
    BY <1>12 DEF MainSpawned, SpawnMore, NextFile, Goto, Free
<1>13. CASE MainDistribute
    BY <1>13 DEF MainDistribute, NextFile, Goto
<1>14. CASE MainTakeIdle
    BY <1>14 DEF MainTakeIdle, TakeIdleNotice
<1>15. CASE MainCheckFinished
    BY <1>15 DEF MainCheckFinished, LeaveFile, KeepNotice, NextFile, Goto
<1>16. CASE MainHandOut
    BY <1>16 DEF MainHandOut
<1>17. CASE MainSent
    BY <1>17 DEF MainSent, NextFile, Goto
<1>18. CASE MainTakeIdleToStop
    BY <1>18 DEF MainTakeIdleToStop, TakeIdleNotice
<1>19. CASE MainStopWorker
    BY <1>19 DEF MainStopWorker, NoJob
<1>20. CASE MainJoin
    BY <1>20 DEF MainJoin
<1> QED
    BY <1>4, <1>5, <1>6, <1>7, <1>8, <1>9, <1>10, <1>11, <1>12,
        <1>13, <1>14, <1>15, <1>16, <1>17, <1>18, <1>19, <1>20
        DEF MainStep

(* A worker that goes idle gives one notice and takes one pointer.         *)
LEMMA WorkerStepNotices ==
    ASSUME MainTypeOK, SharedTypeOK, WorkerTypeOK, NoticeInv,
           NEW w \in Workers, WStep(w) \/ WTransfer(w)
    PROVE  NoticeInv'
<1>1. Cardinality(Idle) = pipe_from + Len(pipe_to) + HeldNotice
    BY DEF NoticeInv, CreditsBalance, Idle
<1>2. UNCHANGED <<mpc, do_read>>
    BY WorkerFrame DEF mainVars
<1>3. HeldNotice' = HeldNotice /\ HeldNotice \in 0 .. 1
    BY <1>2 DEF HeldNotice
<1>4. SUFFICES Cardinality(Idle') = pipe_from' + Len(pipe_to') + HeldNotice
    BY <1>2, <1>3 DEF NoticeInv, CreditsBalance, Idle
<1>5. CASE WLeave(w)
  <2>1. Idle' = Idle \cup {w} /\ w \notin Idle
    BY <1>5 DEF Idle, WLeave, WorkerTypeOK
  <2>2. Cardinality(Idle') = Cardinality(Idle) + 1
    BY <2>1, IdleFinite, FS_AddElement
  <2> QED
    BY <1>1, <1>3, <1>5, <2>2 DEF WLeave, SharedTypeOK
<1>6. CASE WNext(w)
  <2>1. Idle' = Idle \ {w} /\ w \in Idle
    BY <1>6 DEF Idle, WNext, WorkerTypeOK
  <2>2. Cardinality(Idle') = Cardinality(Idle) - 1
    BY <2>1, IdleFinite, FS_RemoveElement
  <2>3. Len(pipe_to') = Len(pipe_to) - 1 /\ Len(pipe_to) \in Nat
    BY <1>6 DEF WNext, SharedTypeOK
  <2> QED
    BY <1>1, <1>3, <1>6, <2>2, <2>3 DEF WNext, SharedTypeOK
<1>7. CASE ~WLeave(w) /\ ~WNext(w)
  <2>1. Idle' = Idle
    BY <1>7 DEF Idle, WorkerTypeOK, WStep, WTransfer, WClaim, WReadFinished, WPublish,
        WBranch, WCleanup, CleanedUp, WDownload, WFail, Exit, workerVars
  <2>2. UNCHANGED pipeVars
    BY <1>7 DEF WStep, WTransfer, WClaim, WReadFinished, WPublish, WBranch, WCleanup,
        WDownload, WFail, Exit
  <2> QED
    BY <1>1, <2>1, <2>2 DEF pipeVars
<1> QED
    BY <1>5, <1>6, <1>7

(* For any number of threads and any pipe size, no idle notice is lost or  *)
(* spent twice: every idle worker is owed exactly one pointer              *)
(* (download.c:72-73, 220-223, 297-305, 324-328).                          *)
THEOREM CreditsBalanceAlways == Spec => []CreditsBalance
<1>1. Init => NoticeInv
  <2> SUFFICES ASSUME Init PROVE NoticeInv
    OBVIOUS
  <2>1. {w \in Workers : wpc[w] = "idle"} = {}
    BY DEF Init
  <2>2. pipe_from + Len(pipe_to) + HeldNotice = 0
    BY DEF Init, HeldNotice
  <2> QED
    BY <2>1, <2>2, FS_EmptySet DEF Init, NoticeInv, CreditsBalance
<1>2. IndInv /\ NoticeInv /\ [Next]_vars => NoticeInv'
  <2> SUFFICES ASSUME IndInv, NoticeInv, [Next]_vars PROVE NoticeInv'
    OBVIOUS
  <2>1. CASE MainStep
    BY <2>1, MainStepNotices DEF IndInv, TypeOK, Control
  <2>2. CASE \E w \in Workers : WStep(w) \/ WTransfer(w)
    BY <2>2, WorkerStepNotices DEF IndInv, TypeOK
  <2>3. CASE TouchFreed \/ UNCHANGED vars
    <3>1. UNCHANGED <<mpc, do_read, pipe_from, pipe_to, wpc>>
        BY <2>3 DEF TouchFreed, vars, mainVars, pipeVars, workerVars
    <3>2. HeldNotice' = HeldNotice
        BY <3>1 DEF HeldNotice
    <3> QED
        BY <3>1, <3>2 DEF NoticeInv, CreditsBalance
  <2> QED
    BY <2>1, <2>2, <2>3 DEF Next
<1>3. NoticeInv => CreditsBalance
    BY DEF NoticeInv
<1> QED
    BY <1>1, <1>2, <1>3, Invariance, PTL DEF Spec

-----------------------------------------------------------------------------
(***************************************************************************)
(* No job is left behind.                                                  *)
(***************************************************************************)

(* A worker counts itself when it first takes an index of a job.           *)
Counted ==
    /\ \A w \in Workers : visited[w] => threads_visited[variable_args[w]] > 0
    /\ \A f \in Files : file_index_finished = f =>
          threads_visited[f] > 0 /\ job[f] # "absent"
    /\ \A w \in Workers : \A f \in Files : seen[w] = f =>
          threads_visited[f] > 0 /\ job[f] # "absent"

(* The job the main thread holds out to the workers and nobody got yet.    *)
Offered(f) ==
    /\ i = f /\ current_index = 0
    /\ \/ mpc = "spawn" /\ threads_created < Threads
       \/ mpc = "spawned" /\ threads_created = Threads
       \/ mpc \in {"hand", "check", "write"}

(* A job with bundles that nobody has visited is still with the main       *)
(* thread, or in the pipe, or with a worker about to visit it.             *)
Awaited ==
    \A f \in Files : job[f] = "open" /\ len[f] > 0 /\ threads_visited[f] = 0 =>
        \/ Offered(f)
        \/ \E k \in 1 .. Len(pipe_to) : pipe_to[k] = f
        \/ \E w \in Workers : variable_args[w] = f /\ wpc[w] = "lock"

(* When all visitors of an open job have left it, the one with the last    *)
(* index is about to find out that it is the last visitor.                 *)
LastOne ==
    \A f \in Files :
        job[f] = "open" /\ threads_visited[f] > 0 /\ PastEnd(f) = threads_visited[f] =>
            \E w \in Workers :
                /\ variable_args[w] = f /\ wpc[w] \in {"branch", "cleanup"}
                /\ my_index[w] = len[f] + threads_visited[f] - 1

AllReturned ==
    mpc = "done" => \A w \in Workers : wpc[w] \in {"none", "returned"}

Attended == Counted /\ Awaited /\ LastOne /\ AllReturned

(* What a step of the main thread does not touch.                          *)
LEMMA MainLeavesFinished ==
    ASSUME MainStep
    PROVE  UNCHANGED <<file_index_finished, seen>>
BY DEF MainStep, MainSkipFile, MainOpenFails, MainNeedsFile, MainAwaitIdle,
    MainTruncateFile, MainOpenFile, MainSpawn, MainConnectFails, MainSpawned,
    MainDistribute, MainTakeIdle, MainCheckFinished, LeaveFile, MainHandOut, MainSent,
    MainTakeIdleToStop, MainStopWorker, MainJoin, Exit, workerVars

(* The main thread counts nobody.                                          *)
LEMMA MainStepCounted ==
    ASSUME IndInv, Counted, MainStep
    PROVE  Counted'
<1> USE DEF IndInv, TypeOK, Control
<1>1. /\ \A f \in Files : job[f] # "absent" =>
            job'[f] # "absent" /\ threads_visited'[f] = threads_visited[f]
      /\ UNCHANGED <<visited, file_index_finished, seen>>
      /\ \A w \in Workers : variable_args'[w] = variable_args[w] \/ ~visited[w]
    BY MainStepKeeps, MainLeavesFinished
<1>2. \A w \in Workers : visited[w] => variable_args[w] \in Files /\ job[variable_args[w]] # "absent"
    BY DEF Place, PlaceOf, Handles
<1>3. (\A w \in Workers : visited[w] => threads_visited[variable_args[w]] > 0)'
    BY <1>1, <1>2 DEF Counted
<1>4. (\A f \in Files : file_index_finished = f => threads_visited[f] > 0 /\ job[f] # "absent")'
    BY <1>1 DEF Counted
<1>5. (\A w \in Workers : \A f \in Files : seen[w] = f => threads_visited[f] > 0 /\ job[f] # "absent")'
    BY <1>1 DEF Counted
<1> QED
    BY <1>3, <1>4, <1>5 DEF Counted

(* The main thread leaves a job only when a worker has it or will get it:  *)
(* the first bundle's thread, or a pointer in the pipe, unless a worker    *)
(* has published the end of the file already (download.c:295-316).         *)
LEMMA MainStepAwaited ==
    ASSUME IndInv, Counted, Awaited, MainStep
    PROVE  Awaited'
<1> USE DEF IndInv, TypeOK, Control
<1> SUFFICES ASSUME NEW f \in Files, job'[f] = "open", len'[f] > 0, threads_visited'[f] = 0
             PROVE  \/ Offered(f)'
                    \/ \E k \in 1 .. Len(pipe_to') : pipe_to'[k] = f
                    \/ \E w \in Workers : variable_args'[w] = f /\ wpc'[w] = "lock"
    BY DEF Awaited
<1>1. CASE job[f] = "absent"
  <2>1. PICK n \in BundleCounts : MainOpenFile(n)
      BY <1>1, MainFrame
  <2>2. f = i
      BY <1>1, <2>1 DEF MainOpenFile, JobTypeOK
  <2>3. threads_created < Threads \/ threads_created = Threads
      BY DEF MainTypeOK
  <2>4. Offered(f)'
      BY <2>1, <2>2, <2>3 DEF MainOpenFile, Offered
  <2> QED
      BY <2>4
<1>2. CASE job[f] # "absent"
  <2>1. job[f] = "open" /\ len[f] > 0 /\ threads_visited[f] = 0 /\ len[f] \in Nat
      BY <1>2, MainStepKeeps DEF JobTypeOK
  <2>2. CASE \E w \in Workers : variable_args[w] = f /\ wpc[w] = "lock"
      BY <2>2, MainStepKeeps
  <2>3. CASE \E k \in 1 .. Len(pipe_to) : pipe_to[k] = f
    <3>1. CASE UNCHANGED pipe_to
        BY <2>3, <3>1
    <3>2. ASSUME NEW e \in Files \cup {NoJob}, pipe_to' = Append(pipe_to, e)
          PROVE  \E k \in 1 .. Len(pipe_to') : pipe_to'[k] = f
        BY <2>3, <3>2 DEF SharedTypeOK
    <3>3. CASE MainHandOut
      <4>1. i \in Files
          BY <3>3 DEF MainHandOut, MainTypeOK, MainControl, Files
      <4> QED
          BY <3>2, <3>3, <4>1 DEF MainHandOut
    <3>4. CASE MainStopWorker
        BY <3>2, <3>4 DEF MainStopWorker
    <3> QED
        BY <3>1, <3>3, <3>4, MainFrame
  <2>4. CASE Offered(f)
    <3> USE DEF Offered
    <3>1. CASE MainSpawn
      <4>1. threads_created + 1 \in Workers
          BY <3>1 DEF MainSpawn, SpawnMore, MainTypeOK, Workers
      <4>2. variable_args'[threads_created + 1] = f /\ wpc'[threads_created + 1] = "lock"
          BY <2>4, <3>1, <4>1 DEF MainSpawn, WorkerTypeOK
      <4> QED
          BY <4>1, <4>2
    <3>2. CASE MainSpawned
        BY <2>1, <2>4, <3>2 DEF MainSpawned, SpawnMore
    <3>3. CASE MainDistribute
        BY <2>1, <2>4, <3>3 DEF MainDistribute, Goto, spawnVars
    <3>4. CASE MainTakeIdle
        BY <2>4, <3>4 DEF MainTakeIdle, spawnVars
    <3>5. CASE MainCheckFinished
      <4>1. ~FileFinished
          BY <2>1, <2>4 DEF FileFinished, Counted
      <4> QED
          BY <2>4, <3>5, <4>1 DEF MainCheckFinished, Goto, spawnVars
    <3>6. CASE MainHandOut
      <4>1. pipe_to' = Append(pipe_to, f) /\ pipe_to \in Seq(Files \cup {NoJob})
          BY <2>4, <3>6 DEF MainHandOut, SharedTypeOK
      <4>2. Len(pipe_to) + 1 \in 1 .. Len(pipe_to') /\ pipe_to'[Len(pipe_to) + 1] = f
          BY <4>1
      <4> QED
          BY <4>2
    <3>7. CASE UNCHANGED <<mpc, i, spawnVars>>
        BY <2>4, <3>7 DEF spawnVars
    <3> QED
        BY <2>4, <3>1, <3>2, <3>3, <3>4, <3>5, <3>6, <3>7
           DEF MainStep, MainSkipFile, MainOpenFails, MainNeedsFile, MainAwaitIdle,
               MainTruncateFile, MainOpenFile, MainConnectFails, MainSent,
               MainTakeIdleToStop, MainStopWorker, MainJoin, Exit, mainVars
  <2> QED
      BY <2>1, <2>2, <2>3, <2>4 DEF Awaited
<1> QED
    BY <1>1, <1>2

(* The main thread does nothing to the visitors of a job.                  *)
LEMMA MainStepLastOne ==
    ASSUME IndInv, LastOne, MainStep
    PROVE  LastOne'
<1> USE DEF IndInv, TypeOK, Control
<1> SUFFICES ASSUME NEW f \in Files, job'[f] = "open", threads_visited'[f] > 0,
                    PastEnd(f)' = threads_visited'[f]
             PROVE  \E w \in Workers :
                       /\ variable_args'[w] = f /\ wpc'[w] \in {"branch", "cleanup"}
                       /\ my_index'[w] = len'[f] + threads_visited'[f] - 1
    BY DEF LastOne
<1>1. job[f] # "absent"
    BY MainStepKeeps
<1>2. /\ job[f] = "open" /\ len'[f] = len[f] /\ index'[f] = index[f]
      /\ threads_visited'[f] = threads_visited[f]
    BY <1>1, MainStepKeeps
<1>3. PastEnd(f)' = PastEnd(f)
    BY <1>2 DEF PastEnd
<1>4. PICK w \in Workers :
         /\ variable_args[w] = f /\ wpc[w] \in {"branch", "cleanup"}
         /\ my_index[w] = len[f] + threads_visited[f] - 1
    BY <1>2, <1>3 DEF LastOne
<1>5. wpc'[w] = wpc[w] /\ variable_args'[w] = variable_args[w] /\ my_index' = my_index
    BY <1>4, MainStepKeeps
<1> QED
    BY <1>2, <1>4, <1>5

(* The main thread waits for all threads before it is done.                *)
LEMMA MainStepAllReturned ==
    ASSUME IndInv, MainStep
    PROVE  AllReturned'
<1> USE DEF IndInv, TypeOK, Control
<1> SUFFICES ASSUME mpc' = "done" PROVE \A w \in Workers : wpc'[w] \in {"none", "returned"}
    BY DEF AllReturned
<1>1. MainJoin \/ mpc = "done"
    BY DEF MainStep, MainSkipFile, MainOpenFails, MainNeedsFile, MainAwaitIdle,
        MainTruncateFile, MainOpenFile, MainSpawn, MainConnectFails, MainSpawned,
        MainDistribute, MainTakeIdle, MainCheckFinished, LeaveFile, MainHandOut, MainSent,
        MainTakeIdleToStop, MainStopWorker, MainJoin, Exit, NextFile, Goto, mainVars
<1>2. mpc # "done"
    BY DEF MainStep, MainSkipFile, MainOpenFails, MainNeedsFile, MainAwaitIdle,
        MainTruncateFile, MainOpenFile, MainSpawn, MainConnectFails, MainSpawned,
        MainDistribute, MainTakeIdle, MainCheckFinished, LeaveFile, MainHandOut, MainSent,
        MainTakeIdleToStop, MainStopWorker, MainJoin
<1>3. \A w \in 1 .. threads_created : wpc[w] = "returned"
    BY <1>1, <1>2 DEF MainJoin
<1>4. UNCHANGED wpc
    BY <1>1, <1>2 DEF MainJoin, workerVars
<1>5. \A w \in Workers : w \in 1 .. threads_created \/ w > threads_created
    BY DEF Workers, MainTypeOK
<1> QED
    BY <1>3, <1>4, <1>5 DEF WorkerControl

(* Once counted, a visitor stays counted.                                  *)
LEMMA WorkerStepCounts ==
    ASSUME IndInv, NEW w \in Workers, WStep(w) \/ WTransfer(w), NEW f \in Files
    PROVE  /\ threads_visited[f] \in Nat /\ threads_visited'[f] \in Nat
           /\ threads_visited'[f] >= threads_visited[f]
           /\ job[f] # "absent" => job'[f] # "absent"
           /\ job'[f] = "open" => job[f] = "open"
<1> USE DEF IndInv, TypeOK
<1>1. CASE WClaim(w)
    BY <1>1 DEF WClaim, JobTypeOK
<1>2. CASE WCleanup(w)
    BY <1>2 DEF WCleanup, JobTypeOK
<1>3. CASE UNCHANGED <<job, threads_visited>>
    BY <1>3 DEF JobTypeOK
<1> QED
    BY <1>1, <1>2, <1>3, WorkerFrame DEF WCleanup

(* A worker that takes an index is counted.                                *)
LEMMA ClaimCounts ==
    ASSUME IndInv, Counted, NEW w \in Workers, WClaim(w)
    PROVE  variable_args[w] \in Files /\ threads_visited'[variable_args[w]] > 0
<1> USE DEF IndInv, TypeOK, Control
<1>1. PICK f \in Files : f = variable_args[w]
    BY DEF WClaim, WorkerControl
<1>2. threads_visited[f] \in Nat
    BY DEF JobTypeOK
<1>3. threads_visited'[f] = IF visited[w] THEN threads_visited[f] ELSE threads_visited[f] + 1
    BY <1>1 DEF WClaim, JobTypeOK
<1>4. visited[w] => threads_visited[f] > 0
    BY <1>1 DEF Counted
<1> QED
    BY <1>1, <1>2, <1>3, <1>4

(* Workers count themselves, and publish only jobs they have visited.      *)
LEMMA WorkerStepCounted ==
    ASSUME IndInv, Counted, NEW w \in Workers, WStep(w) \/ WTransfer(w)
    PROVE  Counted'
<1> USE DEF IndInv, TypeOK, Control
<1>1. \A f \in Files : threads_visited[f] > 0 /\ job[f] # "absent" =>
         threads_visited'[f] > 0 /\ job'[f] # "absent"
  <2> TAKE f \in Files
  <2>1. /\ threads_visited[f] \in Nat /\ threads_visited'[f] \in Nat
        /\ threads_visited'[f] >= threads_visited[f]
        /\ job[f] # "absent" => job'[f] # "absent"
      BY WorkerStepCounts
  <2> QED
      BY <2>1
<1>2. \A v \in Workers : visited[v] =>
         /\ variable_args[v] \in Files /\ job[variable_args[v]] # "absent"
         /\ threads_visited[variable_args[v]] > 0
    BY DEF Place, PlaceOf, Handles, Counted
<1>3. ASSUME NEW v \in Workers, visited'[v]
      PROVE  threads_visited'[variable_args'[v]] > 0
  <2>1. CASE visited[v] /\ variable_args'[v] = variable_args[v]
      BY <1>1, <1>2, <2>1
  <2>2. CASE v = w /\ WClaim(w)
      BY <2>2, ClaimCounts DEF WClaim
  <2>3. (visited[v] /\ variable_args'[v] = variable_args[v]) \/ (v = w /\ WClaim(w))
    <3>1. CASE WNext(w)
        BY <1>3, <3>1 DEF WNext, NewVisit, WorkerTypeOK
    <3>2. CASE WClaim(w)
        BY <1>3, <3>2 DEF WClaim, WorkerTypeOK
    <3>3. CASE UNCHANGED <<visited, variable_args>>
        BY <1>3, <3>3
    <3> QED
        BY <3>1, <3>2, <3>3, WorkerFrame
  <2> QED
      BY <2>1, <2>2, <2>3
<1>4. ASSUME NEW f \in Files, file_index_finished' = f
      PROVE  threads_visited'[f] > 0 /\ job'[f] # "absent"
  <2>1. CASE WPublish(w)
    <3>1. visited[w]
        BY <2>1 DEF WPublish, Place, PlaceOf
    <3>2. f = variable_args[w] \/ f = seen[w]
        BY <1>4, <2>1 DEF WPublish
    <3> QED
        BY <1>1, <1>2, <3>1, <3>2 DEF Counted
  <2>2. CASE UNCHANGED file_index_finished
      BY <1>1, <1>4, <2>2 DEF Counted
  <2> QED
      BY <2>1, <2>2 DEF WStep, WTransfer, WClaim, WReadFinished, WBranch, WCleanup,
         WLeave, WNext, WDownload, WFail, Exit
<1>5. ASSUME NEW v \in Workers, NEW f \in Files, seen'[v] = f
      PROVE  threads_visited'[f] > 0 /\ job'[f] # "absent"
  <2>1. seen[v] = f \/ file_index_finished = f
      BY <1>5 DEF WorkerTypeOK, WStep, WTransfer, WClaim, WReadFinished, WPublish, WBranch, WCleanup,
         WLeave, WNext, WDownload, WFail, Exit, workerVars
  <2> QED
      BY <1>1, <2>1 DEF Counted
<1> QED
    BY <1>3, <1>4, <1>5 DEF Counted

(* A pointer taken out of the pipe is with the worker that took it.        *)
LEMMA WorkerStepAwaited ==
    ASSUME IndInv, Counted, Awaited, NEW w \in Workers, WStep(w) \/ WTransfer(w)
    PROVE  Awaited'
<1> USE DEF IndInv, TypeOK, Control
<1> SUFFICES ASSUME NEW f \in Files, job'[f] = "open", len'[f] > 0, threads_visited'[f] = 0
             PROVE  \/ Offered(f)'
                    \/ \E k \in 1 .. Len(pipe_to') : pipe_to'[k] = f
                    \/ \E v \in Workers : variable_args'[v] = f /\ wpc'[v] = "lock"
    BY DEF Awaited
<1>1. job[f] = "open" /\ len[f] > 0 /\ threads_visited[f] = 0
  <2>1. /\ threads_visited[f] \in Nat /\ threads_visited'[f] >= threads_visited[f]
        /\ job'[f] = "open" => job[f] = "open"
      BY WorkerStepCounts
  <2>2. len'[f] = len[f]
      BY WorkerFrame
  <2> QED
      BY <2>1, <2>2
<1>2. CASE Offered(f)
    BY <1>2, WorkerFrame DEF Offered, mainVars, spawnVars
<1>3. CASE \E k \in 1 .. Len(pipe_to) : pipe_to[k] = f
  <2>1. CASE WNext(w)
    <3>1. PICK k \in 1 .. Len(pipe_to) : pipe_to[k] = f
        BY <1>3
    <3>2. pipe_to \in Seq(Files \cup {NoJob}) /\ pipe_to # <<>> /\ Len(pipe_to) \in Nat
        BY <2>1 DEF WNext, SharedTypeOK
    <3>3. CASE k = 1
      <4>1. Head(pipe_to) = f /\ f # NoJob
          BY <3>1, <3>2, <3>3 DEF Files, NoJob
      <4>2. variable_args'[w] = f /\ wpc'[w] = "lock"
          BY <2>1, <4>1 DEF WNext, WorkerTypeOK
      <4> QED
          BY <4>2
    <3>4. CASE k # 1
      <4>1. k - 1 \in 1 .. Len(Tail(pipe_to)) /\ Tail(pipe_to)[k - 1] = f
        <5>1. Len(Tail(pipe_to)) = Len(pipe_to) - 1
            BY <3>2
        <5>2. k - 1 \in 1 .. Len(Tail(pipe_to)) /\ (k - 1) + 1 = k
            BY <3>1, <3>2, <3>4, <5>1
        <5>3. Tail(pipe_to)[k - 1] = pipe_to[(k - 1) + 1]
            BY <3>2, <5>2, HeadTail
        <5> QED
            BY <3>1, <5>2, <5>3
      <4> QED
          BY <2>1, <4>1 DEF WNext
    <3> QED
        BY <3>3, <3>4
  <2>2. CASE UNCHANGED pipe_to
      BY <1>3, <2>2
  <2> QED
      BY <2>1, <2>2, WorkerFrame
<1>4. CASE \E v \in Workers : variable_args[v] = f /\ wpc[v] = "lock"
  <2>1. PICK v \in Workers : variable_args[v] = f /\ wpc[v] = "lock"
      BY <1>4
  <2>2. ~(v = w /\ WClaim(w))
      BY <2>1, ClaimCounts
  <2>3. variable_args'[v] = f /\ wpc'[v] = "lock"
      BY <2>1, <2>2 DEF WorkerTypeOK, WStep, WTransfer, WClaim, WReadFinished, WPublish, WBranch,
         WCleanup, CleanedUp, WLeave, WNext, WDownload, WFail, Exit, workerVars
  <2> QED
      BY <2>3
<1> QED
    BY <1>1, <1>2, <1>3, <1>4 DEF Awaited

(* Whoever takes the last index of all visitors cleans up, or a later      *)
(* visitor does.                                                           *)
LEMMA WorkerStepLastOne ==
    ASSUME IndInv, LastOne, NEW w \in Workers, WStep(w) \/ WTransfer(w)
    PROVE  LastOne'
<1> USE DEF IndInv, TypeOK, Control
<1> SUFFICES ASSUME NEW f \in Files, job'[f] = "open", threads_visited'[f] > 0,
                    PastEnd(f)' = threads_visited'[f]
             PROVE  \E v \in Workers :
                       /\ variable_args'[v] = f /\ wpc'[v] \in {"branch", "cleanup"}
                       /\ my_index'[v] = len'[f] + threads_visited'[f] - 1
    BY DEF LastOne
<1>1. /\ job[f] = "open" /\ len'[f] = len[f] /\ len[f] \in Nat /\ index[f] \in Nat
      /\ threads_visited[f] \in Nat /\ threads_visited'[f] \in Nat
    BY WorkerStepCounts, WorkerFrame DEF JobTypeOK
<1>2. CASE WClaim(w) /\ variable_args[w] = f
  <2>1. index'[f] = index[f] + 1 /\ my_index'[w] = index[f] /\ variable_args' = variable_args
      BY <1>2 DEF WClaim, TakeIndex, JobTypeOK, WorkerTypeOK
  <2>2. index[f] + 1 - len[f] = threads_visited'[f] /\ index[f] + 1 > len[f]
      BY <1>1, <2>1 DEF PastEnd
  <2>3. wpc'[w] = "branch"
    <3>1. ~LastTaken(f)
        BY <1>1, <2>2 DEF LastTaken
    <3> QED
        BY <1>2, <3>1 DEF WClaim, WorkerTypeOK
  <2>4. my_index'[w] = len'[f] + threads_visited'[f] - 1
      BY <1>1, <2>1, <2>2
  <2> QED
      BY <1>2, <2>1, <2>3, <2>4
<1>3. CASE ~(WClaim(w) /\ variable_args[w] = f)
  <2>1. index'[f] = index[f] /\ threads_visited'[f] = threads_visited[f]
    <3>1. CASE WClaim(w)
        BY <1>3, <3>1 DEF WClaim, TakeIndex, JobTypeOK
    <3> QED
        BY <3>1, WorkerFrame
  <2>2. PastEnd(f)' = PastEnd(f)
      BY <1>1, <2>1 DEF PastEnd
  <2>3. PICK v \in Workers :
           /\ variable_args[v] = f /\ wpc[v] \in {"branch", "cleanup"}
           /\ my_index[v] = len[f] + threads_visited[f] - 1
      BY <1>1, <2>1, <2>2 DEF LastOne
  <2>4. CASE v = w
    <3>1. ~WCleanup(w)
        BY <2>3, <2>4 DEF WCleanup, JobTypeOK
    <3>2. WBranch(w) => LastVisitor(w) /\ ~HasBundle(w)
        BY <1>1, <2>1, <2>3, <2>4 DEF LastVisitor, HasBundle
    <3>3. /\ variable_args'[w] = f /\ my_index'[w] = my_index[w]
          /\ wpc'[w] \in {"branch", "cleanup"}
        BY <2>3, <2>4, <3>1, <3>2 DEF WorkerTypeOK, WStep, WTransfer, WClaim, WReadFinished,
           WPublish, WBranch, WLeave, WNext, WDownload, WFail, Exit, workerVars
    <3> QED
        BY <1>1, <2>1, <2>3, <2>4, <3>3
  <2>5. CASE v # w
    <3>1. /\ variable_args'[v] = variable_args[v] /\ my_index'[v] = my_index[v]
          /\ wpc'[v] = wpc[v]
        BY <2>5 DEF WorkerTypeOK, WStep, WTransfer, WClaim, TakeIndex, WReadFinished, WPublish, WBranch,
           WCleanup, CleanedUp, WLeave, WNext, WDownload, WFail, Exit, workerVars
    <3> QED
        BY <1>1, <2>1, <2>3, <3>1
  <2> QED
      BY <2>4, <2>5
<1> QED
    BY <1>2, <1>3

(* After the main thread has joined them no worker does anything.          *)
LEMMA WorkerStepAllReturned ==
    ASSUME IndInv, AllReturned, NEW w \in Workers, WStep(w) \/ WTransfer(w)
    PROVE  AllReturned'
<1>1. mpc' = mpc
    BY WorkerFrame DEF mainVars
<1>2. wpc[w] \notin {"none", "returned"}
    BY DEF WStep, WTransfer, WClaim, WReadFinished, WPublish, WBranch,
       WCleanup, WLeave, WNext, WDownload, WFail
<1> QED
    BY <1>1, <1>2 DEF AllReturned

(* No job is left behind, in every state.                                  *)
LEMMA AttendedAlways == Spec => []Attended
<1>1. Init => Attended
  <2> SUFFICES ASSUME Init PROVE Attended
      OBVIOUS
  <2>1. Counted /\ Awaited /\ LastOne /\ AllReturned
      BY DEF Init, Counted, Awaited, LastOne, AllReturned, Files, Workers
  <2> QED
      BY <2>1 DEF Attended
<1>2. IndInv /\ Attended /\ [Next]_vars => Attended'
  <2> SUFFICES ASSUME IndInv, Attended, [Next]_vars PROVE Attended'
      OBVIOUS
  <2>1. CASE MainStep
      BY <2>1, MainStepCounted, MainStepAwaited, MainStepLastOne, MainStepAllReturned DEF Attended
  <2>2. ASSUME NEW w \in Workers, WStep(w) \/ WTransfer(w) PROVE Attended'
      BY <2>2, WorkerStepCounted, WorkerStepAwaited, WorkerStepLastOne, WorkerStepAllReturned
         DEF Attended
  <2>3. CASE TouchFreed \/ UNCHANGED vars
    <3>1. UNCHANGED <<mainVars, file_index_finished, pipeVars, jobVars, workerVars>>
        BY <2>3 DEF TouchFreed, vars
    <3> QED
        BY <3>1 DEF Attended, Counted, Awaited, Offered, LastOne, AllReturned, PastEnd,
           mainVars, spawnVars, pipeVars, jobVars, workerVars
  <2> QED
      BY <2>1, <2>2, <2>3 DEF Next
<1> QED
    BY <1>1, <1>2, Invariance, PTL DEF Spec

(* When download_files returns, every job with bundles was finished, for   *)
(* any number of threads and files and any pipe size: the only jobs that   *)
(* are left open are those without bundles (download.c:54-73, 295-326).    *)
(* At the end the pipe is empty, since every idle worker is owed one       *)
(* pointer (CreditsBalance) and none is idle, so a job nobody visited      *)
(* cannot be waiting there (Awaited); and a job somebody visited has as    *)
(* many indices taken past its end as it had visitors (Counting), so the   *)
(* last of them would still be at work on it (LastOne).                    *)
THEOREM DoneMeansDeliveredAlways == Spec => []DoneMeansDelivered
<1>1. IndInv /\ CreditsBalance /\ Attended => DoneMeansDelivered
  <2> SUFFICES ASSUME IndInv, CreditsBalance, Attended, mpc = "done",
                      NEW f \in Files, job[f] = "open", len[f] # 0
               PROVE  FALSE
      BY DEF DoneMeansDelivered
  <2> USE DEF IndInv, TypeOK, Control
  <2>1. \A w \in Workers : wpc[w] \in {"none", "returned"} /\ ~visited[w]
      BY DEF Attended, AllReturned, WorkerControl
  <2>2. /\ len[f] \in Nat /\ len[f] > 0 /\ threads_visited[f] \in Nat /\ index[f] \in Nat
      BY DEF JobTypeOK
  <2>3. pipe_to = <<>>
    <3>1. {w \in Workers : wpc[w] = "idle"} = {}
        BY <2>1
    <3>2. 0 = pipe_from + Len(pipe_to) + HeldNotice
        BY <3>1, FS_EmptySet DEF CreditsBalance
    <3>3. pipe_from \in Nat /\ Len(pipe_to) \in Nat /\ HeldNotice \in Nat
        BY DEF SharedTypeOK, HeldNotice
    <3>4. Len(pipe_to) = 0
        BY <3>2, <3>3
    <3> QED
        BY <3>4 DEF SharedTypeOK
  <2>4. threads_visited[f] > 0
    <3>1. ~Offered(f)
        BY DEF Offered
    <3>2. ~(\E k \in 1 .. Len(pipe_to) : pipe_to[k] = f)
        BY <2>3
    <3> QED
        BY <2>1, <2>2, <3>1, <3>2 DEF Attended, Awaited
  <2>5. Inside(f) = {}
      BY <2>1 DEF Inside
  <2>6. PastEnd(f) = threads_visited[f]
    <3>1. 0 = threads_visited[f] - PastEnd(f)
        BY <2>5, FS_EmptySet DEF Counting
    <3>2. PastEnd(f) \in Nat
        BY <2>2 DEF PastEnd
    <3> QED
        BY <2>2, <3>1, <3>2
  <2> QED
      BY <2>1, <2>4, <2>6 DEF Attended, LastOne
<1> QED
    BY <1>1, Invariance, CreditsBalanceAlways, AttendedAlways, PTL

-----------------------------------------------------------------------------
(***************************************************************************)
(* One thread.                                                             *)
(***************************************************************************)

(* The worker has a job and is not through with it.                        *)
Busy(w) ==
    wpc[w] \in {"lock", "finish", "publish", "branch", "download", "cleanup"}

(* The main thread has opened a job and given it to nobody yet.            *)
InHand ==
    \/ mpc = "spawn" /\ threads_created = 0
    \/ mpc \in {"spawned", "hand", "check", "write"}

HeldOpen ==
    InHand => /\ job[i] = "open"
              /\ \A k \in 1 .. Len(pipe_to) : pipe_to[k] # i
              /\ \A w \in Workers : Busy(w) => variable_args[w] # i

QueuedOpen ==
    \A k \in 1 .. Len(pipe_to) : pipe_to[k] # NoJob =>
        /\ job[pipe_to[k]] = "open"
        /\ \A m \in 1 .. Len(pipe_to) : pipe_to[m] = pipe_to[k] => m = k
        /\ \A w \in Workers : Busy(w) => variable_args[w] # pipe_to[k]

BusyOpen == \A w \in Workers : Busy(w) => job[variable_args[w]] = "open"

(* With one thread there is one handle to each job: in the hands of the    *)
(* main thread, then in the pipe, then with the worker, who frees the job  *)
(* and drops the handle.                                                   *)
OneHandle == HeldOpen /\ QueuedOpen /\ BusyOpen

(* A step after which the main thread holds only what it held before.      *)
LEMMA KeepsHandle ==
    ASSUME OneHandle, UNCHANGED <<job, pipe_to, wpc, variable_args>>,
           InHand' => InHand /\ i' = i
    PROVE  OneHandle'
BY DEF OneHandle, HeldOpen, QueuedOpen, BusyOpen, Busy

(* The main thread gives the only handle away and forgets it: to the       *)
(* thread it starts, or into the pipe (download.c:262-293, 306-315).       *)
LEMMA MainStepOneHandle ==
    ASSUME Threads = 1, IndInv, OneHandle, MainStep
    PROVE  OneHandle'
<1> USE DEF IndInv, TypeOK, Control
<1>1. CASE \E n \in BundleCounts : MainOpenFile(n)
  <2>1. /\ i \in Files /\ job[i] = "absent" /\ job' = [job EXCEPT ![i] = "open"]
        /\ UNCHANGED <<i, pipe_to, wpc, variable_args>>
    BY <1>1 DEF MainOpenFile, MainTypeOK, MainControl, JobsOpened, Files, pipeVars, workerVars
  <2>2. \A k \in 1 .. Len(pipe_to) : pipe_to[k] # i
    BY <2>1 DEF Handles
  <2>3. \A w \in Workers : variable_args[w] # i
    BY <2>1 DEF Handles
  <2>4. \A f : f # i => job'[f] = job[f]
    BY <2>1 DEF JobTypeOK
  <2>5. HeldOpen'
    BY <2>1, <2>2, <2>3 DEF HeldOpen, JobTypeOK
  <2>6. QueuedOpen'
    BY <2>1, <2>2, <2>4 DEF OneHandle, QueuedOpen, Busy
  <2>7. BusyOpen'
    BY <2>1, <2>3, <2>4 DEF OneHandle, BusyOpen, Busy
  <2> QED
    BY <2>5, <2>6, <2>7 DEF OneHandle
<1>2. CASE MainSpawn
  <2>1. threads_created = 0 /\ mpc = "spawn" /\ i \in Files
    BY <1>2 DEF MainSpawn, SpawnMore, MainTypeOK, MainControl, Files
  <2>2. /\ wpc' = [wpc EXCEPT ![1] = "lock"] /\ variable_args' = [variable_args EXCEPT ![1] = i]
        /\ threads_created' = 1 /\ mpc' = "spawn" /\ UNCHANGED <<i, job, pipe_to>>
    BY <1>2, <2>1 DEF MainSpawn, pipeVars, jobVars
  <2>3. /\ job[i] = "open" /\ \A k \in 1 .. Len(pipe_to) : pipe_to[k] # i
    BY <2>1 DEF OneHandle, HeldOpen, InHand
  <2>4. \A w \in Workers : w = 1 /\ variable_args'[w] = i
    BY <2>2 DEF WorkerTypeOK, Workers
  <2>5. HeldOpen'
    BY <2>2 DEF HeldOpen, InHand
  <2>6. QueuedOpen'
    BY <2>2, <2>3, <2>4 DEF OneHandle, QueuedOpen
  <2>7. BusyOpen'
    BY <2>2, <2>3, <2>4 DEF BusyOpen
  <2> QED
    BY <2>5, <2>6, <2>7 DEF OneHandle
<1>3. CASE MainHandOut
  <2>1. /\ i \in Files /\ mpc = "write" /\ mpc' = "sent" /\ pipe_to' = Append(pipe_to, i)
        /\ UNCHANGED <<i, job, wpc, variable_args>>
    BY <1>3 DEF MainHandOut, MainTypeOK, MainControl, Files, jobVars, workerVars
  <2>2. /\ job[i] = "open" /\ \A k \in 1 .. Len(pipe_to) : pipe_to[k] # i
        /\ \A w \in Workers : Busy(w) => variable_args[w] # i
    BY <2>1 DEF OneHandle, HeldOpen, InHand
  <2>3. PICK n \in Nat :
           /\ n = Len(pipe_to) /\ Len(pipe_to') = n + 1 /\ pipe_to'[n + 1] = i
           /\ \A k \in 1 .. n : pipe_to'[k] = pipe_to[k]
    BY <2>1, AppendProperties DEF SharedTypeOK
  <2>4. HeldOpen'
    BY <2>1 DEF HeldOpen, InHand
  <2>5. ASSUME NEW k \in 1 .. n + 1, pipe_to'[k] # NoJob
        PROVE  /\ job[pipe_to'[k]] = "open"
               /\ \A m \in 1 .. n + 1 : pipe_to'[m] = pipe_to'[k] => m = k
               /\ \A w \in Workers : Busy(w) => variable_args[w] # pipe_to'[k]
    <3>1. CASE k = n + 1
      <4>1. \A m \in 1 .. n + 1 : m = n + 1 \/ m \in 1 .. n
        OBVIOUS
      <4> QED
        BY <2>2, <2>3, <3>1, <4>1
    <3>2. CASE k # n + 1
      <4>1. k \in 1 .. n /\ \A m \in 1 .. n + 1 : m = n + 1 \/ m \in 1 .. n
        BY <3>2
      <4> QED
        BY <2>2, <2>3, <2>5, <4>1 DEF OneHandle, QueuedOpen
    <3> QED
      BY <3>1, <3>2
  <2>6. QueuedOpen'
    BY <2>1, <2>3, <2>5 DEF QueuedOpen, Busy
  <2>7. BusyOpen'
    BY <2>1 DEF OneHandle, BusyOpen, Busy
  <2> QED
    BY <2>4, <2>6, <2>7 DEF OneHandle
<1>4. CASE MainStopWorker
  <2>1. /\ mpc' = "file" /\ pipe_to' = Append(pipe_to, NoJob)
        /\ UNCHANGED <<job, wpc, variable_args>>
    BY <1>4 DEF MainStopWorker, jobVars, workerVars
  <2>2. PICK n \in Nat :
           /\ n = Len(pipe_to) /\ Len(pipe_to') = n + 1 /\ pipe_to'[n + 1] = NoJob
           /\ \A k \in 1 .. n : pipe_to'[k] = pipe_to[k]
    BY <2>1, AppendProperties DEF SharedTypeOK
  <2>3. \A k \in 1 .. n + 1 : k \in 1 .. n \/ pipe_to'[k] = NoJob
    BY <2>2
  <2>4. QueuedOpen'
    BY <2>1, <2>2, <2>3 DEF OneHandle, QueuedOpen, Busy
  <2>5. HeldOpen' /\ BusyOpen'
    BY <2>1 DEF OneHandle, HeldOpen, InHand, BusyOpen, Busy
  <2> QED
    BY <2>4, <2>5 DEF OneHandle
<1>5. CASE MainSpawned \/ MainDistribute \/ MainTakeIdle \/ MainCheckFinished \/ MainSent
  <2>1. UNCHANGED <<job, pipe_to, wpc, variable_args>>
    BY <1>5 DEF MainSpawned, MainDistribute, MainTakeIdle, MainCheckFinished, MainSent,
       pipeVars, jobVars, workerVars
  <2>2. InHand' => InHand /\ i' = i
    BY <1>5 DEF InHand, MainSpawned, MainDistribute, MainTakeIdle, MainCheckFinished,
       MainSent, LeaveFile, NextFile, Goto
  <2> QED
    BY <2>1, <2>2, KeepsHandle
<1>6. CASE \/ MainSkipFile \/ MainOpenFails \/ MainNeedsFile \/ MainAwaitIdle
           \/ MainTruncateFile \/ MainConnectFails \/ MainTakeIdleToStop \/ MainJoin
  <2>1. UNCHANGED <<job, pipe_to, wpc, variable_args>>
    BY <1>6 DEF MainSkipFile, MainOpenFails, MainNeedsFile, MainAwaitIdle, MainTruncateFile,
       MainConnectFails, MainTakeIdleToStop, MainJoin, Exit, pipeVars, jobVars, workerVars
  <2>2. InHand' => InHand /\ i' = i
    BY <1>6 DEF InHand, MainSkipFile, MainOpenFails, MainNeedsFile, MainAwaitIdle,
       MainTruncateFile, MainConnectFails, MainTakeIdleToStop, MainJoin, Exit, NextFile,
       mainVars, spawnVars
  <2> QED
    BY <2>1, <2>2, KeepsHandle
<1> QED
    BY <1>1, <1>2, <1>3, <1>4, <1>5, <1>6 DEF MainStep

(* The worker takes the handle out of the pipe, and drops it when it has   *)
(* freed the job (download.c:67-78).                                       *)
LEMMA WorkerStepOneHandle ==
    ASSUME Threads = 1, IndInv, OneHandle, NEW w \in Workers, WStep(w) \/ WTransfer(w)
    PROVE  OneHandle'
<1> USE DEF IndInv, TypeOK, Control
<1>1. \A v \in Workers : v = w
    BY DEF Workers
<1>2. UNCHANGED <<mpc, i, threads_created>> /\ InHand' = InHand
    BY WorkerFrame DEF mainVars, spawnVars, InHand
<1>3. CASE WCleanup(w)
  <2> DEFINE f == variable_args[w]
  <2>1. /\ f \in Files /\ Busy(w) /\ ~Busy(w)' /\ job' = [job EXCEPT ![f] = "freed"]
        /\ UNCHANGED <<pipe_to, variable_args>>
    BY <1>3 DEF WCleanup, CleanedUp, WorkerControl, Busy, WorkerTypeOK, pipeVars
  <2>2. \A g : g # f => job'[g] = job[g]
    BY <2>1 DEF JobTypeOK
  <2>3. \A v \in Workers : ~Busy(v)'
    BY <1>1, <2>1
  <2>4. HeldOpen'
    BY <1>2, <2>1, <2>2, <2>3 DEF OneHandle, HeldOpen
  <2>5. QueuedOpen'
    BY <2>1, <2>2, <2>3 DEF OneHandle, QueuedOpen
  <2>6. BusyOpen'
    BY <2>3 DEF BusyOpen
  <2> QED
    BY <2>4, <2>5, <2>6 DEF OneHandle
<1>4. CASE WNext(w)
  <2>1. /\ Head(pipe_to) = pipe_to[1] /\ 1 \in 1 .. Len(pipe_to)
        /\ \A k \in 1 .. Len(pipe_to') :
              pipe_to'[k] = pipe_to[k + 1] /\ k + 1 \in 1 .. Len(pipe_to) /\ k + 1 # 1
    BY <1>4, HeadTail DEF SharedTypeOK, WNext
  <2>2. /\ variable_args'[w] = pipe_to[1] /\ UNCHANGED job
        /\ wpc'[w] = IF pipe_to[1] = NoJob THEN "returned" ELSE "lock"
    BY <1>4, <2>1 DEF WNext, WorkerTypeOK, jobVars
  <2>3. HeldOpen'
    BY <1>1, <1>2, <2>1, <2>2 DEF OneHandle, HeldOpen
  <2>4. \A k \in 1 .. Len(pipe_to') : pipe_to'[k] # NoJob =>
           /\ pipe_to'[k] # pipe_to[1] /\ job'[pipe_to'[k]] = "open"
    BY <2>1, <2>2 DEF OneHandle, QueuedOpen
  <2>5. \A k, m \in 1 .. Len(pipe_to') : pipe_to'[k] # NoJob /\ pipe_to'[m] = pipe_to'[k] => m = k
    <3> TAKE k, m \in 1 .. Len(pipe_to')
    <3> SUFFICES ASSUME pipe_to'[k] # NoJob, pipe_to'[m] = pipe_to'[k] PROVE m = k
      OBVIOUS
    <3>1. m + 1 = k + 1
      BY <2>1 DEF OneHandle, QueuedOpen
    <3> QED
      BY <3>1
  <2>6. QueuedOpen'
    BY <1>1, <2>2, <2>4, <2>5 DEF QueuedOpen
  <2>7. BusyOpen'
    <3>1. Busy(w)' => pipe_to[1] # NoJob
      BY <2>2 DEF Busy
    <3>2. pipe_to[1] # NoJob => job[pipe_to[1]] = "open"
      BY <2>1 DEF OneHandle, QueuedOpen
    <3> QED
      BY <1>1, <2>2, <3>1, <3>2 DEF BusyOpen
  <2> QED
    BY <2>3, <2>6, <2>7 DEF OneHandle
<1>5. CASE ~WCleanup(w) /\ ~WNext(w)
  <2>1. UNCHANGED <<job, pipe_to, variable_args>>
    BY <1>5, WorkerFrame
  <2>2. Busy(w)' => Busy(w)
    BY <1>5 DEF WStep, WTransfer, WClaim, WReadFinished, WPublish, WBranch, WLeave,
       WDownload, WFail, Exit, Busy, WorkerTypeOK, workerVars
  <2>3. \A v \in Workers : Busy(v)' => Busy(v)
    BY <1>1, <2>2
  <2> QED
    BY <1>2, <2>1, <2>3 DEF OneHandle, HeldOpen, QueuedOpen, BusyOpen
<1> QED
    BY <1>3, <1>4, <1>5

(* With one thread, the default, no thread ever touches a freed job,       *)
(* whatever the timing of the transfers: the behaviours that do so need a  *)
(* second handle to the job (download.c:67-68, 295, 314).                  *)
THEOREM NoUndefinedSerial ==
    ASSUME Threads = 1
    PROVE  Spec => []NoUndefined
<1>1. Init => OneHandle /\ NoUndefined
    BY DEF Init, OneHandle, HeldOpen, InHand, QueuedOpen, BusyOpen, Busy, NoUndefined
<1>2. IndInv /\ OneHandle /\ NoUndefined /\ [Next]_vars => (OneHandle /\ NoUndefined)'
  <2> SUFFICES ASSUME IndInv, OneHandle, NoUndefined, [Next]_vars
               PROVE  (OneHandle /\ NoUndefined)'
      OBVIOUS
  <2>1. CASE MainStep
    <3>1. proc' = proc \/ proc' = "exited"
        BY <2>1 DEF MainStep, MainSkipFile, MainOpenFails, MainNeedsFile, MainAwaitIdle,
           MainTruncateFile, MainOpenFile, MainSpawn, MainConnectFails, MainSpawned,
           MainDistribute, MainTakeIdle, MainCheckFinished, MainHandOut, MainSent,
           MainTakeIdleToStop, MainStopWorker, MainJoin, Exit
    <3> QED
        BY <2>1, <3>1, MainStepOneHandle DEF NoUndefined
  <2>2. ASSUME NEW w \in Workers, WStep(w) \/ WTransfer(w) PROVE (OneHandle /\ NoUndefined)'
    <3>1. proc' = proc \/ proc' = "exited"
        BY <2>2 DEF WStep, WTransfer, WClaim, WReadFinished, WPublish, WBranch, WCleanup,
           WLeave, WNext, WDownload, WFail, Exit
    <3> QED
        BY <2>2, <3>1, WorkerStepOneHandle DEF NoUndefined
  <2>3. CASE TouchFreed
    <3>1. ~MainTouchesFreed
        BY DEF MainTouchesFreed, OneHandle, HeldOpen, InHand
    <3>2. \A w \in Workers : ~WTouchesFreed(w)
        BY DEF WTouchesFreed, OneHandle, BusyOpen, Busy
    <3> QED
        BY <2>3, <3>1, <3>2 DEF TouchFreed
  <2>4. CASE UNCHANGED vars
    <3>1. UNCHANGED <<mpc, i, threads_created, proc, job, pipe_to, wpc, variable_args>>
        BY <2>4 DEF vars, mainVars, spawnVars, pipeVars, jobVars, workerVars
    <3> QED
        BY <3>1, KeepsHandle DEF InHand, NoUndefined
  <2> QED
      BY <2>1, <2>2, <2>3, <2>4 DEF Next
<1> QED
    BY <1>1, <1>2, Invariance, PTL DEF Spec

(* What the one worker read in max() is still what the variable holds when *)
(* it writes the maximum.                                                  *)
SeenCurrent ==
    \A w \in Workers : wpc[w] = "publish" => seen[w] = file_index_finished

(* With one thread file_index_finished never falls back, whatever the      *)
(* timing: nobody writes it between the two halves of max() (download.c:   *)
(* 62-64).                                                                 *)
THEOREM FinishedMonotoneSerial ==
    ASSUME Threads = 1
    PROVE  Spec => FinishedMonotone
<1>1. Init => SeenCurrent
    BY DEF Init, SeenCurrent
<1>2. ASSUME IndInv, SeenCurrent, [Next]_vars
      PROVE  SeenCurrent' /\ file_index_finished' >= file_index_finished
  <2>0. IndInv /\ SeenCurrent
      BY <1>2
  <2> USE <2>0 DEF IndInv, TypeOK
  <2>1. file_index_finished \in Int /\ \A f \in Files : f \in Int
      BY DEF SharedTypeOK, Files
  <2>2. CASE UNCHANGED <<file_index_finished, wpc, seen>>
      BY <2>1, <2>2 DEF SeenCurrent
  <2>3. CASE MainSpawn
    <3>1. UNCHANGED <<file_index_finished, seen>> /\ wpc' = [wpc EXCEPT ![threads_created + 1] = "lock"]
        BY <2>3 DEF MainSpawn
    <3> QED
        BY <2>1, <3>1 DEF SeenCurrent, WorkerTypeOK
  <2>4. ASSUME NEW w \in Workers, WStep(w) \/ WTransfer(w)
        PROVE  SeenCurrent' /\ file_index_finished' >= file_index_finished
    <3>1. \A v \in Workers : v = w
        BY DEF Workers
    <3>2. CASE WReadFinished(w)
        BY <2>1, <3>1, <3>2 DEF WReadFinished, SeenCurrent, WorkerTypeOK
    <3>3. CASE WPublish(w)
      <4>1. variable_args[w] \in Int
          BY DEF WorkerTypeOK, Files, NoJob
      <4>2. seen[w] = file_index_finished /\ wpc'[w] = "branch"
          BY <3>3 DEF WPublish, SeenCurrent, WorkerTypeOK
      <4>3. file_index_finished' = IF seen[w] > variable_args[w] THEN seen[w] ELSE variable_args[w]
          BY <3>3 DEF WPublish
      <4>4. file_index_finished' >= file_index_finished
          BY <2>1, <4>1, <4>2, <4>3
      <4> QED
          BY <3>1, <4>2, <4>4 DEF SeenCurrent
    <3>4. CASE ~WReadFinished(w) /\ ~WPublish(w)
      <4>1. file_index_finished' = file_index_finished /\ (wpc'[w] = "publish" => UNCHANGED wpc)
            /\ seen' = seen
          BY <2>4, <3>4 DEF WStep, WTransfer, WClaim, WBranch, WCleanup, CleanedUp, WLeave, WNext,
             WDownload, WFail, Exit, WorkerTypeOK, mainVars, pipeVars, jobVars, workerVars
      <4> QED
          BY <2>1, <3>1, <4>1 DEF SeenCurrent
    <3> QED
        BY <3>2, <3>3, <3>4
  <2>5. CASE MainStep
      BY <2>2, <2>3, <2>5, MainFrame, MainLeavesFinished DEF workerVars
  <2>6. CASE TouchFreed \/ UNCHANGED vars
      BY <2>2, <2>6 DEF TouchFreed, vars, workerVars
  <2> QED
      BY <1>2, <2>4, <2>5, <2>6 DEF Next
<1>3. IndInv /\ SeenCurrent /\ [Next]_vars => SeenCurrent'
    BY <1>2
<1>4. IndInv /\ SeenCurrent /\ [Next]_vars =>
         [file_index_finished' >= file_index_finished]_file_index_finished
    BY <1>2
<1> QED
    BY <1>1, <1>3, <1>4, Invariance, PTL DEF Spec, FinishedMonotone

=============================================================================
