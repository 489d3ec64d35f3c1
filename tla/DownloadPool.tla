---------------------------- MODULE DownloadPool ----------------------------
(***************************************************************************)
(* The thread pool of download.c: download_files() (the main thread) walks *)
(* the list of files, opens a job for every file that needs data, starts   *)
(* worker threads for the first jobs and afterwards hands jobs to idle     *)
(* workers through a pipe; download_and_write_bundle() (a worker) takes    *)
(* bundles of its job one by one under the job's mutex, and the last       *)
(* worker to leave a job brings the file to its final size and frees the   *)
(* job.                                                                    *)
(*                                                                         *)
(* Every step is one the scheduler can interleave with the steps of other  *)
(* threads: the update of the shared index under the mutex, the two halves *)
(* of the read-modify-write of file_index_finished, the unlocked reads     *)
(* after the mutex is released, and every pipe operation.  Touching a job  *)
(* after it was freed is undefined behaviour: the model stops there, with  *)
(* proc = "undefined".                                                     *)
(***************************************************************************)
EXTENDS Integers, Sequences, FiniteSets

CONSTANTS
    Threads,        \* amount_of_threads
    NFiles,         \* length of the list given to download_files
    BundleCounts,   \* numbers of bundles group_by_bundles may return
    PipeCapacity,   \* messages that fit into a pipe before a write blocks
    IndexBound      \* bound of the model: the largest index of a job

ASSUME ThreadsAssumption == Threads \in Nat \ {0}
ASSUME NFilesAssumption == NFiles \in Nat
ASSUME BundleCountsAssumption == BundleCounts \subseteq Nat
ASSUME PipeCapacityAssumption == PipeCapacity \in Nat \ {0}
ASSUME IndexBoundAssumption == IndexBound \in Nat

VARIABLES
    \* the main thread
    mpc,                \* program counter of download_files
    i,                  \* the file the loop is at
    threads_created,
    current_index,      \* bundles of file i that got a new thread
    do_read,            \* FALSE: the main thread holds one unused idle notice
    stopped,            \* workers already sent the NULL pointer
    \* shared between all threads
    file_index_finished,
    pipe_from,          \* bytes in pipe_from_downloader
    pipe_to,            \* pointers in pipe_to_downloader, oldest first
    proc,               \* "running", "exited" (exit was called) or "undefined"
    \* one job per file: struct variable_bundle_args and the output file
    job,                \* "absent", "open" or "freed"
    len,                \* to_download->length
    index,
    threads_visited,
    index_lock,         \* holder of the mutex
    written,            \* bundles whose chunks are in the output file
    \* one record per worker
    wpc,                \* program counter of download_and_write_bundle
    variable_args,      \* the job the worker has
    my_index,           \* its local variable index
    visited,
    seen                \* file_index_finished as read by max()

spawnVars  == <<threads_created, current_index>>
mainVars   == <<mpc, i, spawnVars, do_read, stopped>>
pipeVars   == <<pipe_from, pipe_to>>
jobVars    == <<job, len, index, threads_visited, index_lock, written>>
workerVars == <<wpc, variable_args, my_index, visited, seen>>
vars == <<mainVars, file_index_finished, pipeVars, proc, jobVars, workerVars>>

Files   == 0 .. NFiles - 1
Workers == 1 .. Threads

NoJob == -1             \* the NULL pointer
Free  == 0              \* nobody holds the mutex
Main  == -1             \* the main thread holds it

-----------------------------------------------------------------------------

Init ==
    /\ mpc = "file" /\ i = 0 /\ threads_created = 0 /\ current_index = 0
    /\ do_read = TRUE /\ stopped = 0
    /\ file_index_finished = -1
    /\ pipe_from = 0 /\ pipe_to = <<>>
    /\ proc = "running"
    /\ job = [f \in Files |-> "absent"]
    /\ len = [f \in Files |-> 0]
    /\ index = [f \in Files |-> 0]
    /\ threads_visited = [f \in Files |-> 0]
    /\ index_lock = [f \in Files |-> Free]
    /\ written = [f \in Files |-> {}]
    /\ wpc = [w \in Workers |-> "none"]
    /\ variable_args = [w \in Workers |-> NoJob]
    /\ my_index = [w \in Workers |-> 0]
    /\ visited = [w \in Workers |-> FALSE]
    /\ seen = [w \in Workers |-> -1]

-----------------------------------------------------------------------------
(***************************************************************************)
(* The main thread.                                                        *)
(***************************************************************************)

Goto(pc) == mpc' = pc /\ UNCHANGED i
NextFile == mpc' = "file" /\ i' = i + 1

(* exit(EXIT_FAILURE), called by any thread, ends them all.                *)
Exit ==
    /\ proc' = "exited"
    /\ UNCHANGED <<mainVars, file_index_finished, pipeVars, jobVars, workerVars>>

(* The file needs no data: skipped, correct, missing and not wanted, or    *)
(* only verified.                                                          *)
MainSkipFile ==
    /\ mpc = "file" /\ i < NFiles
    /\ i' = i + 1
    /\ UNCHANGED <<mpc, spawnVars, do_read, stopped>>
    /\ UNCHANGED <<file_index_finished, pipeVars, proc, jobVars, workerVars>>

(* A file that exists cannot be opened, to be verified or to be written.   *)
MainOpenFails ==
    /\ (mpc = "file" /\ i < NFiles) \/ mpc = "open"
    /\ Exit

(* The file is missing or incorrect.                                       *)
MainNeedsFile ==
    /\ mpc = "file" /\ i < NFiles
    /\ mpc' = "await"
    /\ UNCHANGED <<i, spawnVars, do_read, stopped>>
    /\ UNCHANGED <<file_index_finished, pipeVars, proc, jobVars, workerVars>>

(* Faulty: the notice is forgotten.                                        *)
KeepNoticeForgets == UNCHANGED do_read

(* Note that an idle notice was read and not used.                         *)
KeepNotice == do_read' = FALSE

(* With all threads started, wait for the notice of an idle one and keep   *)
(* it.                                                                     *)
MainAwaitIdle ==
    /\ mpc = "await"
    /\ \/ /\ threads_created = Threads /\ do_read
          /\ pipe_from > 0
          /\ pipe_from' = pipe_from - 1
          /\ KeepNotice
       \/ /\ threads_created < Threads \/ ~do_read
          /\ UNCHANGED <<pipe_from, do_read>>
    /\ mpc' = "open"
    /\ UNCHANGED <<i, spawnVars, stopped>>
    /\ UNCHANGED <<file_index_finished, pipe_to, proc, jobVars, workerVars>>

(* All chunks of an existing file are valid and only its size is wrong:    *)
(* truncate() it.                                                          *)
MainTruncateFile ==
    /\ mpc = "open"
    /\ NextFile
    /\ UNCHANGED <<spawnVars, do_read, stopped>>
    /\ UNCHANGED <<file_index_finished, pipeVars, proc, jobVars, workerVars>>

(* Open the output file one byte longer than its final size, group the     *)
(* chunks into n bundles and build the job; when threads are still to be   *)
(* started its mutex is held until they are.                               *)
MainOpenFile(n) ==
    /\ mpc = "open"
    /\ job' = [job EXCEPT ![i] = "open"]
    /\ len' = [len EXCEPT ![i] = n]
    /\ index' = [index EXCEPT ![i] = 0]
    /\ threads_visited' = [threads_visited EXCEPT ![i] = 0]
    /\ index_lock' = [index_lock EXCEPT ![i] = IF threads_created < Threads
                                               THEN Main ELSE Free]
    /\ current_index' = 0
    /\ mpc' = IF threads_created < Threads THEN "spawn" ELSE "spawned"
    /\ UNCHANGED <<i, threads_created, do_read, stopped>>
    /\ UNCHANGED <<file_index_finished, pipeVars, proc, written, workerVars>>

(* Faulty: the loop tests only the number of bundles.                      *)
SpawnMoreUnbounded == current_index < len[i]

(* Is there a thread left to start, and a bundle left for it?              *)
SpawnMore == threads_created < Threads /\ current_index < len[i]

(* Start one more thread on the current job.                               *)
MainSpawn ==
    /\ mpc = "spawn" /\ SpawnMore
    /\ LET w == threads_created + 1
       IN  /\ wpc' = [wpc EXCEPT ![w] = "lock"]
           /\ variable_args' = [variable_args EXCEPT ![w] = i]
    /\ threads_created' = threads_created + 1
    /\ current_index' = current_index + 1
    /\ UNCHANGED <<mpc, i, do_read, stopped, my_index, visited, seen>>
    /\ UNCHANGED <<file_index_finished, pipeVars, proc, jobVars>>

(* open_connection_s found no working connection for the new thread.       *)
MainConnectFails ==
    /\ mpc = "spawn" /\ SpawnMore
    /\ Exit

(* No thread left to start, or no bundle left for one: release the mutex.  *)
MainSpawned ==
    /\ mpc = "spawn" /\ ~SpawnMore
    /\ index_lock' = [index_lock EXCEPT ![i] = Free]
    /\ IF Threads = 1
       THEN NextFile
       ELSE Goto("spawned")
    /\ UNCHANGED <<spawnVars, do_read, stopped>>
    /\ UNCHANGED <<file_index_finished, pipeVars, proc, workerVars>>
    /\ UNCHANGED <<job, len, index, threads_visited, written>>

(* Are there bundles beyond the ones that got a new thread?  With all      *)
(* threads started this reads the length of a list the workers may have    *)
(* freed by now (see TouchFreed).                                          *)
MainDistribute ==
    /\ mpc = "spawned"
    /\ threads_created = Threads => job[i] = "open"
    /\ IF threads_created = Threads /\ current_index < len[i]
       THEN Goto("hand")
       ELSE NextFile
    /\ UNCHANGED <<spawnVars, do_read, stopped>>
    /\ UNCHANGED <<file_index_finished, pipeVars, proc, jobVars, workerVars>>

(* Use the idle notice kept from before, or read the next one.             *)
TakeIdleNotice ==
    /\ do_read => pipe_from > 0
    /\ pipe_from' = IF do_read THEN pipe_from - 1 ELSE pipe_from
    /\ do_read' = TRUE

MainTakeIdle ==
    /\ mpc = "hand"
    /\ TakeIdleNotice
    /\ mpc' = "check"
    /\ UNCHANGED <<i, spawnVars, stopped>>
    /\ UNCHANGED <<file_index_finished, pipe_to, proc, jobVars, workerVars>>

(* Has the last bundle of this file been taken?  An unsynchronised read.   *)
FileFinished == file_index_finished = i

(* Faulty: the break is missing.                                           *)
LeaveFileStays == Goto("hand") /\ KeepNotice

(* Break off, keeping the notice for the next file.                        *)
LeaveFile == NextFile /\ KeepNotice

MainCheckFinished ==
    /\ mpc = "check"
    /\ IF FileFinished
       THEN LeaveFile
       ELSE Goto("write") /\ UNCHANGED do_read
    /\ UNCHANGED <<spawnVars, stopped>>
    /\ UNCHANGED <<file_index_finished, pipeVars, proc, jobVars, workerVars>>

(* Hand the job to whichever idle worker reads the pointer.                *)
MainHandOut ==
    /\ mpc = "write"
    /\ Len(pipe_to) < PipeCapacity
    /\ pipe_to' = Append(pipe_to, i)
    /\ mpc' = "sent"
    /\ UNCHANGED <<i, spawnVars, do_read, stopped>>
    /\ UNCHANGED <<file_index_finished, pipe_from, proc, jobVars, workerVars>>

(* One handle is enough for a single thread or a single bundle; the length *)
(* is read after the handle is out of the main thread's hands.             *)
MainSent ==
    /\ mpc = "sent"
    /\ Threads # 1 => job[i] = "open"
    /\ IF Threads = 1 \/ len[i] = 1
       THEN NextFile
       ELSE Goto("hand")
    /\ UNCHANGED <<spawnVars, do_read, stopped>>
    /\ UNCHANGED <<file_index_finished, pipeVars, proc, jobVars, workerVars>>

(* After the last file: one NULL pointer per thread, each for one idle     *)
(* notice.                                                                 *)
MainTakeIdleToStop ==
    /\ mpc = "file" /\ i = NFiles
    /\ stopped < threads_created
    /\ TakeIdleNotice
    /\ mpc' = "stop"
    /\ UNCHANGED <<i, spawnVars, stopped>>
    /\ UNCHANGED <<file_index_finished, pipe_to, proc, jobVars, workerVars>>

MainStopWorker ==
    /\ mpc = "stop"
    /\ Len(pipe_to) < PipeCapacity
    /\ pipe_to' = Append(pipe_to, NoJob)
    /\ stopped' = stopped + 1
    /\ mpc' = "file"
    /\ UNCHANGED <<i, spawnVars, do_read>>
    /\ UNCHANGED <<file_index_finished, pipe_from, proc, jobVars, workerVars>>

(* pthread_join on every thread, then close the pipes.                     *)
MainJoin ==
    /\ mpc = "file" /\ i = NFiles
    /\ stopped = threads_created
    /\ \A w \in 1 .. threads_created : wpc[w] = "returned"
    /\ mpc' = "done"
    /\ UNCHANGED <<i, spawnVars, do_read, stopped>>
    /\ UNCHANGED <<file_index_finished, pipeVars, proc, jobVars, workerVars>>

MainStep ==
    \/ MainSkipFile \/ MainOpenFails \/ MainNeedsFile \/ MainAwaitIdle \/ MainTruncateFile
    \/ \E n \in BundleCounts : MainOpenFile(n)
    \/ MainSpawn \/ MainConnectFails \/ MainSpawned \/ MainDistribute
    \/ MainTakeIdle \/ MainCheckFinished \/ MainHandOut \/ MainSent
    \/ MainTakeIdleToStop \/ MainStopWorker \/ MainJoin

-----------------------------------------------------------------------------
(***************************************************************************)
(* The workers.                                                            *)
(***************************************************************************)

(* Faulty: the index is incremented only where the visit is counted.       *)
TakeIndexOncePerVisit(w) ==
    /\ my_index' = [my_index EXCEPT ![w] = index[variable_args[w]]]
    /\ index' = [index EXCEPT ![variable_args[w]] = IF visited[w] THEN @ ELSE @ + 1]

TakeIndex(w) ==
    /\ my_index' = [my_index EXCEPT ![w] = index[variable_args[w]]]
    /\ index' = [index EXCEPT ![variable_args[w]] = @ + 1]

(* Faulty: indices past the last one count as well.                        *)
LastTakenOrLater(f) == index[f] + 1 >= len[f]

(* The index about to be taken is that of the last bundle.                 *)
LastTaken(f) == index[f] + 1 = len[f]

(* Take the next index of the job under its mutex; the first time round    *)
(* the worker also counts itself.  Whoever takes the last bundle goes on   *)
(* to publish that, still holding the mutex.                               *)
WClaim(w) ==
    LET f == variable_args[w]
    IN  /\ wpc[w] = "lock"
        /\ job[f] = "open" /\ index_lock[f] = Free
        /\ index[f] < IndexBound
        /\ TakeIndex(w)
        /\ threads_visited' = [threads_visited EXCEPT
                                   ![f] = IF visited[w] THEN @ ELSE @ + 1]
        /\ visited' = [visited EXCEPT ![w] = TRUE]
        /\ IF LastTaken(f)
           THEN /\ wpc' = [wpc EXCEPT ![w] = "finish"]
                /\ index_lock' = [index_lock EXCEPT ![f] = w]
           ELSE /\ wpc' = [wpc EXCEPT ![w] = "branch"]
                /\ UNCHANGED index_lock
        /\ UNCHANGED <<job, len, written, variable_args, seen>>
        /\ UNCHANGED <<mainVars, file_index_finished, pipeVars, proc>>

(* The read of file_index_finished in max().  The mutex held is this job's *)
(* own: workers of two jobs may be here at once.                           *)
WReadFinished(w) ==
    /\ wpc[w] = "finish"
    /\ seen' = [seen EXCEPT ![w] = file_index_finished]
    /\ wpc' = [wpc EXCEPT ![w] = "publish"]
    /\ UNCHANGED <<variable_args, my_index, visited, jobVars>>
    /\ UNCHANGED <<mainVars, file_index_finished, pipeVars, proc>>

(* The write of the maximum, and the unlock.                               *)
WPublish(w) ==
    LET f == variable_args[w]
    IN  /\ wpc[w] = "publish"
        /\ file_index_finished' = IF seen[w] > f THEN seen[w] ELSE f
        /\ index_lock' = [index_lock EXCEPT ![f] = Free]
        /\ wpc' = [wpc EXCEPT ![w] = "branch"]
        /\ UNCHANGED <<variable_args, my_index, visited, seen>>
        /\ UNCHANGED <<job, len, index, threads_visited, written>>
        /\ UNCHANGED <<mainVars, pipeVars, proc>>

(* Faulty: the index one past the end counts as a bundle.                  *)
HasBundleOrOneMore(w) == my_index[w] <= len[variable_args[w]]

(* The index is that of a bundle.                                          *)
HasBundle(w) == my_index[w] < len[variable_args[w]]

(* Faulty: the first worker past the end cleans up, whoever is at work.    *)
FirstPastEnd(w) == my_index[w] = len[variable_args[w]]

(* Faulty: one visitor too many is waited for.                             *)
LastVisitorOffByOne(w) ==
    my_index[w] = len[variable_args[w]] + threads_visited[variable_args[w]]

(* The worker has the last index that all visitors together can take.      *)
LastVisitor(w) ==
    my_index[w] = len[variable_args[w]] + threads_visited[variable_args[w]] - 1

(* Without the mutex: a bundle to fetch, or past the end.  The last visitor *)
(* cleans up.                                                              *)
WBranch(w) ==
    /\ wpc[w] = "branch"
    /\ job[variable_args[w]] = "open"
    /\ wpc' = [wpc EXCEPT ![w] = IF HasBundle(w) THEN "download"
                                   ELSE IF LastVisitor(w) THEN "cleanup"
                                   ELSE "leave"]
    /\ UNCHANGED <<variable_args, my_index, visited, seen, jobVars>>
    /\ UNCHANGED <<mainVars, file_index_finished, pipeVars, proc>>

(* Fetch the bundle's ranges and write every chunk to its place.           *)
WDownload(w) ==
    /\ wpc[w] = "download"
    /\ written' = [written EXCEPT ![variable_args[w]] = @ \cup {my_index[w]}]
    /\ wpc' = [wpc EXCEPT ![w] = "lock"]
    /\ UNCHANGED <<variable_args, my_index, visited, seen>>
    /\ UNCHANGED <<job, len, index, threads_visited, index_lock>>
    /\ UNCHANGED <<mainVars, file_index_finished, pipeVars, proc>>

(* The ranges cannot be fetched or a chunk does not decompress.            *)
WFail(w) ==
    /\ wpc[w] = "download"
    /\ Exit

(* Faulty: the worker goes on with the job it cleaned up.                  *)
CleanedUpStays(w) == wpc' = [wpc EXCEPT ![w] = "lock"]

(* The worker is through with the job it cleaned up.                       *)
CleanedUp(w) == wpc' = [wpc EXCEPT ![w] = "leave"]

(* cleanup_variable_bundle_args: bring the file to its final size, close   *)
(* it, free everything the job consists of.                                *)
WCleanup(w) ==
    LET f == variable_args[w]
    IN  /\ wpc[w] = "cleanup"
        /\ job[f] = "open"
        /\ job' = [job EXCEPT ![f] = "freed"]
        /\ index_lock' = [index_lock EXCEPT ![f] = Free]
        /\ CleanedUp(w)
        /\ UNCHANGED <<variable_args, my_index, visited, seen>>
        /\ UNCHANGED <<len, index, threads_visited, written>>
        /\ UNCHANGED <<mainVars, file_index_finished, pipeVars, proc>>

(* Tell the main thread that this worker is idle.                          *)
WLeave(w) ==
    /\ wpc[w] = "leave"
    /\ pipe_from < PipeCapacity
    /\ pipe_from' = pipe_from + 1
    /\ wpc' = [wpc EXCEPT ![w] = "idle"]
    /\ UNCHANGED <<variable_args, my_index, visited, seen, jobVars>>
    /\ UNCHANGED <<mainVars, file_index_finished, pipe_to, proc>>

(* Faulty: visited keeps its value from the last job.                      *)
NewVisitForgotten(w) == UNCHANGED visited

NewVisit(w) == visited' = [visited EXCEPT ![w] = FALSE]

(* Read the next job, or NULL and return.                                  *)
WNext(w) ==
    /\ wpc[w] = "idle"
    /\ pipe_to # <<>>
    /\ pipe_to' = Tail(pipe_to)
    /\ variable_args' = [variable_args EXCEPT ![w] = Head(pipe_to)]
    /\ NewVisit(w)
    /\ wpc' = [wpc EXCEPT ![w] = IF Head(pipe_to) = NoJob THEN "returned" ELSE "lock"]
    /\ UNCHANGED <<my_index, seen, pipe_from, jobVars>>
    /\ UNCHANGED <<mainVars, file_index_finished, proc>>

WStep(w) ==
    \/ WClaim(w) \/ WReadFinished(w) \/ WPublish(w) \/ WBranch(w)
    \/ WCleanup(w) \/ WLeave(w) \/ WNext(w)

WTransfer(w) == WDownload(w) \/ WFail(w)

-----------------------------------------------------------------------------
(***************************************************************************)
(* Undefined behaviour: a thread is about to read or write a job that has  *)
(* been freed.  What the program does from here on is not modelled.        *)
(***************************************************************************)
WTouchesFreed(w) ==
    /\ wpc[w] \in {"lock", "branch", "cleanup"}
    /\ job[variable_args[w]] = "freed"

MainTouchesFreed ==
    /\ \/ mpc = "spawned" /\ threads_created = Threads
       \/ mpc = "sent" /\ Threads # 1
    /\ job[i] = "freed"

TouchFreed ==
    /\ MainTouchesFreed \/ \E w \in Workers : WTouchesFreed(w)
    /\ proc' = "undefined"
    /\ UNCHANGED <<mainVars, file_index_finished, pipeVars, jobVars, workerVars>>

Ended == mpc = "done" \/ proc # "running"

(* A job's index has reached the bound of the model.                       *)
AtBound == \E f \in Files : index[f] = IndexBound

Next ==
    \/ /\ proc = "running"
       /\ \/ MainStep
          \/ \E w \in Workers : WStep(w) \/ WTransfer(w)
          \/ TouchFreed
    \/ (Ended \/ AtBound) /\ UNCHANGED vars

Spec == Init /\ [][Next]_vars

-----------------------------------------------------------------------------
(***************************************************************************)
(* The scheduler runs every thread that can run, a step that touches a     *)
(* freed job included, and every transfer that can end does: it delivers   *)
(* its bytes, or fails and the program exits.  Nothing is assumed about    *)
(* how long a transfer, a connection or any other step takes.              *)
(***************************************************************************)
Running(A) == proc = "running" /\ A

FairSpec ==
    /\ Spec
    /\ WF_vars(Running(MainStep)) /\ WF_vars(Running(TouchFreed))
    /\ \A w \in Workers : WF_vars(Running(WStep(w))) /\ WF_vars(Running(WDownload(w)))

-----------------------------------------------------------------------------
(***************************************************************************)
(* Safety.                                                                 *)
(***************************************************************************)

MainTypeOK ==
    /\ mpc \in {"file", "await", "open", "spawn", "spawned", "hand", "check",
                "write", "sent", "stop", "done"}
    /\ i \in 0 .. NFiles
    /\ threads_created \in 0 .. Threads
    /\ current_index \in Nat
    /\ do_read \in BOOLEAN
    /\ stopped \in 0 .. Threads

SharedTypeOK ==
    /\ file_index_finished \in -1 .. NFiles - 1
    /\ pipe_from \in 0 .. PipeCapacity
    /\ pipe_to \in Seq(Files \cup {NoJob})
    /\ proc \in {"running", "exited", "undefined"}

JobTypeOK ==
    /\ job \in [Files -> {"absent", "open", "freed"}]
    /\ len \in [Files -> Nat]
    /\ index \in [Files -> Nat]
    /\ threads_visited \in [Files -> Nat]
    /\ index_lock \in [Files -> Workers \cup {Free, Main}]
    /\ written \in [Files -> SUBSET Nat]

WorkerTypeOK ==
    /\ wpc \in [Workers -> {"none", "lock", "finish", "publish", "branch",
                            "download", "cleanup", "leave", "idle", "returned"}]
    /\ variable_args \in [Workers -> Files \cup {NoJob}]
    /\ my_index \in [Workers -> Nat]
    /\ visited \in [Workers -> BOOLEAN]
    /\ seen \in [Workers -> -1 .. NFiles - 1]

(* Every variable has its type.                                            *)
TypeOK == MainTypeOK /\ SharedTypeOK /\ JobTypeOK /\ WorkerTypeOK

(* The worker has taken an index of its job and not yet acted on it.       *)
Claiming(w) == wpc[w] \in {"finish", "publish", "branch", "download"}

(* No bundle of a file is fetched by two workers, and none is fetched a    *)
(* second time after its chunks are in the file: download.c:55-57 hands    *)
(* out every index below the length once.                                  *)
BundleClaimedOnce ==
    \A w \in Workers : LET f == variable_args[w] IN
        Claiming(w) /\ my_index[w] < len[f] =>
            /\ my_index[w] \notin written[f]
            /\ \A v \in Workers \ {w} :
                  Claiming(v) /\ variable_args[v] = f => my_index[v] # my_index[w]

(* While a worker holds a bundle of a job (it publishes the end of the     *)
(* file, reads the length after the unlock, or writes chunks: download.c:  *)
(* 62-68, 81-111) no other worker has closed the output file and freed the *)
(* job under it, whatever pointers to the job are still on their way.      *)
NoWriteAfterClose ==
    \A w \in Workers : LET f == variable_args[w] IN
        \/ wpc[w] \in {"finish", "publish", "download"}
        \/ wpc[w] = "branch" /\ my_index[w] < len[f]
        => job[f] = "open"

(* The count of visitors of download.c:68 is right: whoever closes the     *)
(* file does so after the last chunk of every bundle was written.          *)
ClosedIsComplete ==
    \A f \in Files : job[f] = "freed" => written[f] = 0 .. len[f] - 1

(* The main thread holds an idle notice it has not spent on a pointer.     *)
HeldNotice == IF ~do_read \/ mpc \in {"check", "write", "stop"} THEN 1 ELSE 0

(* Every idle worker is owed exactly one pointer: its notice is in the     *)
(* pipe or in the main thread's hands (do_read, download.c:224-227,        *)
(* 297-305, 321-324), or the pointer is on its way.  No notice is lost or  *)
(* spent twice by the kept-notice protocol.                                *)
CreditsBalance ==
    Cardinality({w \in Workers : wpc[w] = "idle"})
        = pipe_from + Len(pipe_to) + HeldNotice

(* When download_files returns, every job it opened was finished, except   *)
(* one without bundles, which no worker ever gets.                         *)
DoneMeansDelivered ==
    mpc = "done" => \A f \in Files : job[f] = "open" => len[f] = 0

(* No thread ever touches a freed job.  One thread keeps this promise; two *)
(* need not, as the reads of download.c:67, 295 and 314 are unlocked.      *)
NoUndefined == proc # "undefined"

(* assert(ftruncate(...) == 0) of download.c:30: the worker that cleans up *)
(* finds the output file open.                                             *)
CleanupAssert ==
    \A w \in Workers : wpc[w] = "cleanup" => job[variable_args[w]] # "freed"

(* When download_files returns, every job it opened was finished and its   *)
(* file brought to its final size.                                         *)
AllFilesFinished ==
    mpc = "done" => \A f \in Files : job[f] # "open"

-----------------------------------------------------------------------------
(***************************************************************************)
(* Refinement, action properties and liveness.                             *)
(***************************************************************************)
Delivery == INSTANCE FileDelivery WITH
                job <- job, len <- len, written <- written

(* The pool delivers files as FileDelivery says.                           *)
DeliverySpec == Delivery!Spec

(* file_index_finished never falls back: max() of download.c:63 is to keep *)
(* the largest finished index, which the main thread waits for (line 302). *)
FinishedMonotone == [][file_index_finished' >= file_index_finished]_file_index_finished

(* download_files returns, or the program exits with an error: no thread   *)
(* waits forever for a notice, a pointer or a mutex.                       *)
Termination == <>(mpc = "done" \/ proc = "exited")

(* However fast or slow transfers and connections are, no thread waits     *)
(* forever for a notice, a pointer, a mutex or another thread's end, and   *)
(* no two threads keep each other busy: the pool comes to an end, if only  *)
(* at a job that was freed under a thread (download.c:54-78, 224-327), or  *)
(* passes a job round until the model's bound.                             *)
NeverHangs == <>(Ended \/ AtBound)

(* In the same way every opened file with bundles is finished, unless a    *)
(* failure or a freed job ends the program before.                         *)
OpenedIsFinished ==
    \A f \in Files : (job[f] = "open" /\ len[f] > 0)
                      ~> (job[f] = "freed" \/ proc # "running" \/ AtBound)

=============================================================================
