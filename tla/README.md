# A TLA+ model of ManifestDownloader

ManifestDownloader reads a manifest (a list of files, each a sequence of
compressed chunks that are stored in bundles on a server or on disk), chooses
files by name and language, verifies what is already in the output directory
and downloads the rest with several threads. This directory holds TLA+ modules
that model it, TLC configurations that check them and TLAPS proofs. Line
numbers refer to the files of the repository.

## The system

| part | code | state | operations |
| --- | --- | --- | --- |
| command line and filter | `main.c` | options, list of files | parse arguments, load the manifest, match names and languages, call `download_files` |
| manifest parser | `rman.c:154-357` | `Manifest` | FlatBuffer tables to bundles, chunks, languages, files |
| sorted lists | `list.h`, `rman.c:99-117` | arrays ordered by a key | search, insert, merge sort, `group_by_bundles` |
| output files | `download.c:144-258`, `26-31`, `rman.c:79-97` | files on disk, stdio buffers | look up, verify, truncate, create or reopen, write chunks, bring to final size |
| download pool | `download.c:26-339` | jobs, mutexes, pipes, threads | open a job, start threads, hand jobs to idle threads, fetch bundles, clean up, stop and join |
| range requests | `socket_utils.c:306-406` | request buffer, fetched chunks | group chunks into ranges, split into requests, cut answers into chunks |
| HTTP client | `socket_utils.c:27-285` | connection, buffers | connect, send, receive header and body (length, chunked, until close), reconnect |
| local bundles | `socket_utils.c:287-304` | an open bundle file | read chunks from a bundle file |
| hashing | `sha/`, `rman.c:17-77` | hash contexts | SHA-256, HKDF, BLAKE3 of a chunk |
| manifest printer, utilities | `main.c:20-61`, `general_utils.c` | - | JSON output, paths, case, hex |

How they interact. `main` runs the parser and the filter and calls
`download_files`, which is the main thread of the pool. For every file it goes
through the output-file logic; if data is missing it opens the file, groups the
needed chunks into bundles (`group_by_bundles`) and makes a *job*: the list of
bundles, a shared index, a count of visitors and a mutex. As long as fewer
than `amount_of_threads` workers exist it starts one per bundle; afterwards it
waits for a byte in `pipe_from_downloader` (a worker is idle) and writes a
pointer to the job into `pipe_to_downloader`. A worker takes indices of its job
under the mutex, fetches the bundle (range requests over HTTP, or the local
file), decompresses the chunks and writes each at its offset. Past the last
bundle it decides from its index and the count of visitors whether it is the
last one, in which case it brings the file to its final size and frees the
job; then it reports idle and reads the next pointer. A NULL pointer ends it.

What is hard: the jobs have no reference count, only the arithmetic on index
and visitors; several fields are read after the mutex is released, also by the
main thread; `file_index_finished` is shared by all jobs but protected by the
mutex of one; idle notices are kept across files in `do_read`; on Windows a
pipe holds one message; a killed run leaves files that the next run judges by
their size (`--skip-existing`) or their hashes; writes that fail are not
noticed; the request buffer has a fixed size; answers are cut by searching
binary data; the lists are searched by steps that halve and may end on either
side of the key; a path is put together in a buffer of fixed size from
directories that need not end in a root. `PROJECT.json` lists these
hazards with their lines and the properties that cover them.

What makes the parts correct:

* pool: every bundle is fetched once, a file is closed when and only when it is
  complete, no thread touches a freed job, no notice is lost, the pool ends;
* output files: the final size implies completeness, reports are true, good
  bytes survive, the options are honoured, repeated runs converge;
* range requests: every chunk gets its own bytes, the request fits its buffer;
* HTTP client: the body received is the body sent, however it is fragmented,
  and the connection is left at the end of a message;
* lists: search finds a key iff it is there, insertion and sort keep the order;
* parser: offsets and names are those of the manifest;
* command line: the options are those the user wrote.

## Modules

`FileDelivery` is the abstract specification of the pool: files are opened,
bundles are delivered into open files at most once, a file is closed when all
its bundles were delivered.

`DownloadPool` models `download_files` (actions `Main...`, program counter
`mpc`) and `download_and_write_bundle` (actions `W...`, program counters
`wpc`), one action per step another thread can interleave with. Variables have
the names of the source; `job`, `len`, `index`, `threads_visited`, `index_lock`
are the members of `struct variable_bundle_args`, one instance per file;
`written` is what has been stored in the output file. The decision whether a
file needs data is a free choice (`MainSkipFile`, `MainNeedsFile`,
`MainTruncateFile`), the number of bundles too. `max()` at line 63 is two
steps, a read and a write. The reads at lines 67-68, 295 and 314 happen without
the mutex: if the job has been freed by then the behaviour is undefined, and
`TouchFreed` ends the behaviour with `proc = "undefined"`. Any
`exit(EXIT_FAILURE)` ends it with `proc = "exited"`. A transfer with its
decompression and writes is one step (`WDownload`), or fails (`WFail`).

`OutputFile` models one output file over any number of runs: `Start` with a set
of options, the lookup, the verification, `truncate`, `fopen` with `"wb"` or
`"rb+"`, the growth to one byte more than the final size, chunk writes in any
order, the three steps of the cleanup, a failing transfer (`exit` flushes
stdio), a kill at any point (the buffer is lost, or a part of it), and writes
that fail without being noticed (`WriteFails`, `WriteChunkFails`,
`CleanupFlushFails`; the variable `failed` remembers that one did). It is
the view of a single job of the pool: that the cleanup comes after the last
write is what `ClosedIsComplete` of `DownloadPool` says.

`RangeRequest` models `download_ranges` and `response_to_ranges` for one
bundle: the map of chunks to ranges, the requests with the length of their
text, an honest server that answers with the whole bundle, with the ranges, or
not at all, the walk over a multipart body, and the assertion that it has seen
every chunk asked for (`Handled`); and `get_ranges` for a bundle
on disk (`OpenBundle`, `ReadChunk`, `CloseBundle`), which may be missing or too
short. `MCRangeRequest` supplies bundles.

`HttpReceive` models `receive_http_body`: writing the request, with
reconnection; the loop that receives the header; and the three kinds of body.
The answer is a sequence of bytes, and every `recv` returns any number of them
from one to what it was asked for. Of a chunked body the two buffers and the
pointer `start_of_chunk` are modelled as they are, with the bytes that
`strcpy` and `recv` leave standing behind what they write. Where the parser
would take a size from such bytes, or pass a negative count to `memcpy` or
`recv_all`, the behaviour ends with `pc = "astray"`. `ragged` is a history
variable: it becomes true when a `recv` ends between the carriage return and
the line feed behind a chunk, or returns less than it was asked for into
`chunk_size_buffer` although more is to come. `MCHttpReceive` builds answers.
In `RangeRequest` a whole exchange is one step; `BodyRight` is what justifies
that the body there is the one sent.

`Collection` is the abstract specification of an ordered list: a bag of keys,
to which one can be added and which can be asked whether it has a key.
`SortedList` models `find_object_s` and `add_object_s` and implements it: the
halving steps (`pc = "approach"`), the walk down and the walk up are one action
per round of their loops, and the growth of the array is part of an insertion.
`MergeSort` models `sort_list` with its two arrays, of which the odd passes
read one and the even passes the other; one action stores one object.
`GroupByBundles` models `group_by_bundles` on top of what `SortedList` shows of
the two list operations.

`ManifestParse` models `parse_manifest_data` and `parse_body` from the tables
of a manifest on: chunks get their offset in the bundle; an entry's languages
are looked up, its path is built from its directories, upwards, through
`temp_name` and `backup_name`, and its chunks are looked up one by one, marked
and copied. The assertions end it with `pc = "aborted"`, a pointer that is NULL
(a language or a chunk that the manifest does not have) with `"crashed"`, and a
path that does not fit the buffers with `"overrun"`. `MCManifestParse` supplies
manifests.

`CommandLine` models the loop over the arguments of `main` and the choice of
files. What the user means (`given`) is a sequence of options with their
values; the program sees it as one row of arguments. `Select`, the choice, is the
tests of lines 225-238 and has no property of its own, which could only repeat
them.

`Sha256` models `sha256_update` and `sha256_end`: the buffer, the two words of
`total`, the cutting into blocks and the padding. Instead of the state of the
compression function it keeps the bytes that function was given.

`Sequential` puts `SortedList`, `MergeSort`, `GroupByBundles`, `CommandLine`
and `Sha256` side by side: none of them shares state with another or with the
threads, so a behaviour is one of one of them, chosen by the initial state, and
the variables of the others are unused. `MCSequential` supplies the lists of
chunks, the command lines and the files.

`DownloadPoolProofs`, `OutputFileProofs`, `RangeRequestProofs`,
`HttpReceiveProofs`, `SortedListProofs`, `SequentialProofs` and
`ManifestParseProofs` hold the proofs; `Induction` holds the lemmas on numbers
and texts that several of them use. Definitions whose comment begins with
"Faulty" are variants of the definition that follows them with a plausible bug;
substituting them shows that the properties notice it.

## Runs

| run | instance | checks |
| --- | --- | --- |
| `pool_safety` | 3 threads, 2 files of 0-3 bundles | types, `BundleClaimedOnce`, `NoWriteAfterClose`, `ClosedIsComplete`, `CreditsBalance`, `DoneMeansDelivered`, refinement of `FileDelivery` |
| `pool_progress` | 2 threads, 3 files of 0-3 bundles, fair | `NeverHangs`, `OpenedIsFinished` |
| `pool_serial` | 1 thread (the default), 3 files of 0-3 bundles, fair | `NoUndefined`, `Termination` |
| `pool_finished` | 2 threads, 2 files of 1-2 bundles | `FinishedMonotone` is violated |
| `pool_cleanup` | 2 threads, 2 files of 2 bundles | `CleanupAssert` is violated |
| `pool_empty` | 1 thread, files of 0 or 1 bundles | `AllFilesFinished` is violated |
| `file_runs` | 0-3 chunks, all sets of options, 2 mishaps (kill, failed transfer, failed write), fair | `SizeImpliesComplete`, `OutcomeTruthful`, `GoodBytesKept`, `OptionsHonoured`, `Converges` |
| `range_fetch` | lists of 1-4 chunks of two bundles, any bytes, from a server or from disk | `HeaderFits`, `FetchedRight`, `RequestExact`, `NothingTwice` |
| `http_receive` | all kinds of body up to 20 bytes, up to 3 chunks, any cuts, TLS or not, 2 losses, fair | `BodyRight`, `InSync`, `FramingKept` (with the types), `ReceivedIsKept`, `RoomToReceive`, `Returns` |
| `http_final` | one chunk, any cuts | `FinalReceived` is violated |
| `manifest_parse` | 3 tables of bundles, 6 of directories, up to 2 files, fair | `Tiles`, `Located`, `PathRight`, `FaultOnlyOfEntry`, `Ends` |
| `sequential` | lists: up to 26 keys out of 3, any searches and insertions, fair | `Sorted`, `InBounds`, refinement of `Collection`, `Returns` |
| | merge sort: all lists of up to 7 objects with 3 keys | `StablySorted` |
| | grouping: all lists of up to 4 chunks of 3 bundles | `Grouped` |
| | command line: all with up to 3 options | `OptionsMeant` |
| | SHA-256: messages of up to 28 bytes in pieces of up to 15, blocks of 8 | `Digested` |

The types of `OutputFile`, `RangeRequest` and `SortedList`, and `FindRight`, are
proved and have no run of their own: the last is part of what the refinement of
`Collection` says. `FinishedMonotone` is proved for one thread, the only number
for which it holds.

Bounds. Three threads are the smallest number at which two workers can finish
two different jobs while the main thread hands out; two or three files make a
notice be kept from one file to the next; three bundles give a job more bundles
than threads at two threads, as many at three. `PipeCapacity = 1` is the pipe of
Windows; it is the capacity at which writers block soonest. `IndexBound` cuts
off behaviours in which a job is handed out again and again (see below): a
behaviour at the bound may stop, and `NeverHangs` and `OpenedIsFinished` say
nothing of what follows. Each thread takes at most one index past the end of a
job unless an update of `file_index_finished` was lost: five indices for two
threads and three bundles, so the bound of 7 is reached only in a job that is
passed round. With one thread the bound is not reached, or `Termination`, which
has no exception for it, would be violated. In `OutputFile` three chunks suffice
for one on disk, one in the buffer and one to come; mishaps bound only the
number of killed or failed runs, not of runs. In `RangeRequest` the buffers are
scaled down (16 and 5 for 8000 and 23) so that one, two or three ranges fill a
request; bytes that look like the end of a header may stand anywhere. In
`HttpReceive` the buffers hold 8 bytes (for 8192 and 31): chunks of 1 to 6 bytes
fit with their frame, end one or two bytes beyond the end of the buffer, or
share it with other chunks; 20 bytes make the buffer of a body without a length
grow twice. In `SortedList` 26 keys take the array past its growth from 16 to 24
and from 24 to 36; three keys put runs of equal keys at the beginning, the
middle and the end. Seven objects are sorted in three passes, with a last run
that is shorter or missing. In `ManifestParse` the buffer for a path is scaled
down to 6 bytes so that paths of one to four names just fit or do not; the
tables repeat a chunk in a bundle's neighbour, in a file and between files, list
parents before and behind their children, and have a directory that is its own
ancestor. In `CommandLine` there is room for 4 languages (for 64), and an `int`
has 16 values. In `Sha256` a block has 8 bytes with 2 for the length (64 and 8)
and a word 16 values (2^32): the padding takes one block or two, and the low
word overflows into the high one.

Chunked bodies. `InSync` is claimed for them only while `ragged` is false, and
`FramingKept` says that the reader goes astray only if it is true: TLC finds two
ways to do so. `BodyRight` has no such condition; whatever is returned without
going astray is right. A piece that ends between the CR and the LF behind a
chunk makes `already_received` one larger than `chunk_size`, and `chunk_size -
already_received` at line 242 negative; the buffer of 31 bytes alone suffices
for this if a chunk has 26 bytes ("1a", CR, LF, 26 bytes, CR). And a short piece
received into `chunk_size_buffer` is followed by bytes of an earlier, longer
one, in which `strstr` finds a CRLF. The repository makes no statement about
either, so they are recorded here and as hazards. Bodies with a length, which is
what a server of bundles normally sends, are not concerned.

Timing. No run and no theorem assumes anything about how long a transfer, a
connection or any other step of the pool takes: workers fetch while the main
thread waits in `open_connection_s` (line 265), bundles on disk are read at
once. With two threads or more there are then states in which a freed job is
touched (`proc = "undefined"`). `threads_visited` knows only the workers that
have arrived, so a worker that holds a handle and has not run yet is not waited
for (the finding of `pool_cleanup`); the main thread reads the length of a job
whose workers may be done with it (lines 295 and 314). So the claims are
divided:

* whatever the timing and the number of threads, up to such a state: the
  properties of `pool_safety`. A worker that finds its job freed has no bundle
  of it (`NoWriteAfterClose`): no chunk is written into a closed file;
* for one thread: nothing freed is ever touched (`NoUndefined`), and the pool
  ends (`Termination`);
* for two threads: undefined behaviour and failures apart, nobody waits for
  ever (`NeverHangs`) and every opened file is finished (`OpenedIsFinished`).
  A finished job may be passed round, as the next paragraph says.

`file_index_finished`. Each job has its own mutex, so of two workers that take
the last bundles of two jobs the one that computed the smaller maximum can
write it last. `pool_finished` finds this with two threads and jobs of one
bundle. When the number that is lost is that of the job the main thread is
handing out, the test at line 302 stays false, and the main thread gives the
finished job to every worker that reports idle; each takes an index past the
end and reports idle again. It ends when the last transfer of the job does: the
job is freed then, and whoever is handed it next finds that.

Fairness. `DownloadPool`: the operating system runs every thread that can run
(`WF` of each thread's steps), and a transfer that can end does, with its data
or with a failure; the latter is an assumption on the network, as the code sets
no time limit. A thread that is about to touch a freed job does so.
`OutputFile`: a running program runs on; the user starts it again. `SortedList`
and `ManifestParse`: a single thread runs on. `HttpReceive`: the thread runs on,
and what the server has sent arrives or the connection is lost; a bounded number
of losses stands for a network that works in the end, without which the retries
at lines 185, 193 and 275 do not end.

Four runs record disagreements with what the repository says of the program:
`pool_cleanup` with the assertion at `download.c:30`, `pool_finished` with the
`max()` at `download.c:63`, `pool_empty` with README.md:5 (a new file without
chunks is left at one byte; `file_runs` shows that a second run repairs it), and
`http_final` with the comments at `socket_utils.c:252-253` (the last CRLF of a
chunked body). One is recorded only here: the help text says "Download only
files whose full name does not match" the unfilter (`main.c:71`), but line 229
matches it with `PCRE2_NOTEMPTY`, so a pattern that matches with no characters
only, as `-u "x*"` may, excludes nothing (`NonEmpty` in `CommandLine`).

## Proofs

All theorems hold for every value of the constants allowed by the assumptions
in the component modules:

* `DownloadPool`: at least one thread, pipes that hold at least one message,
  any set of bundle counts;
* `RangeRequest`: bundles whose chunks follow one another, as `rman.c:178`
  computes them, a request prefix that leaves room for one range, and range
  texts that fit `current_range`;
* `HttpReceive`: a header that fits its buffer; a body that stands behind the
  header as it is, or is framed in chunks, each with its size in one digit of
  any value, CRLF, its bytes and CRLF, up to one without bytes
  (`FramingAssumption`); a buffer for the size that holds at least one line and
  is no longer than the buffer for the header (31 and 8192);
* `SortedList`: integer keys and an array that begins with room for two objects
  at least, as one with room for one would never grow;
* `ManifestParse`: tables whose numbers are natural numbers, a path buffer of
  any size;
* `Sequential`: lists of chunks of integer bundles and offsets; SHA-256 blocks
  of more than two bytes, words whose range is a multiple of eight and of the
  block, pieces shorter than that range (`ShaAssumption`: 64, 2^32); room for
  any number of languages and an `int` of more than three values
  (`IntAssumption`); and command lines grouped as every one can be
  (`GivenAssumption`): an option that takes a value lacks it only at the end, no
  language and no path behind `--print-manifest` begins with a dash, and what
  follows a list of languages, or a `--print-manifest` without a path, does.
  Without the last two a word could belong to two groups.

What they prove, by module:

* `DownloadPoolProofs`: `TypeCorrect`, `ClosedIsCompleteAlways`,
  `BundleClaimedOnceAlways`, `NoWriteAfterCloseAlways`, `DeliveryRefined`,
  `CreditsBalanceAlways`, `DoneMeansDeliveredAlways`, and for one thread
  `NoUndefinedSerial` and `FinishedMonotoneSerial`. `ClosedIsComplete` is not
  inductive: it needs to know why a worker with index `length + threads_visited
  - 1` is alone. Call a worker *inside* a job while it has an index below the
  length. `Counting` says that visitors not inside are as many as indices taken
  past the end; hence such a worker proves that nobody is inside. `Covered` says
  that every index taken is written or with a worker inside; hence everything is
  written. `Place`, `Distinct`, `Fresh` and `Bounded` tie each worker's index to
  its program counter and keep indices apart; `Control`, `JobsOpened` and
  `Handles` say which jobs can be referred to at all. The refinement maps every
  variable of `FileDelivery` to the variable of the same name. `CreditsBalance`
  is proved over the number of idle workers. `DoneMeansDelivered` needs to know
  who will still finish an open job: a worker has been there if the job says so
  (`Counted`); if none has, a pointer to it is under way or held out
  (`Awaited`); if all of them have left, the one with the last index is about to
  clean up (`LastOne`); and when the main thread is done all workers have
  returned (`AllReturned`). The two theorems for one thread assume `Threads =
  1`, the program's default, and nothing about the timing: there is one handle
  to each job, which is with the main thread, then in the pipe, then with the
  worker that frees the job (`OneHandle`), and nobody else writes
  `file_index_finished` between the read and the write of `max()`
  (`SeenCurrent`). With two threads both fail for some timing (`pool_cleanup`,
  `pool_finished`).
* `OutputFileProofs`: `TypeCorrect`, `SizeImpliesCompleteAlways`,
  `OutcomeTruthfulAlways`, `GoodBytesKeptAlways`, `OptionsHonouredAlways`. The
  invariant adds that each chunk is on disk, in the buffer or still to be
  written (`Progress`), what each program counter implies for the file (`Disk`),
  and which options allow it (`Permitted`). After a write that failed the first
  two say nothing until the file is opened anew; that a file reported as correct
  or cut to size is so holds even then.
* `RangeRequestProofs`: `HeaderFitsAlways`, `TypeCorrect`, `RequestExactAlways`,
  `NothingTwiceAlways`, `FetchedRightAlways`. A request to which ranges are
  added leaves room for one more (`Room`). Chunks lie one behind the other
  (`Placed`) and are cut into ranges where there is a gap (`Cut`, a function
  from ranges to first chunks whose existence is the invariant), so a range asks
  for its chunks and nothing between them. `Shape` says where each range begins
  in the body of an answer; the walk of `response_to_ranges` arrives there by
  induction over the chunks, whatever the bytes between are, and every chunk
  before `first_chunk` has its bytes (`Fetched`). The walk counts at least the
  chunks of the request (`AnswerCounted`), so the assertion at line 399 holds;
  what was fetched lies before the next chunk to be fetched, because a request
  ends only where there is a gap (`Behind`).
* `HttpReceiveProofs`: `BodyRightAlways`, `FramingKeptAlways`, `InSyncAlways`,
  `RoomToReceiveAlways`. For a body that is not chunked the invariant says that
  what was received is a prefix of the answer, held first in the header buffer
  and then in the body (`Prefix`), that the buffer is never full at a `recv`
  (`Space`), and which kind of body belongs to which program counter
  (`Branches`). For a chunked one it says that at each round of the loop the
  text at `start_of_chunk` begins with the bytes received from the beginning of
  some chunk on, that the bytes of the chunks before it are the body so far,
  and, unless `ragged`, that a NUL follows or nothing is left to receive and
  that the last byte is not the CR behind a chunk (`AtFrame`). The lemmas below
  it are about C strings: where they end, and where their first line does.
* `SortedListProofs`: `TypeCorrect`, `SortedAlways`, `InBoundsAlways`,
  `FindRightAlways`, `CollectionImplemented`. That the halving steps stay in the
  array needs `2 * step <= position` and its counterpart above (`Reach`); that
  the walk up ends at the right place needs that everything below is not larger
  than the key (`Below`). The bag of `Collection` is the number of occurrences
  of each key in the array.
* `SequentialProofs`: `StablySortedAlways`, `GroupedAlways`, `DigestedAlways`,
  `OptionsAlwaysMeant`. The objects of the sort are pairs of key and index, so
  that being stable is being sorted (`Before`). Between passes the array
  consists of sorted runs, each with the objects that stood there in the input
  (`Run`); within a merge the target is sorted, holds what was taken of the two
  runs, and nothing that is left comes before it (`Merging`). `group_by_bundles`
  keeps every chunk seen so far in the one group of its bundle, in order
  (`GroupInv`, `Good`); that the insertion finds its place rests on the lists'
  order. Of SHA-256 the invariant (`ShaInv`, `Digesting`) says that what was
  compressed is the whole blocks of the message so far, that the rest of it
  stands at the begin of the buffer, and that the two words of `total` count its
  bytes. A piece finds the buffer empty, leaves it unfilled, or completes it
  (`UpdateAligned`, `UpdateBegun`, `UpdateCompletes`); only the second leaves
  nothing to compress. At the end, one number of zeros fills up the last block
  (`PaddingFits`), and the count of bytes in two words, times eight, is the
  length in bits modulo the square of the range (`BitLength`). Of the command
  line the invariant (`CliInv`) says that the position in `argv` is the one
  behind the groups read so far, or within a list of languages (`AtGroup`,
  `InLangs`), and that the values, the flags and the languages are those of
  these groups (`ValueIn`, `FlagsIn`, `Lowered`). What stands behind a group is
  the name of the next option (`BehindGroup`), so that a value is never taken
  for an option, nor an option for a language.
* `ManifestParseProofs`: `TilesAlways`, `PathRightAlways`, `LocatedAlways`,
  `FaultOnlyOfEntryAlways`. `TileInv` says that `file_offset` is the end of the
  last chunk taken; `PathInv` that `temp_name` is a chain of directories that
  begins below the directory to be looked up next. `LocatedInv` says that each
  chunk stands in its bundle behind the sum of the sizes before it (`Stands`),
  also while it is marked and copied. `FaultInv` says that the path so far is
  the end of that of *every* chain of the entry (`OnTheWay`), so a path that
  outgrows the buffer, or a directory without a parent, is the entry's fault,
  and that every chunk of a bundle can be found (`Offered`). The program
  searches the directories from the first on: of two with one id the chain has
  the first (`FirstOf`).

Induction over data. The library's induction theorems take the property as an
operator, which the provers cannot instantiate. `Induction` states them over the
set of the numbers that have the property (`SetInduction`, `InductionFrom`),
from the well-foundedness of `<`; a recursive function is then handled through a
witness that satisfies its equation (`Walked`, `Summed`, `Lengths`), which is
shown to exist and to be unique. The concatenation of the groups of a command
line (`FlattenSeq`, a fold of the community modules) is handled the same way:
`Joined` says what a sequence of partial concatenations is, and `Flattened` that
its last one is the fold.

Only model-checked: liveness (`Termination`, `NeverHangs`, `OpenedIsFinished`,
`Converges`, `Returns`, `Ends`), which is out of the prover's reach, and
`ReceivedIsKept`. The other invariants that a passing run checks are theorems,
for all constants allowed by the assumptions or, for `NoUndefined`, for one
thread.

## Not modelled

Output files: power failure, files changed by others during a run, two list
entries with the same path, and the creation of directories (`create_dirs`
calls `mkdir` for every prefix of a path and its result is not looked at; a
directory that is missing afterwards ends the program at the assertion on
`fopen`, which is the `Kill` of `OutputFile`). A chunk is right or wrong as a
whole; zeros that happen to be the right bytes of a chunk are not considered.

HTTP client: the choice of an address (`open_connection_s`), the splitting of
an URL (`get_host_port`), the request of `download_url` (its answer is one of
those of `HttpReceive`), the text of requests, TLS. A server that sends
something other than it was asked for is not modelled, nor an answer whose
header does not fit into 8192 bytes: without TLS such a header is a `recv` of no
bytes and ends in NULL, with TLS it depends on the library. A blocking `send`
takes the whole request.

Range requests: numbers are natural; the wrap of a 32-bit `bundle_offset`
(`rman.h:46`) in a bundle of 4 GiB or more is not modelled.

Manifest: the layout of the FlatBuffer, which is taken to be well-formed, and a
file shorter than its header. The printer writes JSON, formatted output without
state.

Command line: the exits for a missing argument and for `--help`, the start of
Winsock, numbers `strtol` cannot represent. A regular expression is known by
the names it matches, and by those in which it matches something other than the
empty string, as an unfilter needs.

Hashing: the compression function of SHA-256 (bit-level arithmetic in two
versions), the pads of HKDF, BLAKE3. Vendored code (`pcre2`, `zstd`, `BearSSL`,
`BLAKE3`) is third-party and makes up almost all of the lines of the
repository. `remove_object` of `list.h` and the hex conversions are not used by
the program.

A composition of `DownloadPool` and `OutputFile` is not built: the files of a
run share no state but the counters of the pool, and the two facts about a job
that `OutputFile` relies on (writes only into an open file, cleanup behind the
last write) are `NoWriteAfterClose` and `ClosedIsComplete`, which are proved.

## Plan

The components in scope are modelled, and what the passing runs check of them is
proved but for liveness and `ReceivedIsKept`, for which the invariant of
`HttpReceiveProofs` would have to say what is left to receive in every state of
a chunked body, `ragged` ones included.
