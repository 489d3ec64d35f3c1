----------------------------- MODULE Sequential -----------------------------
(***************************************************************************)
(* The sequential algorithms of the program, which share no state with its *)
(* threads: search and insertion of list.h (SortedList), its merge sort,   *)
(* group_by_bundles, the command line and the streaming of SHA-256.  A     *)
(* behaviour is a behaviour of one of them.  The variables of the others   *)
(* are then unused; the list of SortedList is a new one on which nobody    *)
(* calls an operation.                                                     *)
(***************************************************************************)
EXTENDS SortedList

VARIABLES algorithm,
          input, list, temp, width, parity, left, right, k, done, \* MergeSort
          i,                                                      \* and GroupByBundles
          chunks, unique_bundles,
          given, argv, arg, main_pc, values, amount_of_threads,   \* CommandLine
          langs, flags, to_download,
          total, buffer, compressed, message, ended               \* Sha256

sort == <<input, list, temp, width, parity, left, right, k, done>>
group == <<chunks, unique_bundles>>
cli == <<given, argv, arg, main_pc, values, amount_of_threads, langs, flags, to_download>>
sha == <<total, buffer, compressed, message, ended>>
allVars == <<vars, algorithm, sort, i, group, cli, sha>>

-----------------------------------------------------------------------------
CONSTANTS SortLength \* bound on the length of the lists that are sorted

Sort == INSTANCE MergeSort WITH MaxLength <- SortLength

-----------------------------------------------------------------------------
CONSTANTS ChunkLists

ASSUME ChunksAssumption == ChunkLists \subseteq Seq(Int \X Int)

Group == INSTANCE GroupByBundles

-----------------------------------------------------------------------------
CONSTANTS Given, Dashed, Number, Lower, Matches, NonEmpty, Files, MaxLangs, IntSize

Cli == INSTANCE CommandLine WITH pc <- main_pc

\* Every command line can be read in this way: an option that takes a value is
\* without one only at the end, the languages and the path behind --print-manifest
\* do not begin with '-', and what follows them, if anything, does.
WellWritten(words, last) ==
    LET option == words[1]
        valued == Cli!Valued \cup {"-t"}
    IN  /\ option \in valued => Len(words[2]) = 1 \/ (words[2] = <<>> /\ last)
        /\ option = "-t" /\ words[2] # <<>> => Number[words[2][1]] \in Int
        /\ option = "-l" => \A w \in 1 .. Len(words[2]) : words[2][w] \notin Dashed
        /\ option = "--print-manifest" =>
              words[2] = <<>> \/ (Len(words[2]) = 1 /\ words[2][1] \notin Dashed)
        /\ option \notin valued \cup {"-l", "--print-manifest"} => words[2] = <<>>
Open(words) == words[1] = "-l" \/ (words[1] = "--print-manifest" /\ words[2] = <<>>)

ASSUME GivenAssumption ==
    /\ Given \subseteq Seq(STRING \X Seq(STRING))
    /\ \A v \in Given : \A g \in 1 .. Len(v) :
          /\ WellWritten(v[g], g = Len(v))
          /\ g > 1 /\ Open(v[g - 1]) => v[g][1] \in Dashed

ASSUME IntAssumption == MaxLangs \in Nat /\ IntSize \in Nat /\ IntSize > 3

-----------------------------------------------------------------------------
CONSTANTS Block, Word, MaxMessage, MaxPiece

ASSUME ShaAssumption ==
    /\ Block \in Nat /\ Block > 2
    /\ Word \in Nat \ {0} /\ Word % 8 = 0 /\ Word % Block = 0
    /\ MaxMessage \in Nat /\ MaxPiece \in 0 .. Word - 1

Sha == INSTANCE Sha256

-----------------------------------------------------------------------------
Unused == "unused"
UnusedSort ==
    /\ input = Unused /\ list = Unused /\ temp = Unused /\ width = Unused
    /\ parity = Unused /\ left = Unused /\ right = Unused /\ k = Unused
    /\ done = Unused
UnusedGroup ==
    /\ chunks = Unused /\ unique_bundles = Unused
UnusedCli ==
    /\ given = Unused /\ argv = Unused /\ arg = Unused /\ main_pc = Unused
    /\ values = Unused /\ amount_of_threads = Unused /\ langs = Unused /\ flags = Unused
    /\ to_download = Unused
UnusedSha ==
    /\ total = Unused /\ buffer = Unused /\ compressed = Unused /\ message = Unused
    /\ ended = Unused

UnusedList == Init /\ value = CHOOSE key \in Key : TRUE

AnyInit ==
    \/ algorithm = "list" /\ Init /\ UnusedSort /\ UnusedGroup /\ UnusedCli /\ UnusedSha /\ i = Unused
    \/ algorithm = "sort" /\ Sort!Init /\ UnusedList /\ UnusedGroup /\ UnusedCli /\ UnusedSha
    \/ algorithm = "group" /\ Group!Init /\ UnusedList /\ UnusedSort /\ UnusedCli /\ UnusedSha
    \/ algorithm = "cli" /\ Cli!Init /\ UnusedList /\ UnusedSort /\ UnusedGroup /\ UnusedSha /\ i = Unused
    \/ algorithm = "sha" /\ Sha!Init /\ UnusedList /\ UnusedSort /\ UnusedGroup /\ UnusedCli /\ i = Unused

AnyNext ==
    \/ algorithm = "list" /\ Next /\ UNCHANGED <<algorithm, sort, i, group, cli, sha>>
    \/ algorithm = "sort" /\ Sort!Next /\ UNCHANGED <<vars, algorithm, group, cli, sha>>
    \/ algorithm = "group" /\ Group!Next /\ UNCHANGED <<vars, algorithm, sort, cli, sha>>
    \/ algorithm = "cli" /\ Cli!Next /\ UNCHANGED <<vars, algorithm, sort, i, group, sha>>
    \/ algorithm = "sha" /\ Sha!Next /\ UNCHANGED <<vars, algorithm, sort, i, group, cli>>

\* An operation on a list that was begun goes on, as in Spec.
AnySpec == AnyInit /\ [][AnyNext]_allVars /\ WF_vars(Work)

-----------------------------------------------------------------------------
\* sort_list leaves every object of its input once, in the order of the keys
\* and, among equal keys, in the order of the input (list.h:101-138).
StablySorted == algorithm = "sort" => Sort!StablySorted

\* group_by_bundles puts every chunk once into the one list of its bundle, in
\* the order of the places in the bundle (rman.c:99-117).
Grouped == algorithm = "group" => Group!Grouped

\* The options are those the user has written; the languages fit their array,
\* and there is a thread to download with (main.c:117-174).
OptionsMeant == algorithm = "cli" => Cli!OptionsMeant

\* sha256_end compresses exactly the padded message of the standard, however
\* the message was cut (sha256.c:212-285).
Digested == algorithm = "sha" => Sha!Digested
=============================================================================
