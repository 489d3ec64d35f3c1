---------------------------- MODULE CommandLine ----------------------------
(***************************************************************************)
(* main of main.c up to the call of download_files: the loop over the      *)
(* arguments and the choice of files.  given is what the user means, a     *)
(* sequence of options with their values; the program sees only argv, the  *)
(* same written in one row.  Options that are synonyms have one name here. *)
(* Regular expressions are known by the names they match.                  *)
(***************************************************************************)
EXTENDS Integers, Sequences, SequencesExt

CONSTANTS Given,     \* what users may mean: sequences of <<option, values>>
          Dashed,    \* arguments that begin with '-'
          Number,    \* what strtol makes of a value
          Lower,     \* a language in lower case
          Matches,   \* names in which a pattern matches; none if it is invalid
          NonEmpty,  \* names in which it matches something other than ""
          Files,     \* manifest->files: names and languages
          MaxLangs,  \* room for languages (64)
          IntSize    \* values of an int (2^32)

VARIABLES given, argv, arg, \* arg: index of the next argument
          pc, values, amount_of_threads, langs, flags, to_download

vars == <<given, argv, arg, pc, values, amount_of_threads, langs, flags, to_download>>
input == <<given, argv>>
options == <<values, amount_of_threads, langs, flags>>

Valued == {"-o", "-b", "-f", "-u"}
Flags == {"-n", "--no-langs", "--verify-only", "--skip-existing", "--existing-only", "-v"}

Init == /\ given \in Given
        /\ argv = FlattenSeq([g \in DOMAIN given |-> <<given[g][1]>> \o given[g][2]])
        /\ arg = 1 /\ pc = "args"
        /\ values = [o \in Valued \cup {"--print-manifest"} |-> ""]
        /\ amount_of_threads = 1 /\ langs = <<>> /\ flags = {} /\ to_download = {}

Is(o) == pc = "args" /\ arg <= Len(argv) /\ argv[arg] = o

\* Faulty: an argument that looks like an option is not taken as a value.
HasValueStrict == arg < Len(argv) /\ argv[arg + 1] \notin Dashed
\* There is a next argument; whatever it is, it is the value.
HasValue == arg < Len(argv)

Value(o) ==
    /\ Is(o) /\ HasValue
    /\ values' = [values EXCEPT ![o] = argv[arg + 1]] /\ arg' = arg + 2
    /\ UNCHANGED <<input, pc, amount_of_threads, langs, flags, to_download>>

\* The conversion of a long to an int.
ToInt(n) == ((n + IntSize \div 2) % IntSize) - IntSize \div 2
Threads(n) == ToInt(IF n > 1 THEN n ELSE 1)

SetThreads ==
    /\ Is("-t") /\ HasValue
    /\ amount_of_threads' = Threads(Number[argv[arg + 1]]) /\ arg' = arg + 2
    /\ UNCHANGED <<input, pc, values, langs, flags, to_download>>

\* The last argument is an option that needs a value: it is ignored.
NoValue ==
    /\ \E o \in Valued \cup {"-t"} : Is(o)
    /\ ~HasValue /\ arg' = arg + 1
    /\ UNCHANGED <<input, pc, options, to_download>>

StartLangs ==
    /\ Is("-l") /\ pc' = "langs" /\ arg' = arg + 1
    /\ UNCHANGED <<input, options, to_download>>

IsLang == arg <= Len(argv) /\ argv[arg] \notin Dashed

TooMany == Len(langs) = MaxLangs

AddLang ==
    /\ pc = "langs" /\ IsLang /\ ~TooMany
    /\ langs' = Append(langs, Lower[argv[arg]]) /\ arg' = arg + 1
    /\ UNCHANGED <<input, pc, values, amount_of_threads, flags, to_download>>

TooManyLangs ==
    /\ pc = "langs" /\ IsLang /\ TooMany /\ pc' = "failed"
    /\ UNCHANGED <<input, arg, options, to_download>>

EndLangs ==
    /\ pc = "langs" /\ ~IsLang /\ pc' = "args"
    /\ UNCHANGED <<input, arg, options, to_download>>

SetFlag(o) ==
    /\ Is(o) /\ flags' = flags \cup {o} /\ arg' = arg + 1
    /\ UNCHANGED <<input, pc, values, amount_of_threads, langs, to_download>>

\* --print-manifest may be followed by a path.
SetPrint ==
    /\ Is("--print-manifest") /\ flags' = flags \cup {"--print-manifest"}
    /\ IF HasValue /\ argv[arg + 1] \notin Dashed
       THEN values' = [values EXCEPT !["--print-manifest"] = argv[arg + 1]] /\ arg' = arg + 2
       ELSE arg' = arg + 1 /\ UNCHANGED values
    /\ UNCHANGED <<input, pc, amount_of_threads, langs, to_download>>

\* An argument that is none of the above is passed over.
Other ==
    /\ pc = "args" /\ arg <= Len(argv)
    /\ argv[arg] \notin Valued \cup Flags \cup {"-t", "-l", "--print-manifest"}
    /\ arg' = arg + 1
    /\ UNCHANGED <<input, pc, options, to_download>>

\* The manifest is printed and the program ends, or it cannot be had (a missing
\* or broken file, an answer of 400 or more).
PrintOrFail ==
    /\ pc = "args" /\ arg > Len(argv)
    /\ pc' \in {"failed"} \cup (IF "--print-manifest" \in flags THEN {"printed"} ELSE {})
    /\ UNCHANGED <<input, arg, options, to_download>>

HasLang(f) == \E l \in f.languages, k \in DOMAIN langs : Lower[l] = langs[k]

\* The tests on the languages of a file.
Wanted(f) == /\ "--no-langs" \in flags => f.languages = {}
             /\ langs = <<>> \/ ("-n" \in flags /\ f.languages = {}) \/ HasLang(f)

Select ==
    /\ pc = "args" /\ arg > Len(argv) /\ "--print-manifest" \notin flags
    /\ to_download' = {f \in Files : /\ f.name \in Matches[values["-f"]]
                                     /\ f.name \notin NonEmpty[values["-u"]]
                                     /\ Wanted(f)}
    /\ pc' = "download"
    /\ UNCHANGED <<input, arg, options>>

Final == {"failed", "printed", "download"}
Ended == pc \in Final /\ UNCHANGED vars

Next == \/ \E o \in Valued : Value(o)
        \/ \E o \in Flags : SetFlag(o)
        \/ SetThreads \/ NoValue \/ StartLangs \/ AddLang \/ TooManyLangs \/ EndLangs
        \/ SetPrint \/ Other \/ PrintOrFail \/ Select \/ Ended

Spec == Init /\ [][Next]_vars

-----------------------------------------------------------------------------
\* What the user means: the value of the last group of an option, "" if there
\* is none, and the languages of all groups.
Groups(o) == {g \in DOMAIN given : given[g][1] = o}
Meant(o) == LET valued == {g \in Groups(o) : given[g][2] # <<>>} IN
            IF valued = {} THEN "" ELSE given[CHOOSE g \in valued : \A h \in valued : h <= g][2][1]
MeantLangs == FlattenSeq([g \in DOMAIN given |-> IF given[g][1] = "-l" THEN given[g][2] ELSE <<>>])

\* The languages fit their array of MaxLangs and an end mark, and a command line
\* with no more than that is not refused (main.c:110, 146-151 and 174).
LangsFit ==
    /\ Len(langs) <= MaxLangs
    /\ pc = "failed" /\ arg <= Len(argv) => Len(MeantLangs) > MaxLangs

\* There is a thread to download with, for every number that an int can hold,
\* zero, negative numbers and words included (main.c:121).
SomeThread ==
    (\A g \in Groups("-t") : given[g][2] # <<>> => Number[given[g][2][1]] < IntSize \div 2)
        => amount_of_threads >= 1

\* The options are those the user has written, also where a value looks like an
\* option and where lists of languages have no end mark; nothing is written behind
\* the array of languages, and there is a thread (main.c:117-174).
OptionsMeant ==
    /\ LangsFit /\ SomeThread
    /\ pc \in {"printed", "download"} =>
        /\ \A o \in DOMAIN values : values[o] = Meant(o)
        /\ langs = [l \in DOMAIN MeantLangs |-> Lower[MeantLangs[l]]]
        /\ flags = {o \in Flags \cup {"--print-manifest"} : Groups(o) # {}}
=============================================================================
