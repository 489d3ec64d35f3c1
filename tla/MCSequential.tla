---------------------------- MODULE MCSequential ----------------------------
(***************************************************************************)
(* Inputs for model checking Sequential.                                   *)
(***************************************************************************)
EXTENDS Sequential

\* Up to four chunks of three bundles; a chunk may occur more than once.
MCChunkLists == UNION {[1 .. m -> (1 .. 3) \X {0, 5}] : m \in 0 .. 4}

Valued == {"-o", "-b", "-f", "-u"}
Flags == {"-n", "--no-langs", "--verify-only", "--skip-existing", "--existing-only", "-v"}

\* Values may look like options, be missing at the end, or be invalid.
Written == {<<"-o", <<"out">>>>, <<"-o", <<"-n">>>>, <<"-b", <<"out">>>>,
            <<"-f", <<"a">>>>, <<"-f", <<"(">>>>, <<"-u", <<"a">>>>, <<"-u", <<"x*">>>>,
            <<"-t", <<"0">>>>, <<"-t", <<"4">>>>, <<"-t", <<"8">>>>, <<"-t", <<"out">>>>,
            <<"-l", <<>>>>, <<"-l", <<"EN">>>>, <<"-l", <<"de", "fr">>>>,
            <<"-l", <<"en", "de", "fr">>>>,
            <<"--print-manifest", <<>>>>, <<"--print-manifest", <<"out">>>>, <<"--other", <<>>>>}
           \cup {<<o, <<>>>> : o \in Flags}
Incomplete == {<<o, <<>>>> : o \in {"-t", "-o", "-u"}}
MCGiven == UNION {[1 .. m -> Written] : m \in 0 .. 3}
           \cup {Append(g, x) : g \in UNION {[1 .. m -> Written] : m \in 0 .. 2}, x \in Incomplete}

MCDashed == Valued \cup Flags \cup {"-t", "-l", "--print-manifest", "--other"}
MCNumber == [s \in {"0", "4", "8", "out"} |->
                IF s = "4" THEN 4 ELSE IF s = "8" THEN 8 ELSE 0]
MCLower == [s \in {"EN", "en", "de", "fr"} |-> IF s = "EN" THEN "en" ELSE s]
MCMatches == [p \in {"", "a", "(", "x*"} |->
                 IF p = "a" THEN {"a"} ELSE IF p = "(" THEN {} ELSE {"a", "b"}]
MCNonEmpty == [p \in {"", "a", "(", "x*"} |-> IF p = "a" THEN {"a"} ELSE {}]
MCFiles == [name : {"a", "b"}, languages : {{}, {"EN"}, {"en", "de"}}]

=============================================================================
