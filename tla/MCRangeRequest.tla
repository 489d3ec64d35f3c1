--------------------------- MODULE MCRangeRequest ---------------------------
(***************************************************************************)
(* Bundles for model checking RangeRequest: a file may need neighbouring   *)
(* chunks, chunks with a hole between them, and the same chunk twice; with *)
(* five chunks a request can consist of three ranges.                      *)
(***************************************************************************)
EXTENDS RangeRequest

(* The bundle of chunks with these compressed sizes.                       *)
Layout(sizes) ==
    LET start[k \in 1 .. Len(sizes)] == IF k = 1 THEN 0 ELSE start[k - 1] + sizes[k - 1]
    IN  [k \in 1 .. Len(sizes) |-> [bundle_offset |-> start[k], compressed_size |-> sizes[k]]]

MCBundles == {Layout(<<1, 2, 1>>), Layout(<<1, 1, 2, 1, 1>>)}

=============================================================================
