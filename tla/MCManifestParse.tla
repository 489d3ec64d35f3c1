--------------------------- MODULE MCManifestParse ---------------------------
(***************************************************************************)
(* Manifests for ManifestParse: chunks that stand in two bundles, in two   *)
(* files or twice in one; directories listed in any order, in a circle,    *)
(* twice or missing; paths that just fit and that do not.                  *)
(***************************************************************************)
EXTENDS ManifestParse

C(id, compressed, uncompressed) ==
    [chunk_id |-> id, compressed_size |-> compressed, uncompressed_size |-> uncompressed]
B(id, table) == [bundle_id |-> id, chunks |-> table]
D(id, parent, name) == [directory_id |-> id, parent_id |-> parent, name |-> name]
E(directory, name, ids, mask, param) ==
    [directory_id |-> directory, name |-> name, chunk_ids |-> ids,
     language_mask |-> mask, param_index |-> param]

MCBundleTables ==
    {<<>>, <<B(7, <<C(1, 1, 3)>>)>>,
     <<B(7, <<C(1, 2, 1), C(2, 1, 2), C(3, 1, 1)>>), B(9, <<C(3, 2, 1), C(1, 3, 1)>>)>>}
MCDirectoryTables ==
    {<<>>, <<D(1, 0, 2)>>, <<D(2, 1, 1), D(1, 0, 0)>>,
     <<D(1, 0, 1), D(2, 1, 1), D(3, 2, 1)>>, <<D(1, 2, 1), D(2, 1, 1)>>, <<D(1, 1, 0)>>,
     <<D(1, 0, 2), D(2, 1, 1), D(1, 2, 0), D(2, 0, 0)>>}
MCLanguageTables == {{}, {1, 2}}
MCEntries ==
    {E(d, n, <<1>>, {}, 0) : d \in 0 .. 3, n \in {1, 2, 5, 6}} \cup
    {E(1, 1, ids, {}, p) : ids \in {<<>>, <<1>>, <<2, 1, 3>>, <<1, 1>>, <<3, 4>>}, p \in 0 .. 2} \cup
    {E(0, 1, <<1>>, mask, 1) : mask \in {{0}, {1}, {2}}}
MCParameters == <<2, 3>>
=============================================================================
