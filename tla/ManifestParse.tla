---------------------------- MODULE ManifestParse ----------------------------
(***************************************************************************)
(* parse_manifest_data and parse_body of rman.c: from the tables of a      *)
(* manifest to the list of files that are downloaded.  A name is           *)
(* represented by its length, a path by the names it is made of.  The      *)
(* search in the list of chunks is what SortedList shows of find_object_s: *)
(* it returns an object with the key, if there is one.                     *)
(***************************************************************************)
EXTENDS Integers, Sequences, FiniteSets

CONSTANTS BundleTables,    \* tables of bundles a manifest may have
          DirectoryTables, \* tables of directories
          LanguageTables,  \* sets of language ids
          Entries,         \* entries of the table of files
          Parameters,      \* hash types, from index 1 on
          NameBuffer,      \* bytes of temp_name (256); backup_name has one less
          MaxFiles         \* bound of the model on the number of entries

\* The chunks of a bundle are a vector with ids and sizes.
ASSUME BundlesAssumption ==
    \A t \in BundleTables : \A b \in DOMAIN t :
        t[b].chunks \in Seq([chunk_id : Nat, compressed_size : Nat, uncompressed_size : Nat])
\* So are the directories, whose names have a length.
ASSUME DirectoriesAssumption ==
    \A t \in DirectoryTables : t \in Seq([directory_id : Nat, parent_id : Nat, name : Nat])
ASSUME EntriesAssumption ==
    \A e \in Entries : e.name \in Nat /\ e.chunk_ids \in Seq(Nat)
ASSUME BufferAssumption == NameBuffer \in Nat

VARIABLES bundles, directories, languages, \* the manifest
          chunks,                   \* manifest->chunks, by place in the bundles
          files,                    \* manifest->files, with their entries
          pc, entry,                \* control, and the entry at work
          directory_id, temp_name,  \* the path as far as it is known
          new_chunks, file_offset   \* the chunks of the file so far

vars == <<bundles, directories, languages, chunks, files, pc, entry,
          directory_id, temp_name, new_chunks, file_offset>>

manifest == <<bundles, directories, languages>>
work == <<entry, directory_id, temp_name, new_chunks, file_offset>>

Init == /\ bundles \in BundleTables /\ directories \in DirectoryTables
        /\ languages \in LanguageTables
        /\ chunks = <<>> /\ files = <<>> /\ pc = "header"
        /\ entry = CHOOSE e \in Entries : TRUE
        /\ directory_id = 0 /\ temp_name = <<>>
        /\ new_chunks = <<>> /\ file_offset = 0

\* The data does not begin with the magic bytes: NULL is returned; the body
\* does not decompress to its size: the assertion of line 331.
HeaderFails == /\ pc = "header" /\ pc' \in {"null", "aborted"}
               /\ UNCHANGED <<manifest, chunks, files, work>>

\* Faulty: the offset of a chunk is that of the one before it.
OffsetsLate(table) ==
    LET o[i \in 1 .. Len(table)] ==
            IF i <= 2 THEN 0 ELSE o[i - 1] + table[i - 2].compressed_size
    IN  o
\* A chunk begins in its bundle where the one before it ends.
Offsets(table) ==
    LET o[i \in 1 .. Len(table)] ==
            IF i = 1 THEN 0 ELSE o[i - 1] + table[i - 1].compressed_size
    IN  o

\* Faulty: the last bundle's chunks are not added.
PlacesButLast ==
    UNION {{<<b, i>> : i \in DOMAIN bundles[b].chunks} : b \in 1 .. Len(bundles) - 1}
Places == UNION {{<<b, i>> : i \in DOMAIN bundles[b].chunks} : b \in DOMAIN bundles}

ParseBundles ==
    /\ pc = "header" /\ pc' = "files"
    /\ chunks' = [p \in Places |->
                    LET b == bundles[p[1]]  c == b.chunks[p[2]]
                    IN  [chunk_id |-> c.chunk_id, bundle_id |-> b.bundle_id,
                         uncompressed_size |-> c.uncompressed_size,
                         bundle_offset |-> Offsets(b.chunks)[p[2]],
                         file_offset |-> 0, hashType |-> 0]]
    /\ UNCHANGED <<manifest, files, work>>

\* Bit i of the mask stands for the language with id i + 1.
LanguageIds(e) == {i + 1 : i \in e.language_mask}

\* The next entry.  A language that the manifest does not have leaves a NULL
\* pointer that add_object reads; a name that is too long overruns temp_name.
StartFile(e) ==
    /\ pc = "files" /\ Len(files) < MaxFiles
    /\ entry' = e /\ directory_id' = e.directory_id /\ temp_name' = <<e.name>>
    /\ new_chunks' = <<>> /\ file_offset' = 0
    /\ pc' = IF ~(LanguageIds(e) \subseteq languages) THEN "crashed"
             ELSE IF e.name >= NameBuffer THEN "overrun" ELSE "path"
    /\ UNCHANGED <<manifest, chunks, files>>

\* strlen of a path: its names with a separator between each two.
PathLength(path) ==
    LET n[i \in 0 .. Len(path)] ==
            IF i = 0 THEN -1 ELSE n[i - 1] + 1 + path[i]
    IN  n[Len(path)]

IsDirectory(j) == directories[j].directory_id = directory_id

\* Faulty: the name of the directory is left out.
NotPrepended(path, name) == path
\* Faulty: the name of the directory comes last.
Appended(path, name) == Append(path, name)
Prepended(path, name) == <<name>> \o path

\* A round of the loop over the parents.  backup_name and temp_name are written
\* before the assertion looks at the length.
Parent ==
    /\ pc = "path" /\ directory_id # 0
    /\ \E j \in DOMAIN directories :
        /\ IsDirectory(j) /\ \A h \in 1 .. j - 1 : ~IsDirectory(h)
        /\ directory_id' = directories[j].parent_id
        /\ temp_name' = Prepended(temp_name, directories[j].name)
        /\ pc' = IF \/ PathLength(temp_name) >= NameBuffer - 1
                    \/ PathLength(temp_name') >= NameBuffer
                 THEN "overrun" ELSE "path"
    /\ UNCHANGED <<manifest, chunks, files, entry, new_chunks, file_offset>>

\* No directory has the id: the assertion of line 280.
NoParent ==
    /\ pc = "path" /\ directory_id # 0
    /\ \A j \in DOMAIN directories : ~IsDirectory(j)
    /\ pc' = "aborted"
    /\ UNCHANGED <<manifest, chunks, files, work>>

Rooted ==
    /\ pc = "path" /\ directory_id = 0 /\ pc' = "chunks"
    /\ UNCHANGED <<manifest, chunks, files, work>>

MoreChunks == pc = "chunks" /\ Len(new_chunks) < Len(entry.chunk_ids)
ChunkId == entry.chunk_ids[Len(new_chunks) + 1]
HasParameters(e) == e.param_index < Len(Parameters)

\* Faulty: the offset goes on from the chunk's earlier use.
MarkedOnce(c) == [c EXCEPT !.file_offset = IF @ = 0 THEN file_offset ELSE @,
                           !.hashType = Parameters[entry.param_index + 1]]
\* The offset and the hash type are stored in the chunk of the manifest, which
\* other files and other places of this file use as well.
Marked(c) == [c EXCEPT !.file_offset = file_offset,
                       !.hashType = Parameters[entry.param_index + 1]]

\* The next chunk of the file is found, marked and copied.
TakeChunk ==
    /\ MoreChunks /\ HasParameters(entry)
    /\ \E p \in DOMAIN chunks :
        /\ chunks[p].chunk_id = ChunkId
        /\ chunks' = [chunks EXCEPT ![p] = Marked(@)]
        /\ new_chunks' = Append(new_chunks, chunks'[p])
        /\ file_offset' = file_offset + chunks[p].uncompressed_size
    /\ UNCHANGED <<manifest, files, pc, entry, directory_id, temp_name>>

\* No bundle has the chunk and the NULL pointer is written through, or the
\* hash type is read from behind the parameters.
NoChunk ==
    /\ MoreChunks
    /\ HasParameters(entry) => \A p \in DOMAIN chunks : chunks[p].chunk_id # ChunkId
    /\ pc' = "crashed"
    /\ UNCHANGED <<manifest, chunks, files, work>>

AddFile ==
    /\ pc = "chunks" /\ Len(new_chunks) = Len(entry.chunk_ids)
    /\ files' = Append(files, [entry |-> entry, name |-> temp_name,
                               languages |-> LanguageIds(entry), chunks |-> new_chunks])
    /\ pc' = "files"
    /\ UNCHANGED <<manifest, chunks, work>>

Finish == /\ pc = "files" /\ pc' = "done"
          /\ UNCHANGED <<manifest, chunks, files, work>>

Failed == {"null", "aborted", "crashed", "overrun"}
Final == Failed \cup {"done"}
Ended == pc \in Final /\ UNCHANGED vars

Step == \/ HeaderFails \/ ParseBundles \/ (\E e \in Entries : StartFile(e))
        \/ Parent \/ NoParent \/ Rooted \/ TakeChunk \/ NoChunk \/ AddFile \/ Finish

Next == Step \/ Ended

\* One thread that nothing holds up.
Spec == Init /\ [][Next]_vars /\ WF_vars(Step)

-----------------------------------------------------------------------------
\* The chunks of a file lie one behind the other, from its first byte on, also
\* when files share them or one occurs twice (rman.c:288-296).
Tiles ==
    \A f \in DOMAIN files : LET cs == files[f].chunks IN
        \A j \in DOMAIN cs :
            cs[j].file_offset =
                IF j = 1 THEN 0 ELSE cs[j - 1].file_offset + cs[j - 1].uncompressed_size

\* Every chunk of a file is the one its entry names, of the entry's hash type,
\* and lies in its bundle behind the chunks that come before it there
\* (rman.c:171-183 and 289-296).
Located ==
    \A f \in DOMAIN files : LET e == files[f].entry  cs == files[f].chunks IN
        /\ Len(cs) = Len(e.chunk_ids)
        /\ \A j \in DOMAIN cs :
            /\ cs[j].chunk_id = e.chunk_ids[j]
            /\ cs[j].hashType = Parameters[e.param_index + 1]
            /\ \E b \in DOMAIN bundles : \E i \in DOMAIN bundles[b].chunks :
                LET table == bundles[b].chunks IN
                /\ cs[j].bundle_id = bundles[b].bundle_id
                /\ cs[j].chunk_id = table[i].chunk_id
                /\ cs[j].bundle_offset =
                       LET sum[k \in 0 .. i - 1] ==
                               IF k = 0 THEN 0 ELSE sum[k - 1] + table[k].compressed_size
                       IN  sum[i - 1]

\* ds is a chain of directories from a root down to directory id; of those with
\* one id it has the first.
IsChain(ds, id) ==
    LET n == Len(ds) IN
    IF n = 0 THEN id = 0
    ELSE /\ \A j \in 1 .. n : \A h \in 1 .. ds[j] - 1 :
                directories[h].directory_id # directories[ds[j]].directory_id
         /\ directories[ds[1]].parent_id = 0
         /\ directories[ds[n]].directory_id = id
         /\ \A j \in 1 .. n - 1 : directories[ds[j]].directory_id = directories[ds[j + 1]].parent_id
Chains == UNION {[1 .. n -> DOMAIN directories] : n \in 0 .. Len(directories)}
PathOf(ds, e) == [j \in 1 .. Len(ds) + 1 |-> IF j > Len(ds) THEN e.name ELSE directories[ds[j]].name]

\* The name of a file is its own name behind the names of the directories it
\* lies in, from the root on (rman.c:271-286).
PathRight ==
    \A f \in DOMAIN files : \E ds \in [1 .. Len(files[f].name) - 1 -> DOMAIN directories] :
        /\ IsChain(ds, files[f].entry.directory_id)
        /\ files[f].name = PathOf(ds, files[f].entry)

\* The entry is sound: its chunks, languages and parameters are in the manifest,
\* its directory leads to a root, and its path fits.
Sound(e) ==
    /\ LanguageIds(e) \subseteq languages
    /\ e.chunk_ids # <<>> => HasParameters(e)
    /\ \A i \in DOMAIN e.chunk_ids : \E b \in DOMAIN bundles :
           \E c \in DOMAIN bundles[b].chunks : bundles[b].chunks[c].chunk_id = e.chunk_ids[i]
    /\ \E ds \in Chains : IsChain(ds, e.directory_id) /\ PathLength(PathOf(ds, e)) < NameBuffer

\* The parser gives up on an entry only if the entry is at fault
\* (rman.c:260-297).
FaultOnlyOfEntry == temp_name # <<>> /\ pc \in Failed => ~Sound(entry)

\* Every parse ends, directories that are their own ancestors included: the
\* path then outgrows its buffer (rman.c:274-285).
Ends == <>(pc \in Final)

=============================================================================
