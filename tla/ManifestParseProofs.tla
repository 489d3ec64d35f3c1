------------------------- MODULE ManifestParseProofs -------------------------
(***************************************************************************)
(* Proofs about ManifestParse, for every manifest: the chunks of a file    *)
(* tile it, its name is its path, and its chunks are those that the entry  *)
(* names, at their places in the bundles.                                  *)
(***************************************************************************)
EXTENDS ManifestParse, Induction

IsSeq(s) == \E S : s \in Seq(S)

\* What Append does to a sequence whose elements have no common type.
LEMMA AppendSeq ==
    ASSUME NEW s, NEW x, IsSeq(s)
    PROVE  LET t == Append(s, x) IN
           /\ IsSeq(t) /\ Len(s) \in Nat /\ Len(t) = Len(s) + 1
           /\ DOMAIN s = 1 .. Len(s) /\ DOMAIN t = 1 .. Len(s) + 1
           /\ \A i \in 1 .. Len(s) : t[i] = s[i]
           /\ t[Len(s) + 1] = x
<1>1. PICK S : s \in Seq(S)
  BY DEF IsSeq
<1> DEFINE U == S \cup {x}
<1>2. s \in Seq(U) /\ x \in U
  BY <1>1
<1> HIDE DEF U
<1>3. Append(s, x) \in Seq(U)
  BY <1>2
<1>4. QED
  BY <1>2, <1>3 DEF IsSeq

\* The empty sequence, as the lists of files and chunks are at first.
LEMMA EmptySeq == IsSeq(<<>>) /\ Len(<<>>) = 0 /\ DOMAIN <<>> = {}
<1>1. <<>> \in Seq(Nat)
  OBVIOUS
<1>2. QED
  BY <1>1 DEF IsSeq

-----------------------------------------------------------------------------
\* A sequence of chunks that lie one behind the other from the first byte on.
Tiled(cs) ==
    \A j \in DOMAIN cs :
        cs[j].file_offset =
            IF j = 1 THEN 0 ELSE cs[j - 1].file_offset + cs[j - 1].uncompressed_size

\* Where the next chunk begins.
EndOf(cs) == IF Len(cs) = 0 THEN 0
             ELSE cs[Len(cs)].file_offset + cs[Len(cs)].uncompressed_size

\* A chunk that begins where the last one ends keeps the tiling.
LEMMA TiledAppend ==
    ASSUME NEW cs, NEW c, IsSeq(cs), Tiled(cs), c.file_offset = EndOf(cs)
    PROVE  Tiled(Append(cs, c)) /\ EndOf(Append(cs, c)) = c.file_offset + c.uncompressed_size
<1> DEFINE t == Append(cs, c)
<1>1. /\ Len(cs) \in Nat /\ Len(t) = Len(cs) + 1 /\ DOMAIN cs = 1 .. Len(cs)
      /\ DOMAIN t = 1 .. Len(cs) + 1 /\ t[Len(cs) + 1] = c
      /\ \A i \in 1 .. Len(cs) : t[i] = cs[i]
  BY AppendSeq
<1> HIDE DEF t
<1>2. ASSUME NEW j \in 1 .. Len(cs) + 1
      PROVE  t[j].file_offset = IF j = 1 THEN 0 ELSE t[j - 1].file_offset + t[j - 1].uncompressed_size
  <2>1. CASE j <= Len(cs)
    <3>1. j \in DOMAIN cs /\ t[j] = cs[j] /\ (j # 1 => t[j - 1] = cs[j - 1])
      BY <1>1, <2>1
    <3>2. QED
      BY <3>1 DEF Tiled
  <2>2. CASE j = Len(cs) + 1 /\ j = 1
    BY <1>1, <2>2 DEF EndOf
  <2>3. CASE j = Len(cs) + 1 /\ j # 1
    BY <1>1, <2>3 DEF EndOf
  <2>4. QED
    BY <1>1, <2>1, <2>2, <2>3
<1>3. Tiled(t) /\ EndOf(t) = c.file_offset + c.uncompressed_size
  BY <1>1, <1>2 DEF Tiled, EndOf
<1>4. QED
  BY <1>3 DEF t

Fields == {"chunk_id", "bundle_id", "uncompressed_size", "bundle_offset", "file_offset", "hashType"}

\* The chunks of the manifest can be marked; those of the file so far tile it up
\* to file_offset.
TileInv ==
    /\ \A p \in DOMAIN chunks : chunks[p] = [x \in Fields |-> chunks[p][x]]
    /\ IsSeq(new_chunks) /\ IsSeq(files)
    /\ Tiled(new_chunks) /\ file_offset = EndOf(new_chunks)
    /\ \A f \in DOMAIN files : Tiled(files[f].chunks)

\* Every step of the parser keeps the tiling of all files and of the new one.
LEMMA TileNext == TileInv /\ [Next]_vars => TileInv'
<1> SUFFICES ASSUME TileInv, [Next]_vars PROVE TileInv'
  OBVIOUS
<1> USE DEF TileInv
<1>0. Tiled(<<>>) /\ EndOf(<<>>) = 0
  BY EmptySeq DEF Tiled, EndOf
<1>1. CASE ParseBundles
  <2>1. \A p \in DOMAIN chunks' : chunks'[p] = [x \in Fields |-> chunks'[p][x]]
    BY <1>1 DEF ParseBundles, Fields
  <2>2. QED
    BY <1>1, <2>1 DEF ParseBundles, work
<1>2. ASSUME NEW e \in Entries, StartFile(e) PROVE TileInv'
  BY <1>0, <1>2, EmptySeq DEF StartFile
<1>3. CASE TakeChunk
  <2>1. PICK p \in DOMAIN chunks :
           /\ chunks' = [chunks EXCEPT ![p] = Marked(@)]
           /\ new_chunks' = Append(new_chunks, chunks'[p])
           /\ file_offset' = file_offset + chunks[p].uncompressed_size
    BY <1>3 DEF TakeChunk
  <2>2. chunks'[p] = Marked(chunks[p]) /\ DOMAIN chunks' = DOMAIN chunks
    BY <2>1
  <2>3. /\ Marked(chunks[p]) = [x \in Fields |-> Marked(chunks[p])[x]]
        /\ Marked(chunks[p]).file_offset = file_offset
        /\ Marked(chunks[p]).uncompressed_size = chunks[p].uncompressed_size
    BY DEF Marked, Fields
  <2>4. \A q \in DOMAIN chunks' : chunks'[q] = [x \in Fields |-> chunks'[q][x]]
    BY <2>1, <2>2, <2>3
  <2>5. /\ Tiled(new_chunks') /\ IsSeq(new_chunks')
        /\ EndOf(new_chunks') = file_offset'
    BY <2>1, <2>2, <2>3, TiledAppend, AppendSeq
  <2>6. QED
    BY <1>3, <2>4, <2>5 DEF TakeChunk
<1>4. CASE AddFile
  <2>1. PICK r : r.chunks = new_chunks /\ files' = Append(files, r)
    BY <1>4 DEF AddFile
  <2>2. \A f \in DOMAIN files' : Tiled(files'[f].chunks)
    BY <2>1, AppendSeq
  <2>3. QED
    BY <1>4, <2>1, <2>2, AppendSeq DEF AddFile, work
<1>5. CASE \/ HeaderFails \/ Parent \/ NoParent \/ Rooted \/ NoChunk \/ Finish
           \/ Ended \/ UNCHANGED vars
  BY <1>5 DEF HeaderFails, Parent, NoParent, Rooted, NoChunk, Finish, Ended, vars, work
<1>6. QED
  BY <1>1, <1>2, <1>3, <1>4, <1>5 DEF Next, Step

\* The chunks of every file lie one behind the other from its first byte on,
\* whatever chunks the files of a manifest share (rman.c:288-296).
THEOREM TilesAlways == Spec => []Tiles
<1>1. Init => TileInv
  BY EmptySeq DEF Init, TileInv, Tiled, EndOf
<1>2. TileInv => Tiles
  BY DEF TileInv, Tiles, Tiled
<1>3. QED
  BY <1>1, <1>2, TileNext, PTL DEF Spec
-----------------------------------------------------------------------------
\* No directory before d has the id of d.
FirstOf(dirs, d) == \A h \in 1 .. d - 1 : dirs[h].directory_id # dirs[d].directory_id

\* The directories ds lead from the parent id up down to the directory id; with
\* none, the two are the same.
Leads(dirs, ds, n, up, id) ==
    IF n = 0 THEN id = up
    ELSE /\ \A j \in 1 .. n : FirstOf(dirs, ds[j])
         /\ dirs[ds[1]].parent_id = up
         /\ dirs[ds[n]].directory_id = id
         /\ \A j \in 1 .. n - 1 : dirs[ds[j]].directory_id = dirs[ds[j + 1]].parent_id

\* The name that the directories ds give to an entry.
Named(dirs, ds, n, e) == [j \in 1 .. n + 1 |-> IF j > n THEN e.name ELSE dirs[ds[j]].name]

\* The path so far consists of directories that lead to the entry's.
PathSoFar(dirs, name, up, e) ==
    \E n \in Nat : \E ds \in [1 .. n -> DOMAIN dirs] :
        name = Named(dirs, ds, n, e) /\ Leads(dirs, ds, n, up, e.directory_id)

PathInv ==
    /\ IsSeq(files)
    /\ pc \in {"path", "chunks"} => PathSoFar(directories, temp_name, directory_id, entry)
    /\ pc = "chunks" => directory_id = 0
    /\ \A f \in DOMAIN files : PathSoFar(directories, files[f].name, 0, files[f].entry)

\* One directory more at the front.
LEMMA PathLonger ==
    ASSUME NEW dirs, NEW name, NEW e, NEW d \in DOMAIN dirs, FirstOf(dirs, d),
           PathSoFar(dirs, name, dirs[d].directory_id, e)
    PROVE  PathSoFar(dirs, <<dirs[d].name>> \o name, dirs[d].parent_id, e)
<1>0. PICK n \in Nat : \E ds \in [1 .. n -> DOMAIN dirs] :
        name = Named(dirs, ds, n, e) /\ Leads(dirs, ds, n, dirs[d].directory_id, e.directory_id)
  BY DEF PathSoFar
<1>1. PICK ds \in [1 .. n -> DOMAIN dirs] :
        name = Named(dirs, ds, n, e) /\ Leads(dirs, ds, n, dirs[d].directory_id, e.directory_id)
  BY <1>0
<1> DEFINE es == [j \in 1 .. n + 1 |-> IF j = 1 THEN d ELSE ds[j - 1]]
<1>2. es \in [1 .. n + 1 -> DOMAIN dirs] /\ n + 1 \in Nat
  OBVIOUS
<1>3. Named(dirs, es, n + 1, e) = <<dirs[d].name>> \o name
  <2> DEFINE S == {e.name} \cup {dirs[j].name : j \in DOMAIN dirs}
             a == dirs[d].name
  <2>1. a \in S /\ e.name \in S /\ \A j \in DOMAIN dirs : dirs[j].name \in S
    OBVIOUS
  <2> HIDE DEF S
  <2>2. name \in [1 .. n + 1 -> S]
    BY <1>1, <2>1 DEF Named
  <2>3. name \in Seq(S) /\ Len(name) = n + 1 /\ <<a>> \in Seq(S) /\ Len(<<a>>) = 1
    BY <2>1, <2>2
  <2> DEFINE t == <<a>> \o name
  <2>4. /\ t \in Seq(S) /\ Len(t) = n + 2
        /\ \A j \in 1 .. n + 2 : t[j] = IF j = 1 THEN a ELSE name[j - 1]
    BY <2>3
  <2> HIDE DEF t
  <2>5. t = [j \in 1 .. n + 2 |-> IF j = 1 THEN a ELSE name[j - 1]]
    BY <2>4
  <2>6. ASSUME NEW j \in 1 .. n + 2
        PROVE  (IF j > n + 1 THEN e.name ELSE dirs[es[j]].name) =
                   IF j = 1 THEN a ELSE name[j - 1]
    <3>1. CASE j = 1
      BY <3>1
    <3>2. CASE j > n + 1
      BY <1>1, <3>2 DEF Named
    <3>3. CASE j # 1 /\ j <= n + 1
      BY <1>1, <3>3 DEF Named
    <3>4. QED
      BY <3>1, <3>2, <3>3
  <2>7. Named(dirs, es, n + 1, e) = [j \in 1 .. n + 2 |-> IF j = 1 THEN a ELSE name[j - 1]]
    <3>1. 1 .. (n + 1) + 1 = 1 .. n + 2
      OBVIOUS
    <3>2. Named(dirs, es, n + 1, e) =
              [j \in 1 .. n + 2 |-> IF j > n + 1 THEN e.name ELSE dirs[es[j]].name]
      BY <3>1 DEF Named
    <3> HIDE DEF es, a
    <3>3. QED
      BY <2>6, <3>2
  <2>8. QED
    BY <2>5, <2>7 DEF t
<1>4. Leads(dirs, es, n + 1, dirs[d].parent_id, e.directory_id)
  <2>1. /\ es[1] = d
        /\ \A j \in 1 .. n : es[j + 1] = ds[j]
    OBVIOUS
  <2> HIDE DEF es
  <2>2. CASE n = 0
    BY <1>1, <2>1, <2>2 DEF Leads
  <2>3. CASE n # 0
    <3>1. dirs[es[n + 1]].directory_id = e.directory_id
      BY <1>1, <2>1, <2>3 DEF Leads
    <3>2. ASSUME NEW j \in 1 .. n
          PROVE  dirs[es[j]].directory_id = dirs[es[j + 1]].parent_id
      <4>1. CASE j = 1
        BY <1>1, <2>1, <2>3, <4>1 DEF Leads
      <4>2. CASE j # 1
        <5>1. j - 1 \in 1 .. n - 1 /\ es[j] = ds[j - 1] /\ es[j + 1] = ds[j] /\ (j - 1) + 1 = j
          BY <2>1, <4>2
        <5>2. QED
          BY <1>1, <2>3, <5>1 DEF Leads
      <4>3. QED
        BY <4>1, <4>2
    <3>3. ASSUME NEW j \in 1 .. n + 1 PROVE FirstOf(dirs, es[j])
      <4>1. CASE j = 1
        BY <2>1, <4>1
      <4>2. CASE j # 1
        <5>1. j - 1 \in 1 .. n /\ (j - 1) + 1 = j
          BY <4>2
        <5>2. es[j] = ds[j - 1] /\ FirstOf(dirs, ds[j - 1])
          BY <1>1, <2>1, <2>3, <5>1 DEF Leads
        <5>3. QED
          BY <5>2
      <4>3. QED
        BY <4>1, <4>2
    <3>4. QED
      BY <2>1, <3>1, <3>2, <3>3 DEF Leads
  <2>4. QED
    BY <2>2, <2>3
<1>5. QED
  BY <1>2, <1>3, <1>4 DEF PathSoFar

\* A name without directories is a path whose chain still has to be found.
LEMMA PathAlone ==
    ASSUME NEW dirs, NEW e PROVE PathSoFar(dirs, <<e.name>>, e.directory_id, e)
<1> DEFINE ds == [j \in 1 .. 0 |-> 0]
<1>1. ds \in [1 .. 0 -> DOMAIN dirs]
  OBVIOUS
<1>2. Named(dirs, ds, 0, e) = <<e.name>>
  <2>1. Named(dirs, ds, 0, e) = [j \in 1 .. 1 |-> e.name]
    BY DEF Named
  <2>2. <<e.name>> = [j \in 1 .. 1 |-> e.name]
    OBVIOUS
  <2>3. QED
    BY <2>1, <2>2
<1>3. Leads(dirs, ds, 0, e.directory_id, e.directory_id)
  BY DEF Leads
<1>4. QED
  BY <1>1, <1>2, <1>3 DEF PathSoFar

\* Every step of the parser keeps the paths of all files and of the new one.
LEMMA PathNext == PathInv /\ [Next]_vars => PathInv'
<1> SUFFICES ASSUME PathInv, [Next]_vars PROVE PathInv'
  OBVIOUS
<1> USE DEF PathInv
<1>1. ASSUME NEW e \in Entries, StartFile(e) PROVE PathInv'
  <2>1. /\ directories' = directories /\ files' = files /\ pc' # "chunks"
        /\ temp_name' = <<e.name>> /\ directory_id' = e.directory_id /\ entry' = e
    BY <1>1 DEF StartFile, manifest
  <2>2. QED
    BY <2>1, PathAlone
<1>2. CASE Parent
  <2>1. PICK d \in DOMAIN directories :
           /\ directories[d].directory_id = directory_id /\ FirstOf(directories, d)
           /\ directory_id' = directories[d].parent_id
           /\ temp_name' = <<directories[d].name>> \o temp_name
           /\ pc' # "chunks"
    BY <1>2 DEF Parent, IsDirectory, Prepended, FirstOf
  <2>2. /\ directories' = directories /\ files' = files /\ entry' = entry /\ pc = "path"
    BY <1>2 DEF Parent, manifest
  <2>3. PathSoFar(directories, temp_name', directory_id', entry)
    BY <2>1, <2>2, PathLonger
  <2>4. QED
    BY <2>1, <2>2, <2>3
<1>3. CASE AddFile
  <2>1. PICK r : r.name = temp_name /\ r.entry = entry /\ files' = Append(files, r)
    BY <1>3 DEF AddFile
  <2>2. directories' = directories /\ pc = "chunks" /\ pc' = "files"
    BY <1>3 DEF AddFile, manifest
  <2>3. PathSoFar(directories, r.name, 0, r.entry)
    BY <2>1, <2>2
  <2>4. IsSeq(files') /\ \A f \in DOMAIN files' : PathSoFar(directories, files'[f].name, 0, files'[f].entry)
    BY <2>1, <2>3, AppendSeq
  <2>5. QED
    BY <2>2, <2>4
<1>4. CASE \/ HeaderFails \/ ParseBundles \/ NoParent \/ Rooted \/ TakeChunk \/ NoChunk
           \/ Finish \/ Ended \/ UNCHANGED vars
  <2>1. UNCHANGED <<directories, files, entry, directory_id, temp_name>>
    BY <1>4 DEF HeaderFails, ParseBundles, NoParent, Rooted, TakeChunk, NoChunk, Finish, Ended,
                vars, manifest, work
  <2>2. /\ pc' \in {"path", "chunks"} => pc \in {"path", "chunks"}
        /\ pc' = "chunks" => pc = "chunks" \/ directory_id = 0
    BY <1>4 DEF HeaderFails, ParseBundles, NoParent, Rooted, TakeChunk, NoChunk, Finish, Ended, vars
  <2>3. QED
    BY <2>1, <2>2
<1>5. QED
  BY <1>1, <1>2, <1>3, <1>4 DEF Next, Step

\* The name of every file is its path: the names of a chain of directories from
\* a root to the entry's directory, and the entry's own (rman.c:271-286).
THEOREM PathRightAlways == Spec => []PathRight
<1>1. Init => PathInv
  BY EmptySeq DEF Init, PathInv
<1>2. PathInv => PathRight
  <2> SUFFICES ASSUME PathInv, NEW f \in DOMAIN files
               PROVE  \E ds \in [1 .. Len(files[f].name) - 1 -> DOMAIN directories] :
                          /\ IsChain(ds, files[f].entry.directory_id)
                          /\ files[f].name = PathOf(ds, files[f].entry)
    BY DEF PathRight
  <2>0. PICK n \in Nat : \E ds \in [1 .. n -> DOMAIN directories] :
           /\ files[f].name = Named(directories, ds, n, files[f].entry)
           /\ Leads(directories, ds, n, 0, files[f].entry.directory_id)
    BY DEF PathInv, PathSoFar
  <2>1. PICK ds \in [1 .. n -> DOMAIN directories] :
           /\ files[f].name = Named(directories, ds, n, files[f].entry)
           /\ Leads(directories, ds, n, 0, files[f].entry.directory_id)
    BY <2>0
  <2>2. Len(ds) = n /\ Len(files[f].name) = n + 1
    <3>1. ds \in Seq(DOMAIN directories) /\ Len(ds) = n
      BY <2>1
    <3>2. Len(Named(directories, ds, n, files[f].entry)) = n + 1
      BY DEF Named
    <3>3. QED
      BY <2>1, <3>1, <3>2
  <2>3. PathOf(ds, files[f].entry) = files[f].name
    BY <2>1, <2>2 DEF PathOf, Named
  <2>4. IsChain(ds, files[f].entry.directory_id)
    BY <2>1, <2>2 DEF IsChain, Leads, FirstOf
  <2>5. QED
    BY <2>2, <2>3, <2>4
<1>3. QED
  BY <1>1, <1>2, PathNext, PTL DEF Spec

-----------------------------------------------------------------------------
\* u[k] is the sum of the sizes of the first k chunks, up to the first m.
Summed(u, table, m) ==
    u = [k \in 0 .. m |-> IF k = 0 THEN 0 ELSE u[k - 1] + table[k].compressed_size]

\* There are such sums.
LEMMA SumsExist == ASSUME NEW table, NEW N \in Nat PROVE \E u : Summed(u, table, N)
<1> DEFINE S == {m \in Nat : \E u : Summed(u, table, m)}
<1>1. 0 \in S
  <2> DEFINE h == [k \in 0 .. 0 |-> 0]
  <2>1. h = [k \in 0 .. 0 |-> IF k = 0 THEN 0 ELSE h[k - 1] + table[k].compressed_size]
    OBVIOUS
  <2> HIDE DEF h
  <2>2. QED
    BY <2>1 DEF Summed
<1>2. ASSUME NEW m \in Nat, m \in S PROVE m + 1 \in S
  <2>1. PICK u : Summed(u, table, m)
    BY <1>2
  <2>2. \A k \in 0 .. m : u[k] = IF k = 0 THEN 0 ELSE u[k - 1] + table[k].compressed_size
    BY <2>1 DEF Summed
  <2> DEFINE h == [k \in 0 .. m + 1 |-> IF k <= m THEN u[k] ELSE u[m] + table[m + 1].compressed_size]
  <2>3. /\ \A k \in 0 .. m : h[k] = u[k]
        /\ h[m + 1] = u[m] + table[m + 1].compressed_size
        /\ h = [k \in 0 .. m + 1 |-> h[k]]
    <3>1. ~(m + 1 <= m) /\ m + 1 \in 0 .. m + 1 /\ \A k \in 0 .. m : k \in 0 .. m + 1 /\ k <= m
      OBVIOUS
    <3>2. (\A k \in 0 .. m : h[k] = u[k]) /\ h[m + 1] = u[m] + table[m + 1].compressed_size
      BY <3>1
    <3>3. QED
      BY <3>2
  <2> HIDE DEF h
  <2>4. ASSUME NEW k \in 0 .. m + 1
        PROVE  h[k] = IF k = 0 THEN 0 ELSE h[k - 1] + table[k].compressed_size
    <3>1. CASE k = m + 1
      <4>1. k # 0 /\ k - 1 = m /\ m \in 0 .. m
        BY <3>1
      <4>2. QED
        BY <2>3, <3>1, <4>1
    <3>2. CASE k = 0
      BY <2>2, <2>3, <3>2
    <3>3. CASE k # 0 /\ k # m + 1
      <4>1. k \in 0 .. m /\ k - 1 \in 0 .. m
        BY <3>3
      <4>2. QED
        BY <2>2, <2>3, <3>3, <4>1
    <3>4. QED
      BY <3>1, <3>2, <3>3
  <2>5. Summed(h, table, m + 1)
    BY <2>3, <2>4 DEF Summed
  <2>6. QED
    BY <2>5
<1> HIDE DEF S
<1>3. N \in S
  BY <1>1, <1>2, SetInduction
<1>4. QED
  BY <1>3 DEF S

\* Sums of a longer and of a shorter part of a bundle agree.
LEMMA SumsAgree ==
    ASSUME NEW table, NEW m \in Nat, NEW n \in Nat, m <= n,
           NEW u, Summed(u, table, m), NEW v, Summed(v, table, n)
    PROVE  \A k \in 0 .. m : u[k] = v[k]
<1>1. /\ \A k \in 0 .. m : u[k] = IF k = 0 THEN 0 ELSE u[k - 1] + table[k].compressed_size
      /\ \A k \in 0 .. n : v[k] = IF k = 0 THEN 0 ELSE v[k - 1] + table[k].compressed_size
  BY DEF Summed
<1> DEFINE S == {k \in Nat : k <= m => u[k] = v[k]}
<1>2. 0 \in S
  BY <1>1
<1>3. ASSUME NEW k \in Nat, k \in S, k + 1 <= m PROVE u[k + 1] = v[k + 1]
  <2>1. k + 1 \in 0 .. m /\ k + 1 \in 0 .. n /\ k + 1 # 0 /\ (k + 1) - 1 = k /\ k <= m
    BY <1>3
  <2>2. u[k] = v[k]
    BY <1>3, <2>1
  <2>3. QED
    BY <1>1, <2>1, <2>2
<1>4. \A k \in Nat : k \in S => k + 1 \in S
  BY <1>3
<1> HIDE DEF S
<1>5. \A k \in Nat : k \in S
  BY <1>2, <1>4, SetInduction
<1>6. QED
  BY <1>5 DEF S

\* The sum of the sizes before chunk i, as Located writes it.
SizesBefore(table, i) ==
    LET sum[k \in 0 .. i - 1] ==
            IF k = 0 THEN 0 ELSE sum[k - 1] + table[k].compressed_size
    IN  sum[i - 1]

\* The running offset of parse_body is that sum.
LEMMA OffsetIsSum ==
    ASSUME NEW C, NEW table \in Seq(C), NEW i \in DOMAIN table
    PROVE  Offsets(table)[i] = SizesBefore(table, i)
<1>1. PICK N \in Nat : N = Len(table) /\ i \in 1 .. N
  OBVIOUS
<1>2. PICK w : Summed(w, table, N)
  BY <1>1, SumsExist
<1>3. \A k \in 0 .. N : w[k] = IF k = 0 THEN 0 ELSE w[k - 1] + table[k].compressed_size
  BY <1>2 DEF Summed
<1> DEFINE Run(f) == f = [j \in 1 .. N |->
                            IF j = 1 THEN 0 ELSE f[j - 1] + table[j - 1].compressed_size]
<1>4. \E f : Run(f)
  <2> DEFINE h == [j \in 1 .. N |-> w[j - 1]]
  <2>1. ASSUME NEW j \in 1 .. N
        PROVE  w[j - 1] = IF j = 1 THEN 0 ELSE h[j - 1] + table[j - 1].compressed_size
    <3>1. CASE j = 1
      BY <1>3, <3>1
    <3>2. CASE j # 1
      <4>1. j - 1 \in 0 .. N /\ j - 1 # 0 /\ j - 1 \in 1 .. N
        BY <3>2
      <4>2. h[j - 1] = w[(j - 1) - 1]
        BY <4>1
      <4> HIDE DEF h
      <4>3. QED
        BY <1>3, <3>2, <4>1, <4>2
    <3>3. QED
      BY <3>1, <3>2
  <2>2. h = [j \in 1 .. N |-> IF j = 1 THEN 0 ELSE h[j - 1] + table[j - 1].compressed_size]
    BY <2>1
  <2> HIDE DEF h
  <2>3. QED
    BY <2>2
<1>5. PICK o : o = Offsets(table)
  OBVIOUS
<1>6. Run(o)
  <2>1. o = CHOOSE f : f = [j \in 1 .. Len(table) |->
                IF j = 1 THEN 0 ELSE f[j - 1] + table[j - 1].compressed_size]
    BY <1>5 DEF Offsets
  <2>2. o = CHOOSE f : Run(f)
    BY <1>1, <2>1
  <2> HIDE DEF Run
  <2>3. QED
    BY <1>4, <2>2
<1>7. \A j \in 1 .. N : o[j] = w[j - 1]
  <2>1. \A j \in 1 .. N : o[j] = IF j = 1 THEN 0 ELSE o[j - 1] + table[j - 1].compressed_size
    BY <1>6
  <2> DEFINE S == {j \in Int : j <= N => o[j] = w[j - 1]}
  <2>2. 1 \in S
    BY <1>3, <2>1
  <2>3. ASSUME NEW j \in Int, j >= 1, j \in S, j + 1 <= N PROVE o[j + 1] = w[(j + 1) - 1]
    <3>1. /\ j + 1 \in 1 .. N /\ j + 1 # 1 /\ (j + 1) - 1 = j /\ j <= N
          /\ j \in 0 .. N /\ j # 0
      BY <2>3
    <3>2. o[j] = w[j - 1]
      BY <2>3, <3>1
    <3>3. QED
      BY <1>3, <2>1, <3>1, <3>2
  <2>4. \A j \in Int : j >= 1 /\ j \in S => j + 1 \in S
    BY <2>3
  <2> HIDE DEF S
  <2>5. \A j \in Int : j >= 1 => j \in S
    BY SMTT(30), <2>2, <2>4, InductionFrom
  <2>6. QED
    BY <2>5 DEF S
<1>8. SizesBefore(table, i) = w[i - 1]
  <2>1. PICK m \in Nat : m = i - 1 /\ m <= N
    BY <1>1
  <2>2. PICK s : s = CHOOSE u : Summed(u, table, m)
    OBVIOUS
  <2>3. Summed(s, table, m)
    BY <2>2, SumsExist
  <2>4. s[m] = w[m]
    BY <1>2, <2>1, <2>3, SumsAgree
  <2>5. SizesBefore(table, i) = s[m]
    BY <2>1, <2>2 DEF SizesBefore, Summed
  <2>6. QED
    BY <2>1, <2>4, <2>5
<1>9. QED
  BY <1>1, <1>5, <1>7, <1>8

-----------------------------------------------------------------------------
\* Chunk c stands in one of the bundles, behind the chunks before it there.
Stands(bs, c) ==
    \E b \in DOMAIN bs : \E i \in DOMAIN bs[b].chunks :
        /\ c.bundle_id = bs[b].bundle_id
        /\ c.chunk_id = bs[b].chunks[i].chunk_id
        /\ c.bundle_offset = SizesBefore(bs[b].chunks, i)

\* The chunks cs are those that entry e names, each in its place.
AllNamed(bs, cs, e) ==
    \A j \in DOMAIN cs : /\ cs[j].chunk_id = e.chunk_ids[j]
                         /\ cs[j].hashType = Parameters[e.param_index + 1]
                         /\ Stands(bs, cs[j])

\* The chunks of the manifest stay in their places while they are marked, and
\* those of the file so far are the first ones that its entry names.
LocatedInv ==
    /\ bundles \in BundleTables
    /\ \A p \in DOMAIN chunks : /\ chunks[p] = [x \in Fields |-> chunks[p][x]]
                                /\ Stands(bundles, chunks[p])
    /\ IsSeq(new_chunks) /\ IsSeq(files)
    /\ AllNamed(bundles, new_chunks, entry)
    /\ \A f \in DOMAIN files : /\ Len(files[f].chunks) = Len(files[f].entry.chunk_ids)
                               /\ AllNamed(bundles, files[f].chunks, files[f].entry)

\* parse_body lists every chunk with its place in its bundle.
LEMMA ListedInPlace ==
    ASSUME bundles \in BundleTables, ParseBundles, NEW p \in DOMAIN chunks'
    PROVE  chunks'[p] = [x \in Fields |-> chunks'[p][x]] /\ Stands(bundles, chunks'[p])
<1> DEFINE T == [chunk_id : Nat, compressed_size : Nat, uncompressed_size : Nat]
<1>1. p \in Places
  BY DEF ParseBundles
<1>2. PICK b \in DOMAIN bundles : \E i \in DOMAIN bundles[b].chunks : p = <<b, i>>
  BY <1>1 DEF Places
<1>3. PICK i \in DOMAIN bundles[b].chunks : p = <<b, i>>
  BY <1>2
<1>4. bundles[b].chunks \in Seq(T)
  BY BundlesAssumption
<1> HIDE DEF T
<1>5. chunks'[p] = [chunk_id |-> bundles[b].chunks[i].chunk_id, bundle_id |-> bundles[b].bundle_id,
                    uncompressed_size |-> bundles[b].chunks[i].uncompressed_size,
                    bundle_offset |-> Offsets(bundles[b].chunks)[i],
                    file_offset |-> 0, hashType |-> 0]
  BY <1>1, <1>3 DEF ParseBundles
<1>6. Offsets(bundles[b].chunks)[i] = SizesBefore(bundles[b].chunks, i)
  BY <1>4, OffsetIsSum
<1>7. Stands(bundles, chunks'[p])
  BY <1>5, <1>6 DEF Stands
<1>8. chunks'[p] = [x \in Fields |-> chunks'[p][x]]
  BY <1>5 DEF Fields
<1>9. QED
  BY <1>7, <1>8

\* Every step of the parser keeps the chunks in place.
LEMMA LocatedNext == LocatedInv /\ [Next]_vars => LocatedInv'
<1> SUFFICES ASSUME LocatedInv, [Next]_vars PROVE LocatedInv'
  OBVIOUS
<1> USE DEF LocatedInv
<1>1. CASE ParseBundles
  <2>1. \A p \in DOMAIN chunks' :
           chunks'[p] = [x \in Fields |-> chunks'[p][x]] /\ Stands(bundles, chunks'[p])
    BY <1>1, ListedInPlace
  <2>2. UNCHANGED <<bundles, files, new_chunks, entry>>
    BY <1>1 DEF ParseBundles, manifest, work
  <2>3. QED
    BY <2>1, <2>2
<1>2. ASSUME NEW e \in Entries, StartFile(e) PROVE LocatedInv'
  <2>1. UNCHANGED <<bundles, chunks, files>> /\ new_chunks' = <<>>
    BY <1>2 DEF StartFile, manifest
  <2>2. AllNamed(bundles, <<>>, entry')
    BY EmptySeq DEF AllNamed
  <2>3. QED
    BY <2>1, <2>2, EmptySeq
<1>3. CASE TakeChunk
  <2>1. PICK p \in DOMAIN chunks :
           /\ chunks[p].chunk_id = entry.chunk_ids[Len(new_chunks) + 1]
           /\ chunks' = [chunks EXCEPT ![p] = Marked(@)]
           /\ new_chunks' = Append(new_chunks, chunks'[p])
    BY <1>3 DEF TakeChunk, ChunkId
  <2>2. UNCHANGED <<bundles, files, entry>>
    BY <1>3 DEF TakeChunk, manifest
  <2>3. chunks'[p] = Marked(chunks[p]) /\ DOMAIN chunks' = DOMAIN chunks
    BY <2>1
  <2>4. /\ Marked(chunks[p]) = [x \in Fields |-> Marked(chunks[p])[x]]
        /\ Marked(chunks[p]).chunk_id = chunks[p].chunk_id
        /\ Marked(chunks[p]).bundle_id = chunks[p].bundle_id
        /\ Marked(chunks[p]).bundle_offset = chunks[p].bundle_offset
        /\ Marked(chunks[p]).hashType = Parameters[entry.param_index + 1]
    BY DEF Marked, Fields
  <2>5. Stands(bundles, Marked(chunks[p]))
    BY <2>4 DEF Stands
  <2>6. \A q \in DOMAIN chunks' :
           chunks'[q] = [x \in Fields |-> chunks'[q][x]] /\ Stands(bundles, chunks'[q])
    BY <2>1, <2>3, <2>4, <2>5
  <2>7. IsSeq(new_chunks') /\ AllNamed(bundles, new_chunks', entry)
    BY <2>1, <2>3, <2>4, <2>5, AppendSeq DEF AllNamed
  <2>8. QED
    BY <2>2, <2>6, <2>7
<1>4. CASE AddFile
  <2>1. PICK r : r.chunks = new_chunks /\ r.entry = entry /\ files' = Append(files, r)
    BY <1>4 DEF AddFile
  <2>2. UNCHANGED <<bundles, chunks, new_chunks, entry>> /\ Len(new_chunks) = Len(entry.chunk_ids)
    BY <1>4 DEF AddFile, manifest, work
  <2>3. IsSeq(files') /\ \A f \in DOMAIN files' :
            /\ Len(files'[f].chunks) = Len(files'[f].entry.chunk_ids)
            /\ AllNamed(bundles, files'[f].chunks, files'[f].entry)
    BY <2>1, <2>2, AppendSeq
  <2>4. QED
    BY <2>2, <2>3
<1>5. CASE \/ HeaderFails \/ Parent \/ NoParent \/ Rooted \/ NoChunk \/ Finish
           \/ Ended \/ UNCHANGED vars
  <2>1. UNCHANGED <<bundles, chunks, files, new_chunks, entry>>
    BY <1>5 DEF HeaderFails, Parent, NoParent, Rooted, NoChunk, Finish, Ended, vars, manifest, work
  <2>2. QED
    BY <2>1
<1>6. QED
  BY <1>1, <1>2, <1>3, <1>4, <1>5 DEF Next, Step

\* Every file has the chunks that its entry names, of the entry's hash type, and
\* each carries the place where it stands in its bundle, behind the compressed
\* chunks before it there (rman.c:171-183 and 289-296).
THEOREM LocatedAlways == Spec => []Located
<1>1. Init => LocatedInv
  BY EmptySeq DEF Init, LocatedInv, AllNamed
<1>2. LocatedInv => Located
  BY DEF LocatedInv, Located, AllNamed, Stands, SizesBefore
<1>3. QED
  BY <1>1, <1>2, LocatedNext, PTL DEF Spec

-----------------------------------------------------------------------------
\* v[i] is the length of the path of the first i names.
Lengths(v, path, m) ==
    v = [i \in 0 .. m |-> IF i = 0 THEN -1 ELSE v[i - 1] + 1 + path[i]]

\* There are such lengths.
LEMMA LengthsExist ==
    ASSUME NEW N \in Nat, NEW path \in [1 .. N -> Nat]
    PROVE  \E v : Lengths(v, path, N) /\ v \in [0 .. N -> Int]
<1> DEFINE S == {m \in Nat : m <= N => \E v : Lengths(v, path, m) /\ v \in [0 .. m -> Int]}
<1>1. 0 \in S
  <2> DEFINE h == [i \in 0 .. 0 |-> -1]
  <2>1. h = [i \in 0 .. 0 |-> IF i = 0 THEN -1 ELSE h[i - 1] + 1 + path[i]] /\ h \in [0 .. 0 -> Int]
    OBVIOUS
  <2> HIDE DEF h
  <2>2. QED
    BY <2>1 DEF Lengths
<1>2. ASSUME NEW m \in Nat, m \in S, m + 1 <= N
      PROVE  \E v : Lengths(v, path, m + 1) /\ v \in [0 .. m + 1 -> Int]
  <2>0. m <= N /\ m + 1 \in 1 .. N
    BY <1>2
  <2>1. PICK v : Lengths(v, path, m) /\ v \in [0 .. m -> Int]
    BY <1>2, <2>0
  <2>2. \A i \in 0 .. m : v[i] = IF i = 0 THEN -1 ELSE v[i - 1] + 1 + path[i]
    BY <2>1 DEF Lengths
  <2>a. PICK c \in Int : c = v[m] + 1 + path[m + 1]
    <3>1. v[m] \in Int /\ path[m + 1] \in Nat
      BY <2>0, <2>1
    <3>2. QED
      BY <3>1
  <2> DEFINE h == [i \in 0 .. m + 1 |-> IF i <= m THEN v[i] ELSE c]
  <2>3. /\ \A i \in 0 .. m : h[i] = v[i]
        /\ h[m + 1] = c
        /\ h = [i \in 0 .. m + 1 |-> h[i]]
    <3>1. ~(m + 1 <= m) /\ m + 1 \in 0 .. m + 1 /\ \A i \in 0 .. m : i \in 0 .. m + 1 /\ i <= m
      OBVIOUS
    <3>2. (\A i \in 0 .. m : h[i] = v[i]) /\ h[m + 1] = c
      BY <3>1
    <3>3. QED
      BY <3>2
  <2>b. h \in [0 .. m + 1 -> Int]
    BY <2>1, <2>a
  <2> HIDE DEF h
  <2>4. ASSUME NEW i \in 0 .. m + 1
        PROVE  h[i] = IF i = 0 THEN -1 ELSE h[i - 1] + 1 + path[i]
    <3>1. CASE i = m + 1
      <4>1. i # 0 /\ i - 1 = m /\ m \in 0 .. m
        BY <3>1
      <4>2. QED
        BY <2>a, <2>3, <3>1, <4>1
    <3>2. CASE i = 0
      <4>1. 0 \in 0 .. m
        OBVIOUS
      <4>2. v[0] = -1
        BY <2>2, <4>1
      <4>3. h[0] = v[0]
        BY <2>3, <4>1
      <4>4. QED
        BY <3>2, <4>2, <4>3
    <3>3. CASE i # 0 /\ i # m + 1
      <4>1. i \in 0 .. m /\ i - 1 \in 0 .. m
        BY <3>3
      <4>2. QED
        BY <2>2, <2>3, <3>3, <4>1
    <3>4. QED
      BY <3>1, <3>2, <3>3
  <2>5. Lengths(h, path, m + 1)
    BY <2>3, <2>4 DEF Lengths
  <2>6. QED
    BY <2>5, <2>b
<1>3. \A m \in Nat : m \in S => m + 1 \in S
  BY <1>2
<1> HIDE DEF S
<1>4. N \in S
  BY <1>1, <1>3, SetInduction
<1>5. QED
  BY <1>4 DEF S

\* What PathLength computes.
LEMMA PathLengthOf ==
    ASSUME NEW path \in Seq(Nat)
    PROVE  \E v : /\ PathLength(path) = v[Len(path)] /\ v \in [0 .. Len(path) -> Int]
                  /\ v[0] = -1
                  /\ \A i \in 1 .. Len(path) : v[i] = v[i - 1] + 1 + path[i]
<1>1. PICK N \in Nat : N = Len(path) /\ path \in [1 .. N -> Nat]
  OBVIOUS
<1>2. PICK w : Lengths(w, path, N) /\ w \in [0 .. N -> Int]
  BY <1>1, LengthsExist
<1>3. PICK v : v = CHOOSE u : Lengths(u, path, N)
  OBVIOUS
<1>4. Lengths(v, path, N)
  BY <1>2, <1>3
<1>5. PathLength(path) = v[N]
  BY <1>1, <1>3 DEF PathLength, Lengths
<1>6. \A i \in 0 .. N : /\ v[i] = IF i = 0 THEN -1 ELSE v[i - 1] + 1 + path[i]
                        /\ w[i] = IF i = 0 THEN -1 ELSE w[i - 1] + 1 + path[i]
  BY <1>2, <1>4 DEF Lengths
<1>7. \A i \in 0 .. N : v[i] = w[i]
  <2> DEFINE S == {i \in Nat : i <= N => v[i] = w[i]}
  <2>1. 0 \in S
    BY <1>6
  <2>2. ASSUME NEW i \in Nat, i \in S, i + 1 <= N PROVE v[i + 1] = w[i + 1]
    <3>1. i + 1 \in 0 .. N /\ i + 1 # 0 /\ (i + 1) - 1 = i /\ i <= N
      BY <2>2
    <3>2. v[i] = w[i]
      BY <2>2, <3>1
    <3>3. QED
      BY <1>6, <3>1, <3>2
  <2>3. \A i \in Nat : i \in S => i + 1 \in S
    BY <2>2
  <2> HIDE DEF S
  <2>4. \A i \in Nat : i \in S
    BY <2>1, <2>3, SetInduction
  <2>5. QED
    BY <2>4 DEF S
<1>8. v \in [0 .. N -> Int]
  <2>1. v = [i \in 0 .. N |-> v[i]]
    BY <1>4 DEF Lengths
  <2>2. \A i \in 0 .. N : v[i] \in Int
    BY <1>2, <1>7
  <2>3. QED
    BY <2>1, <2>2
<1>9. v[0] = -1 /\ \A i \in 1 .. N : v[i] = v[i - 1] + 1 + path[i]
  BY <1>6
<1>10. QED
  BY <1>1, <1>5, <1>8, <1>9

\* A name in front makes a path longer by itself and a separator.
LEMMA PrependedLength ==
    ASSUME NEW a \in Nat, NEW path \in Seq(Nat)
    PROVE  /\ PathLength(path) \in Int
           /\ PathLength(<<a>> \o path) = PathLength(path) + 1 + a
<1>1. PICK N \in Nat : N = Len(path)
  OBVIOUS
<1>2. PICK v : /\ PathLength(path) = v[N] /\ v \in [0 .. N -> Int] /\ v[0] = -1
               /\ \A i \in 1 .. N : v[i] = v[i - 1] + 1 + path[i]
  BY <1>1, PathLengthOf
<1> DEFINE t == <<a>> \o path
<1>3. /\ t \in Seq(Nat) /\ Len(t) = N + 1 /\ t[1] = a
      /\ \A i \in 1 .. N : t[i + 1] = path[i]
  BY <1>1
<1> HIDE DEF t
<1>a. PICK M \in Nat : M = Len(t) /\ M = N + 1
  BY <1>3
<1>b. t \in Seq(Nat)
  BY <1>3
<1>c. PICK w : /\ PathLength(t) = w[Len(t)] /\ w \in [0 .. Len(t) -> Int] /\ w[0] = -1
               /\ \A i \in 1 .. Len(t) : w[i] = w[i - 1] + 1 + t[i]
  BY ONLY <1>b, PathLengthOf
<1>4. /\ PathLength(t) = w[N + 1] /\ w \in [0 .. N + 1 -> Int] /\ w[0] = -1
      /\ \A i \in 1 .. N + 1 : w[i] = w[i - 1] + 1 + t[i]
  BY <1>a, <1>c
<1> DEFINE S == {i \in Nat : i <= N => w[i + 1] = v[i] + 1 + a}
<1>5. 0 \in S
  <2>1. 1 \in 1 .. N + 1 /\ 1 - 1 = 0
    OBVIOUS
  <2>2. w[1] = w[0] + 1 + t[1]
    BY <1>4, <2>1
  <2>3. QED
    BY <1>2, <1>3, <1>4, <2>2
<1>6. ASSUME NEW i \in Nat, i \in S, i + 1 <= N PROVE w[(i + 1) + 1] = v[i + 1] + 1 + a
  <2>1. /\ i + 1 \in 1 .. N /\ (i + 1) - 1 = i /\ i <= N /\ i \in 0 .. N
        /\ (i + 1) + 1 \in 1 .. N + 1 /\ ((i + 1) + 1) - 1 = i + 1
    BY <1>6
  <2>2. PICK x \in Int, n \in Nat : x = v[i] /\ n = path[i + 1]
    BY <1>1, <1>2, <2>1
  <2>3. w[i + 1] = x + 1 + a
    BY <1>6, <2>1, <2>2
  <2>4. v[i + 1] = x + 1 + n /\ w[(i + 1) + 1] = w[i + 1] + 1 + n
    BY <1>2, <1>3, <1>4, <2>1, <2>2
  <2>5. QED
    BY <2>3, <2>4
<1>7. \A i \in Nat : i \in S => i + 1 \in S
  BY <1>6
<1> HIDE DEF S
<1>8. N \in S
  BY <1>5, <1>7, SetInduction
<1>9. w[N + 1] = v[N] + 1 + a /\ v[N] \in Int
  BY <1>2, <1>8 DEF S
<1>10. QED
  BY <1>2, <1>4, <1>9 DEF t

\* The path of one name is as long as the name.
LEMMA AloneLength == ASSUME NEW a \in Nat PROVE PathLength(<<a>>) = a
<1>1. <<>> \in Seq(Nat) /\ Len(<<>>) = 0 /\ <<a>> \o <<>> = <<a>>
  OBVIOUS
<1>2. PathLength(<<>>) = -1
  BY <1>1, PathLengthOf
<1>3. PathLength(<<a>>) = PathLength(<<>>) + 1 + a
  BY <1>1, PrependedLength
<1>4. QED
  BY <1>2, <1>3

-----------------------------------------------------------------------------
\* The path of a chain from place k on: what the loop over the parents has put
\* together when it has gone up to there.
FromPath(ds, k, e) == [j \in 1 .. Len(ds) - k + 1 |-> PathOf(ds, e)[k + j]]

\* One round up adds a name in front.
LEMMA OneUp ==
    ASSUME directories \in DirectoryTables, NEW e \in Entries,
           NEW n \in Nat, NEW ds \in [1 .. n -> DOMAIN directories], NEW k \in 1 .. n
    PROVE  /\ FromPath(ds, k, e) \in Seq(Nat)
           /\ directories[ds[k]].name \in Nat
           /\ FromPath(ds, k - 1, e) = <<directories[ds[k]].name>> \o FromPath(ds, k, e)
<1>1. Len(ds) = n
  OBVIOUS
<1> DEFINE R == [directory_id : Nat, parent_id : Nat, name : Nat]
<1>0. \A d \in DOMAIN directories : directories[d].name \in Nat
  <2>1. directories \in Seq(R)
    BY DirectoriesAssumption
  <2>2. \A x \in R : x.name \in Nat
    OBVIOUS
  <2> HIDE DEF R
  <2>3. \A d \in DOMAIN directories : directories[d] \in R
    BY <2>1
  <2>4. QED
    BY <2>2, <2>3
<1> HIDE DEF R
<1>2. \A j \in 1 .. n : directories[ds[j]].name \in Nat
  BY <1>0
<1>3. e.name \in Nat
  BY EntriesAssumption
<1>4. PICK q : q = PathOf(ds, e)
  OBVIOUS
<1>5. q \in [1 .. n + 1 -> Nat] /\ \A j \in 1 .. n : q[j] = directories[ds[j]].name
  <2>1. q = [j \in 1 .. n + 1 |-> IF j > n THEN e.name ELSE directories[ds[j]].name]
    BY <1>1, <1>4 DEF PathOf
  <2>2. \A j \in 1 .. n + 1 : (IF j > n THEN e.name ELSE directories[ds[j]].name) \in Nat
    BY <1>2, <1>3
  <2>3. \A j \in 1 .. n : j \in 1 .. n + 1 /\ ~(j > n)
    OBVIOUS
  <2>4. QED
    BY <2>1, <2>2, <2>3
<1>6. PICK r : r = FromPath(ds, k, e)
  OBVIOUS
<1>7. PICK m \in Nat : m = n - k + 1
  OBVIOUS
<1>8. r \in [1 .. m -> Nat] /\ \A j \in 1 .. m : r[j] = q[k + j]
  <2>1. r = [j \in 1 .. m |-> q[k + j]]
    BY <1>1, <1>4, <1>6, <1>7 DEF FromPath
  <2>2. \A j \in 1 .. m : k + j \in 1 .. n + 1
    BY <1>7
  <2>3. QED
    BY <1>5, <2>1, <2>2
<1>9. PICK a \in Nat : a = directories[ds[k]].name
  BY <1>2
<1>10. FromPath(ds, k - 1, e) = [j \in 1 .. m + 1 |-> q[(k - 1) + j]]
  <2>1. Len(ds) - (k - 1) + 1 = m + 1
    BY <1>1, <1>7
  <2>2. QED
    BY <1>4, <2>1 DEF FromPath
<1>11. <<a>> \o r = [j \in 1 .. m + 1 |-> q[(k - 1) + j]]
  <2> DEFINE t == <<a>> \o r
  <2>1. r \in Seq(Nat) /\ Len(r) = m
    BY <1>8
  <2>a. <<a>> \in Seq(Nat) /\ Len(<<a>>) = 1 /\ <<a>>[1] = a
    BY <1>9
  <2>b. t \in Seq(Nat) /\ Len(t) = 1 + m
    BY <2>1, <2>a
  <2>c. t[1] = a
    BY <2>1, <2>a
  <2>d. \A j \in 1 .. m + 1 : j # 1 => t[j] = r[j - 1]
    BY <2>1, <2>a
  <2>2. t \in Seq(Nat) /\ Len(t) = m + 1 /\ \A j \in 1 .. m + 1 : t[j] = IF j = 1 THEN a ELSE r[j - 1]
    BY <2>b, <2>c, <2>d
  <2> HIDE DEF t
  <2>3. t = [j \in 1 .. m + 1 |-> t[j]]
    BY <2>2
  <2>4. ASSUME NEW j \in 1 .. m + 1 PROVE t[j] = q[(k - 1) + j]
    <3>1. CASE j = 1
      <4>1. (k - 1) + j = k
        BY <3>1
      <4>2. q[k] = a
        BY <1>5, <1>9
      <4>3. QED
        BY <2>2, <3>1, <4>1, <4>2
    <3>2. CASE j # 1
      <4>1. j - 1 \in 1 .. m /\ k + (j - 1) = (k - 1) + j
        BY <3>2
      <4>2. QED
        BY <1>8, <2>2, <3>2, <4>1
    <3>3. QED
      BY <3>1, <3>2
  <2>5. QED
    BY <2>3, <2>4 DEF t
<1>12. r \in Seq(Nat)
  BY <1>8
<1>13. QED
  BY <1>6, <1>9, <1>10, <1>11, <1>12

\* The last part of a path is the name of the entry, and all of it is the path.
LEMMA PathEnds ==
    ASSUME directories \in DirectoryTables, NEW e \in Entries,
           NEW n \in Nat, NEW ds \in [1 .. n -> DOMAIN directories]
    PROVE  FromPath(ds, n, e) = <<e.name>> /\ FromPath(ds, 0, e) = PathOf(ds, e)
<1>1. Len(ds) = n
  OBVIOUS
<1>2. PICK q : q = PathOf(ds, e)
  OBVIOUS
<1>3. q = [j \in 1 .. n + 1 |-> IF j > n THEN e.name ELSE directories[ds[j]].name]
  BY <1>1, <1>2 DEF PathOf
<1>4. FromPath(ds, n, e) = <<e.name>>
  <2>1. n - n + 1 = 1 /\ n + 1 \in 1 .. n + 1 /\ n + 1 > n
    OBVIOUS
  <2>2. q[n + 1] = e.name
    BY <1>3, <2>1
  <2>3. FromPath(ds, n, e) = [j \in 1 .. 1 |-> q[n + j]]
    BY <1>1, <1>2, <2>1 DEF FromPath
  <2>4. \A j \in 1 .. 1 : n + j = n + 1
    OBVIOUS
  <2>5. FromPath(ds, n, e) = [j \in 1 .. 1 |-> e.name]
    BY <2>2, <2>3, <2>4
  <2>6. QED
    BY <2>5
<1>5. FromPath(ds, 0, e) = PathOf(ds, e)
  <2>1. n - 0 + 1 = n + 1 /\ \A j \in 1 .. n + 1 : 0 + j = j
    OBVIOUS
  <2>2. FromPath(ds, 0, e) = [j \in 1 .. n + 1 |-> q[j]]
    BY <1>1, <1>2, <2>1 DEF FromPath
  <2>3. QED
    BY <1>2, <1>3, <2>2
<1>6. QED
  BY <1>4, <1>5

\* No part of a path is longer than the path.
LEMMA PathGrows ==
    ASSUME directories \in DirectoryTables, NEW e \in Entries,
           NEW n \in Nat, NEW ds \in [1 .. n -> DOMAIN directories], NEW k \in 0 .. n
    PROVE  /\ PathLength(FromPath(ds, k, e)) \in Int /\ PathLength(PathOf(ds, e)) \in Int
           /\ PathLength(FromPath(ds, k, e)) <= PathLength(PathOf(ds, e))
           /\ k # 0 => PathLength(FromPath(ds, k, e)) + 1 <= PathLength(FromPath(ds, k - 1, e))
<1> DEFINE l(m) == PathLength(FromPath(ds, m, e))
<1>1. ASSUME NEW m \in 1 .. n PROVE l(m) \in Int /\ l(m - 1) \in Int /\ l(m) + 1 <= l(m - 1)
  <2>1. PICK a \in Nat, r \in Seq(Nat) :
           /\ a = directories[ds[m]].name /\ r = FromPath(ds, m, e)
           /\ FromPath(ds, m - 1, e) = <<a>> \o r
    BY OneUp
  <2>2. PathLength(r) \in Int /\ PathLength(<<a>> \o r) = PathLength(r) + 1 + a
    BY PrependedLength
  <2>3. PICK x \in Int : x = PathLength(r)
    BY <2>2
  <2>4. l(m) = x /\ l(m - 1) = x + 1 + a
    BY <2>1, <2>2, <2>3
  <2>5. QED
    BY <2>4
<1>2. l(n) \in Int
  BY AloneLength, PathEnds, EntriesAssumption
<1> HIDE DEF l
<1>3. \A m \in 0 .. n : l(m) \in Int
  <2> TAKE m \in 0 .. n
  <2>1. CASE m = n
    BY <1>2, <2>1
  <2>2. CASE m # n
    <3>1. m + 1 \in 1 .. n /\ (m + 1) - 1 = m
      BY <2>2
    <3>2. QED
      BY <1>1, <3>1
  <2>3. QED
    BY <2>1, <2>2
<1> DEFINE S == {m \in Nat : m <= n => l(m) <= l(0)}
<1>4. 0 \in S
  BY <1>3
<1>5. ASSUME NEW m \in Nat, m \in S, m + 1 <= n PROVE l(m + 1) <= l(0)
  <2>1. m + 1 \in 1 .. n /\ (m + 1) - 1 = m /\ m <= n /\ 0 \in 0 .. n
    BY <1>5
  <2>2. PICK x \in Int, y \in Int, z \in Int : x = l(m + 1) /\ y = l(m) /\ z = l(0) /\ x + 1 <= y
    BY <1>1, <1>3, <2>1
  <2>3. y <= z
    BY <1>5, <2>1, <2>2
  <2>4. x <= z
    BY <2>2, <2>3
  <2>5. QED
    BY <2>2, <2>4
<1>6. \A m \in Nat : m \in S => m + 1 \in S
  BY <1>5
<1> HIDE DEF S
<1>7. \A m \in Nat : m \in S
  BY <1>4, <1>6, SetInduction
<1>8. l(k) <= l(0) /\ l(k) \in Int /\ l(0) \in Int
  BY <1>3, <1>7 DEF S
<1>9. k # 0 => l(k) + 1 <= l(k - 1)
  BY <1>1
<1>10. QED
  BY <1>8, <1>9, PathEnds DEF l

\* The path so far is the end of that of every chain of the entry.
OnTheWay ==
    \A n \in Nat : \A ds \in [1 .. n -> DOMAIN directories] : IsChain(ds, entry.directory_id) =>
        \E k \in 0 .. n :
            /\ temp_name = FromPath(ds, k, entry)
            /\ directory_id = IF k = 0 THEN 0 ELSE directories[ds[k]].directory_id

\* Every chunk of a bundle is in the list of chunks.
Offered == \A b \in DOMAIN bundles : \A i \in DOMAIN bundles[b].chunks :
               \E p \in DOMAIN chunks : chunks[p].chunk_id = bundles[b].chunks[i].chunk_id

FaultInv ==
    /\ bundles \in BundleTables /\ directories \in DirectoryTables /\ IsSeq(new_chunks)
    /\ \A p \in DOMAIN chunks : chunks[p] = [x \in Fields |-> chunks[p][x]]
    /\ pc = "header" => temp_name = <<>>
    /\ pc \in {"files", "path", "chunks"} => Offered
    /\ pc \in {"path", "chunks"} => entry \in Entries
    /\ pc = "path" => OnTheWay
    /\ FaultOnlyOfEntry

\* Whether an entry is sound is a matter of the tables only.
LEMMA SoundStays ==
    ASSUME UNCHANGED <<bundles, directories, languages>>
    PROVE  Sound(entry)' <=> Sound(entry')
<1>1. \A ds, id : IsChain(ds, id)' <=> IsChain(ds, id)
  BY DEF IsChain
<1>2. \A ds : PathOf(ds, entry)' = PathOf(ds, entry')
  BY DEF PathOf
<1>3. Chains' = Chains
  BY DEF Chains
<1>4. QED
  BY <1>1, <1>2, <1>3 DEF Sound, LanguageIds, HasParameters, PathLength

\* The chain that makes an entry sound.
LEMMA ChainOfSound ==
    ASSUME directories \in DirectoryTables, NEW e, Sound(e)
    PROVE  \E n \in Nat : \E ds \in [1 .. n -> DOMAIN directories] :
               IsChain(ds, e.directory_id) /\ PathLength(PathOf(ds, e)) < NameBuffer
<1>1. Len(directories) \in Nat
  BY DirectoriesAssumption
<1>2. PICK ds \in Chains : IsChain(ds, e.directory_id) /\ PathLength(PathOf(ds, e)) < NameBuffer
  BY DEF Sound
<1>3. PICK n \in 0 .. Len(directories) : ds \in [1 .. n -> DOMAIN directories]
  BY DEF Chains
<1>4. n \in Nat
  BY <1>1
<1>5. QED
  BY <1>2, <1>3, <1>4

\* The first steps of an entry: it is given up only for its languages or for a
\* name that does not fit.
LEMMA StartFault ==
    ASSUME FaultInv, NEW e \in Entries, StartFile(e)
    PROVE  OnTheWay' /\ FaultOnlyOfEntry'
<1>1. /\ entry' = e /\ temp_name' = <<e.name>> /\ directory_id' = e.directory_id
      /\ UNCHANGED <<bundles, directories, languages>>
      /\ directories \in DirectoryTables
  BY DEF StartFile, manifest, FaultInv
<1>2. OnTheWay'
  <2> SUFFICES ASSUME NEW n \in Nat, NEW ds \in [1 .. n -> DOMAIN directories],
                      IsChain(ds, e.directory_id)
               PROVE  /\ <<e.name>> = FromPath(ds, n, e)
                      /\ e.directory_id = IF n = 0 THEN 0 ELSE directories[ds[n]].directory_id
    <3>1. \A ds : IsChain(ds, entry.directory_id)' <=> IsChain(ds, e.directory_id)
      BY <1>1 DEF IsChain
    <3>2. \A ds, k : FromPath(ds, k, entry)' = FromPath(ds, k, e)
      BY <1>1 DEF FromPath, PathOf
    <3>3. \A n \in Nat : n \in 0 .. n
      OBVIOUS
    <3>4. QED
      BY <1>1, <3>1, <3>2, <3>3 DEF OnTheWay
  <2>1. Len(ds) = n
    OBVIOUS
  <2>2. QED
    BY <1>1, <2>1, PathEnds DEF IsChain
<1>3. FaultOnlyOfEntry'
  <2> SUFFICES ASSUME pc' \in Failed, Sound(e) PROVE FALSE
    BY <1>1, SoundStays DEF FaultOnlyOfEntry
  <2>1. LanguageIds(e) \subseteq languages
    BY DEF Sound
  <2>2. e.name >= NameBuffer
    BY <2>1 DEF StartFile, Failed
  <2>3. PICK n \in Nat : \E ds \in [1 .. n -> DOMAIN directories] :
            IsChain(ds, e.directory_id) /\ PathLength(PathOf(ds, e)) < NameBuffer
    BY <1>1, ChainOfSound
  <2>4. PICK ds \in [1 .. n -> DOMAIN directories] : PathLength(PathOf(ds, e)) < NameBuffer
    BY <2>3
  <2>5. PathLength(FromPath(ds, n, e)) = e.name /\ e.name \in Nat
    BY <1>1, PathEnds, AloneLength, EntriesAssumption
  <2>6. PathLength(FromPath(ds, n, e)) <= PathLength(PathOf(ds, e)) /\ PathLength(PathOf(ds, e)) \in Int
    BY <1>1, PathGrows
  <2>7. QED
    BY <2>2, <2>4, <2>5, <2>6, BufferAssumption
<1>4. QED
  BY <1>2, <1>3

\* A round up the directories goes up every chain, and none is too long.
LEMMA ParentFault ==
    ASSUME FaultInv, Parent
    PROVE  OnTheWay' /\ FaultOnlyOfEntry'
<1>1. PICK d \in DOMAIN directories :
         /\ directories[d].directory_id = directory_id
         /\ \A h \in 1 .. d - 1 : directories[h].directory_id # directory_id
         /\ directory_id' = directories[d].parent_id
         /\ temp_name' = <<directories[d].name>> \o temp_name
         /\ pc' = IF \/ PathLength(temp_name) >= NameBuffer - 1
                     \/ PathLength(temp_name') >= NameBuffer
                  THEN "overrun" ELSE "path"
  BY DEF Parent, IsDirectory, Prepended
<1>2. /\ UNCHANGED <<bundles, directories, languages, entry>>
      /\ directories \in DirectoryTables /\ entry \in Entries /\ OnTheWay /\ directory_id # 0
  BY DEF Parent, manifest, FaultInv
<1>3. ASSUME NEW n \in Nat, NEW ds \in [1 .. n -> DOMAIN directories],
             IsChain(ds, entry.directory_id)
      PROVE  \E k \in 1 .. n :
                /\ temp_name = FromPath(ds, k, entry)
                /\ temp_name' = FromPath(ds, k - 1, entry)
                /\ directory_id' = IF k - 1 = 0 THEN 0 ELSE directories[ds[k - 1]].directory_id
  <2>1. PICK k \in 0 .. n :
            /\ temp_name = FromPath(ds, k, entry)
            /\ directory_id = IF k = 0 THEN 0 ELSE directories[ds[k]].directory_id
    BY <1>2, <1>3 DEF OnTheWay
  <2>2. k \in 1 .. n /\ directories[ds[k]].directory_id = directory_id /\ Len(ds) = n /\ n # 0
    BY <1>2, <2>1
  <2>3. ds[k] = d
    <3>1. Len(directories) \in Nat /\ DOMAIN directories = 1 .. Len(directories)
      BY <1>2, DirectoriesAssumption
    <3>2. ds[k] \in Int /\ d \in Int /\ ds[k] >= 1 /\ d >= 1
      BY <2>2, <3>1
    <3>3. \A h \in 1 .. ds[k] - 1 : directories[h].directory_id # directory_id
      BY <1>3, <2>2 DEF IsChain
    <3>4. ~(ds[k] < d)
      BY <1>1, <2>2, <3>2
    <3>5. ~(d < ds[k])
      BY <1>1, <3>2, <3>3
    <3>6. QED
      BY <3>2, <3>4, <3>5
  <2>4. temp_name' = FromPath(ds, k - 1, entry)
    BY <1>1, <1>2, <2>1, <2>2, <2>3, OneUp
  <2>5. directories[d].parent_id = IF k - 1 = 0 THEN 0 ELSE directories[ds[k - 1]].directory_id
    <3>1. CASE k = 1
      BY <1>3, <2>2, <2>3, <3>1 DEF IsChain
    <3>2. CASE k # 1
      <4>1. k - 1 \in 1 .. n - 1 /\ (k - 1) + 1 = k /\ k - 1 # 0
        BY <2>2, <3>2
      <4>2. directories[ds[k - 1]].directory_id = directories[ds[(k - 1) + 1]].parent_id
        BY <1>3, <2>2, <4>1 DEF IsChain
      <4>3. QED
        BY <2>3, <4>1, <4>2
    <3>3. QED
      BY <3>1, <3>2
  <2>6. QED
    BY <1>1, <2>1, <2>2, <2>4, <2>5
<1>4. OnTheWay'
  <2>1. \A ds : IsChain(ds, entry.directory_id)' <=> IsChain(ds, entry.directory_id)
    BY <1>2 DEF IsChain
  <2>2. \A ds, k : FromPath(ds, k, entry)' = FromPath(ds, k, entry)
    BY <1>2 DEF FromPath, PathOf
  <2> SUFFICES ASSUME NEW n \in Nat, NEW ds \in [1 .. n -> DOMAIN directories],
                      IsChain(ds, entry.directory_id)
               PROVE  \E k \in 0 .. n :
                        /\ temp_name' = FromPath(ds, k, entry)
                        /\ directory_id' = IF k = 0 THEN 0 ELSE directories[ds[k]].directory_id
    BY <1>2, <2>1, <2>2 DEF OnTheWay
  <2>3. PICK k \in 1 .. n :
                /\ temp_name' = FromPath(ds, k - 1, entry)
                /\ directory_id' = IF k - 1 = 0 THEN 0 ELSE directories[ds[k - 1]].directory_id
    BY <1>3
  <2>4. k - 1 \in 0 .. n
    OBVIOUS
  <2>5. QED
    BY <2>3, <2>4
<1>5. FaultOnlyOfEntry'
  <2> SUFFICES ASSUME pc' \in Failed, Sound(entry) PROVE FALSE
    BY <1>2, SoundStays DEF FaultOnlyOfEntry
  <2>1. PathLength(temp_name) >= NameBuffer - 1 \/ PathLength(temp_name') >= NameBuffer
    BY <1>1 DEF Failed
  <2>2. PICK n \in Nat : \E ds \in [1 .. n -> DOMAIN directories] :
            IsChain(ds, entry.directory_id) /\ PathLength(PathOf(ds, entry)) < NameBuffer
    BY <1>2, ChainOfSound
  <2>3. PICK ds \in [1 .. n -> DOMAIN directories] :
            IsChain(ds, entry.directory_id) /\ PathLength(PathOf(ds, entry)) < NameBuffer
    BY <2>2
  <2>4. PICK k \in 1 .. n : temp_name = FromPath(ds, k, entry) /\ temp_name' = FromPath(ds, k - 1, entry)
    BY <1>3, <2>3
  <2>5. k \in 0 .. n /\ k - 1 \in 0 .. n /\ k # 0
    OBVIOUS
  <2>6. PICK x \in Int, y \in Int, z \in Int :
            /\ x = PathLength(temp_name) /\ y = PathLength(temp_name') /\ z = PathLength(PathOf(ds, entry))
            /\ x + 1 <= y /\ y <= z
    <3>1. PathLength(temp_name) \in Int /\ PathLength(temp_name) + 1 <= PathLength(temp_name')
      BY <1>2, <2>4, <2>5, PathGrows
    <3>2. /\ PathLength(temp_name') \in Int /\ PathLength(PathOf(ds, entry)) \in Int
          /\ PathLength(temp_name') <= PathLength(PathOf(ds, entry))
      BY <1>2, <2>4, <2>5, PathGrows
    <3>3. QED
      BY <3>1, <3>2
  <2>7. QED
    BY <2>1, <2>3, <2>6, BufferAssumption
<1>6. QED
  BY <1>4, <1>5

\* A chain of the entry has a directory wherever the path is not at a root.
LEMMA NoParentFault ==
    ASSUME FaultInv, NoParent PROVE FaultOnlyOfEntry'
<1>1. /\ UNCHANGED <<bundles, directories, languages, entry>>
      /\ directories \in DirectoryTables /\ OnTheWay /\ directory_id # 0
      /\ \A d \in DOMAIN directories : directories[d].directory_id # directory_id
  BY DEF NoParent, manifest, work, FaultInv, IsDirectory
<1> SUFFICES ASSUME Sound(entry) PROVE FALSE
  BY <1>1, SoundStays DEF FaultOnlyOfEntry
<1>2. PICK n \in Nat : \E ds \in [1 .. n -> DOMAIN directories] : IsChain(ds, entry.directory_id)
  BY <1>1, ChainOfSound
<1>3. PICK ds \in [1 .. n -> DOMAIN directories] : IsChain(ds, entry.directory_id)
  BY <1>2
<1>4. PICK k \in 0 .. n : directory_id = IF k = 0 THEN 0 ELSE directories[ds[k]].directory_id
  BY <1>1, <1>3 DEF OnTheWay
<1>5. k \in 1 .. n /\ directories[ds[k]].directory_id = directory_id
  BY <1>1, <1>4
<1>6. QED
  BY <1>1, <1>5

\* The chunks that a sound entry names are found, and so is its hash type.
LEMMA NoChunkFault ==
    ASSUME FaultInv, NoChunk PROVE FaultOnlyOfEntry'
<1>1. /\ UNCHANGED <<bundles, directories, languages, entry>>
      /\ entry \in Entries /\ Offered /\ IsSeq(new_chunks)
      /\ Len(new_chunks) < Len(entry.chunk_ids)
      /\ HasParameters(entry) => \A p \in DOMAIN chunks : chunks[p].chunk_id # ChunkId
  BY DEF NoChunk, MoreChunks, manifest, work, FaultInv
<1> SUFFICES ASSUME Sound(entry) PROVE FALSE
  BY <1>1, SoundStays DEF FaultOnlyOfEntry
<1>2. Len(new_chunks) \in Nat
  BY <1>1, AppendSeq
<1>3. entry.chunk_ids \in Seq(Nat)
  BY <1>1, EntriesAssumption
<1>4. Len(new_chunks) + 1 \in DOMAIN entry.chunk_ids /\ entry.chunk_ids # <<>>
  BY <1>1, <1>2, <1>3
<1>5. HasParameters(entry)
  BY <1>4 DEF Sound
<1>6. PICK b \in DOMAIN bundles : \E i \in DOMAIN bundles[b].chunks :
          bundles[b].chunks[i].chunk_id = ChunkId
  BY <1>4 DEF Sound, ChunkId
<1>7. QED
  BY <1>1, <1>5, <1>6 DEF Offered

\* parse_body lists every chunk of every bundle.
LEMMA BundlesOffered == ASSUME ParseBundles PROVE Offered'
<1>1. UNCHANGED bundles
  BY DEF ParseBundles, manifest
<1> SUFFICES ASSUME NEW b \in DOMAIN bundles, NEW i \in DOMAIN bundles[b].chunks
             PROVE  \E p \in DOMAIN chunks' : chunks'[p].chunk_id = bundles[b].chunks[i].chunk_id
  BY <1>1 DEF Offered
<1>2. <<b, i>> \in Places
  BY DEF Places
<1>3. <<b, i>> \in DOMAIN chunks' /\ chunks'[<<b, i>>].chunk_id = bundles[b].chunks[i].chunk_id
  BY <1>2 DEF ParseBundles
<1>4. QED
  BY <1>3

\* Every step of the parser keeps FaultInv.
LEMMA FaultNext == FaultInv /\ [Next]_vars => FaultInv'
<1> SUFFICES ASSUME FaultInv, [Next]_vars PROVE FaultInv'
  OBVIOUS
<1>1. CASE ParseBundles
  <2>1. \A p \in DOMAIN chunks' : chunks'[p] = [x \in Fields |-> chunks'[p][x]]
    BY <1>1 DEF ParseBundles, Fields
  <2>2. pc' = "files" /\ UNCHANGED <<bundles, directories, new_chunks>>
    BY <1>1 DEF ParseBundles, manifest, work
  <2>3. QED
    BY <1>1, <2>1, <2>2, BundlesOffered DEF FaultInv, FaultOnlyOfEntry, Failed
<1>2. ASSUME NEW e \in Entries, StartFile(e) PROVE FaultInv'
  <2>1. /\ UNCHANGED <<bundles, directories, chunks>> /\ new_chunks' = <<>> /\ entry' = e
        /\ pc = "files" /\ pc' # "header"
    BY <1>2 DEF StartFile, manifest
  <2>2. OnTheWay' /\ FaultOnlyOfEntry'
    BY <1>2, StartFault
  <2>3. Offered'
    BY <2>1 DEF FaultInv, Offered
  <2>4. QED
    BY <2>1, <2>2, <2>3, EmptySeq DEF FaultInv
<1>3. CASE Parent
  <2>1. /\ UNCHANGED <<bundles, directories, chunks, new_chunks, entry>>
        /\ pc = "path" /\ pc' \in {"path", "overrun"}
    BY <1>3 DEF Parent, manifest
  <2>2. OnTheWay' /\ FaultOnlyOfEntry'
    BY <1>3, ParentFault
  <2>3. Offered'
    BY <2>1 DEF FaultInv, Offered
  <2>4. QED
    BY <2>1, <2>2, <2>3 DEF FaultInv
<1>4. CASE TakeChunk
  <2>1. PICK p \in DOMAIN chunks :
           /\ chunks' = [chunks EXCEPT ![p] = Marked(@)]
           /\ new_chunks' = Append(new_chunks, chunks'[p])
    BY <1>4 DEF TakeChunk
  <2>2. UNCHANGED <<bundles, directories, languages, entry, pc>> /\ pc = "chunks"
    BY <1>4 DEF TakeChunk, MoreChunks, manifest
  <2>3. chunks[p] = [x \in Fields |-> chunks[p][x]]
    BY DEF FaultInv
  <2>4. /\ Marked(chunks[p]) = [x \in Fields |-> Marked(chunks[p])[x]]
        /\ Marked(chunks[p]).chunk_id = chunks[p].chunk_id
    BY <2>3 DEF Marked, Fields
  <2>5. /\ \A q \in DOMAIN chunks' : chunks'[q] = [x \in Fields |-> chunks'[q][x]]
        /\ DOMAIN chunks' = DOMAIN chunks
        /\ \A q \in DOMAIN chunks : chunks'[q].chunk_id = chunks[q].chunk_id
    BY <2>1, <2>4 DEF FaultInv
  <2>6. Offered'
    BY <2>2, <2>5 DEF FaultInv, Offered
  <2>7. IsSeq(new_chunks')
    BY <2>1, AppendSeq DEF FaultInv
  <2>8. QED
    BY <2>2, <2>5, <2>6, <2>7 DEF FaultInv, FaultOnlyOfEntry, Failed
<1>5. CASE NoParent \/ NoChunk
  <2>1. /\ UNCHANGED <<bundles, directories, chunks, new_chunks>>
        /\ pc' \notin {"header", "files", "path", "chunks"}
    BY <1>5 DEF NoParent, NoChunk, manifest, work
  <2>2. FaultOnlyOfEntry'
    BY <1>5, NoParentFault, NoChunkFault
  <2>3. QED
    BY <2>1, <2>2 DEF FaultInv
<1>6. CASE HeaderFails
  <2>1. /\ UNCHANGED <<bundles, directories, chunks, new_chunks, temp_name>>
        /\ pc = "header" /\ pc' \in {"null", "aborted"}
    BY <1>6 DEF HeaderFails, manifest, work
  <2>2. QED
    BY <2>1 DEF FaultInv, FaultOnlyOfEntry
<1>7. CASE Rooted \/ AddFile \/ Finish
  <2>1. /\ UNCHANGED <<bundles, directories, chunks, new_chunks, entry>>
        /\ \/ pc = "path" /\ pc' = "chunks"
           \/ pc = "chunks" /\ pc' = "files"
           \/ pc' = "done"
    BY <1>7 DEF Rooted, AddFile, Finish, MoreChunks, manifest, work
  <2>2. Offered' <=> Offered
    BY <2>1 DEF Offered
  <2>3. QED
    BY <2>1, <2>2 DEF FaultInv, FaultOnlyOfEntry, Failed
<1>8. CASE Ended \/ UNCHANGED vars
  <2>1. UNCHANGED vars
    BY <1>8 DEF Ended
  <2>2. FaultOnlyOfEntry'
    <3>1. UNCHANGED <<bundles, directories, languages, entry, temp_name, pc>>
      BY <2>1 DEF vars
    <3>2. Sound(entry') <=> Sound(entry)
      BY <3>1
    <3>3. QED
      BY <3>1, <3>2, SoundStays DEF FaultInv, FaultOnlyOfEntry
  <2>3. OnTheWay' <=> OnTheWay
    BY <2>1 DEF vars, OnTheWay, IsChain, FromPath, PathOf
  <2>4. QED
    BY <2>1, <2>2, <2>3 DEF vars, FaultInv, Offered
<1>9. QED
  BY <1>1, <1>2, <1>3, <1>4, <1>5, <1>6, <1>7, <1>8 DEF Next, Step

\* An entry whose languages, directories, chunks and hash type are in the
\* manifest and whose path fits is never given up, in whatever order the tables
\* list them and whatever was parsed before it (rman.c:260-297).
THEOREM FaultOnlyOfEntryAlways == Spec => []FaultOnlyOfEntry
<1>1. Init => FaultInv
  BY EmptySeq DEF Init, FaultInv, FaultOnlyOfEntry
<1>2. FaultInv => FaultOnlyOfEntry
  BY DEF FaultInv
<1>3. QED
  BY <1>1, <1>2, FaultNext, PTL DEF Spec
=============================================================================
