----------------------------- MODULE Chunks_proofs -----------------------------
(***************************************************************************)
(* Theorems about the chunks of every linked graph: what a chunk needs of  *)
(* the others is found and no chunk waits for itself (ChunkLinks), its     *)
(* live parts are printed once and in order (PartOrder), and its name      *)
(* tells apart all that it can load (Chunks).                              *)
(***************************************************************************)
EXTENDS Chunks, TreeShaking_proofs

(* The links only read what the two walks have left, so that all that      *)
(* holds of the walks still holds.                                         *)
LEMMA LinksAreWalks == LinksSpec => Spec
<1>1. LinksInit => Init
  BY DEF LinksInit
<1>2. [LinksNext]_<<vars, linkVars>> => [Next]_vars
  BY DEF LinksNext, ComputeChunks, ComputeCrossChunkDependencies
<1>. QED BY <1>1, <1>2, PTL DEF LinksSpec, Spec

(* The entry points are the user's and the targets of dynamic imports.     *)
LEMMA EntriesAre ==
    ASSUME graph \in Graphs, entries \in EntryPoints(graph)
    PROVE  ElementsOf(entries) = ElementsOf(graph.entries) \cup DynamicTargets(graph)
<1>. DEFINE dyn == DynamicTargets(graph) \ ElementsOf(graph.entries)
            n == Len(graph.entries)
            m == Cardinality(dyn)
<1>1. n \in Nat /\ m \in Nat
  <2>1. WellFormed(graph)
    BY GraphAssumption
  <2>2. n \in Nat
    BY <2>1 DEF WellFormed
  <2>3. dyn \subseteq Files
    BY DEF DynamicTargets
  <2>4. IsFiniteSet(dyn)
    BY <2>3, GraphAssumption, FS_Subset
  <2>. QED BY <2>2, <2>4, FS_CardinalityType
<1>2. /\ entries \in [1..(n + m) -> Files]
      /\ \A i \in 1..n : entries[i] = graph.entries[i]
      /\ {entries[i] : i \in (n + 1)..(n + m)} = dyn
  BY DEF EntryPoints
<1>. HIDE DEF dyn, n, m
<1>3. Len(entries) = n + m
  BY <1>1, <1>2
<1>4. ElementsOf(entries) = {entries[i] : i \in 1..n} \cup {entries[i] : i \in (n + 1)..(n + m)}
  <2>1. ElementsOf(entries) = {entries[i] : i \in 1..(n + m)}
    BY <1>3 DEF ElementsOf
  <2>2. 1..(n + m) = 1..n \cup (n + 1)..(n + m)
    BY <1>1
  <2>. QED BY <2>1, <2>2
<1>5. {entries[i] : i \in 1..n} = ElementsOf(graph.entries)
  BY <1>2 DEF ElementsOf, n
<1>. QED BY <1>2, <1>4, <1>5 DEF dyn

-----------------------------------------------------------------------------
(* What holds of the walks when the chunks are computed.                   *)

Walked ==
    /\ ShakeTypeOK
    /\ LiveIsClosed
    /\ EnteredInv
    /\ EntryBitsAreReachability
    /\ phase = "done"
    /\ entries \in EntryPoints(graph)

ChunkKeys ==
    {bits[f] : f \in LiveJs}
        \cup {{i} : i \in {i \in 1..Len(entries) : graph.file[entries[i]].kind = "js"}}

(* A live file that declares a live part is a JavaScript file, and all     *)
(* that the part depends on is declared by live parts of files that the    *)
(* file leads to.                                                          *)
LEMMA UsesAreLive ==
    ASSUME Walked, NEW q \in liveParts, NEW d \in ElementsOf(Part(q[1], q[2]).dependencies)
    PROVE  /\ q[1] \in LiveJs
           /\ <<d.file, d.part>> \in liveParts
           /\ d.file \in LiveJs
           /\ d.file \in LeadsTo(q[1])
<1>1. /\ graph \in Graphs /\ liveParts \subseteq GraphParts /\ liveFiles \subseteq Files
      /\ Closed(liveFiles, liveParts)
  BY DEF Walked, ShakeTypeOK, LiveIsClosed
<1>2. ASSUME NEW x \in liveParts PROVE x[1] \in LiveJs /\ x[1] \in Files /\ x[2] \in PartsOf(x[1])
  <2>1. x[1] \in Files /\ x[2] \in PartsOf(x[1])
    BY <1>1 DEF GraphParts
  <2>2. x[1] \in liveFiles
    BY <1>1 DEF Closed, NeedsOfPart
  <2>3. graph.file[x[1]].kind = "js"
    BY <1>1, <2>1, GraphFacts
  <2>. QED BY <2>1, <2>2, <2>3 DEF LiveJs
<1>3. PICK i \in 1..Len(Part(q[1], q[2]).dependencies) : d = Part(q[1], q[2]).dependencies[i]
  BY DEF ElementsOf
<1>4. <<d.file, d.part>> \in liveParts
  BY <1>1, <1>3 DEF Closed, NeedsOfPart
<1>5. d.file \in LiveJs
  BY <1>2, <1>4
<1>6. d.file \in LeadsTo(q[1])
  BY <1>1, <1>2, <1>3, <1>5, LeadsToIs DEF UseAt, LiveJs
<1>. QED BY <1>2, <1>4, <1>5, <1>6

(* What a chunk needs is declared by a live part of a JavaScript file, and *)
(* that file has the bits of the chunk.                                    *)
LEMMA ImportsAreLive ==
    ASSUME Walked, NEW c, NEW s \in ImportsByChunk(c)
    PROVE  s \in liveParts /\ s[1] \in LiveJs /\ c \subseteq bits[s[1]]
<1>0. graph \in Graphs /\ liveFiles \subseteq Files /\ entries \in Seq(Files)
  BY DEF Walked, ShakeTypeOK
<1>1. ASSUME NEW q \in ChunkParts(c), s \in UsedSymbols(q[1], q[2])
      PROVE  s \in liveParts /\ s[1] \in LiveJs /\ c \subseteq bits[s[1]]
  <2>1. q \in liveParts /\ q[1] \in LiveJs /\ bits[q[1]] = c
    BY DEF ChunkParts, FilesOf
  <2>2. PICK d \in ElementsOf(Part(q[1], q[2]).dependencies) : s = <<d.file, d.part>>
    BY <1>1 DEF UsedSymbols
  <2>3. s \in liveParts /\ s[1] \in LiveJs /\ s[1] \in LeadsTo(q[1])
    BY <2>1, <2>2, UsesAreLive
  <2>4. q[1] \in Files
    BY <1>0, <2>1 DEF LiveJs
  <2>. QED BY <2>1, <2>3, <2>4, BitsAreClosed DEF Walked
<1>2. ASSUME NEW i \in EntriesOf(c), s \in EntrySymbols(graph, entries[i])
      PROVE  s \in liveParts /\ s[1] \in LiveJs /\ c \subseteq bits[s[1]]
  <2>. DEFINE f == entries[i]
  <2>1. i \in 1..Len(entries) /\ f \in Files /\ graph.file[f].kind = "js" /\ c = {i}
    BY <1>0 DEF EntriesOf
  <2>2. f \in ElementsOf(entries)
    BY <2>1 DEF ElementsOf
  <2>3. f \in ElementsOf(graph.entries) \cup DynamicTargets(graph)
    BY <1>0, <2>2, EntriesAre DEF Walked
  <2>4. Linked(graph)
    BY <1>0, LinkedAssumption
  <2>. HIDE DEF f
  <2>5. PICK p \in 1..Len(graph.file[f].parts) :
            /\ ~graph.file[f].parts[p].removable
            /\ EntrySymbols(graph, f) \subseteq
                   {<<d.file, d.part>> : d \in ElementsOf(graph.file[f].parts[p].dependencies)}
    BY <2>1, <2>3, <2>4 DEF Linked
  <2>6. Closed(liveFiles, liveParts)
    BY DEF Walked, LiveIsClosed
  <2>7. f \in liveFiles /\ <<f, p>> \in liveParts
    BY <2>1, <2>2, <2>5, <2>6 DEF Closed, NeedsOfFile, Kept, Part, PartsOf
  <2>8. PICK d \in ElementsOf(Part(f, p).dependencies) : s = <<d.file, d.part>>
    BY <1>2, <2>5 DEF Part, f
  <2>9. s \in liveParts /\ s[1] \in LiveJs /\ s[1] \in LeadsTo(f)
    <3>. DEFINE q == <<f, p>>
    <3>1. q \in liveParts /\ q[1] = f /\ q[2] = p
      BY <2>7
    <3>. HIDE DEF q
    <3>. QED BY <2>8, <3>1, UsesAreLive
  <2>10. i \in bits[f]
    BY <2>1, <2>7, BitsAreClosed DEF Walked, f
  <2>. QED BY <2>1, <2>9, <2>10, BitsAreClosed DEF Walked
<1>3. \/ \E q \in ChunkParts(c) : s \in UsedSymbols(q[1], q[2])
      \/ \E i \in EntriesOf(c) : s \in EntrySymbols(graph, entries[i])
  BY DEF ImportsByChunk
<1>. QED BY <1>1, <1>2, <1>3

(* It has one owner, the chunk of that file.                               *)
LEMMA OwnersAre ==
    ASSUME chunks = ChunkKeys, NEW s \in liveParts, s[1] \in LiveJs
    PROVE  bits[s[1]] \in chunks /\ Owners(s) = {bits[s[1]]}
<1>1. bits[s[1]] \in chunks
  BY DEF ChunkKeys
<1>. QED BY <1>1 DEF Owners, FilesOf

(* A chunk imports the chunks of more entry points only.                   *)
LEMMA ImportsGoUp ==
    ASSUME Walked, chunks = ChunkKeys, NEW c \in chunks, NEW o \in ImportedChunks(c)
    PROVE  c \subseteq o /\ c # o
<1>1. o \in chunks /\ o # c
  BY DEF ImportedChunks
<1>2. CASE ImportsFrom(c, o) # {}
  <2>1. PICK s \in ImportsByChunk(c) : o \in Owners(s)
    BY <1>2 DEF ImportsFrom
  <2>2. s \in liveParts /\ s[1] \in LiveJs /\ c \subseteq bits[s[1]]
    BY <2>1, ImportsAreLive
  <2>3. o = bits[s[1]]
    BY <2>1, <2>2, OwnersAre
  <2>. QED BY <1>1, <2>2, <2>3
<1>3. CASE EntriesOf(c) \cap o # {}
  BY <1>1, <1>3 DEF EntriesOf
<1>. QED BY <1>2, <1>3 DEF ImportedChunks

(* So that a set of chunks has one that imports none of the others: one of *)
(* the most entry points.                                                  *)
LEMMA SomeChunkIsFirst ==
    ASSUME Walked, chunks = ChunkKeys, NEW S \in SUBSET chunks, S # {}
    PROVE  \E c \in S : S \cap ImportedChunks(c) = {}
<1>. DEFINE B == 1..Len(entries)
            n == Cardinality(B)
            T == {n - Cardinality(c) : c \in S}
<1>1. IsFiniteSet(B) /\ n \in Nat
  <2>1. Len(entries) \in Nat
    BY DEF Walked, ShakeTypeOK
  <2>2. IsFiniteSet(B)
    BY <2>1, FS_Interval
  <2>. QED BY <2>2, FS_CardinalityType
<1>2. \A c \in chunks : c \subseteq B
  <2>1. \A f \in Files : bits[f] \subseteq B
    BY DEF Walked, EntryBitsAreReachability
  <2>2. LiveJs \subseteq Files
    BY DEF Walked, ShakeTypeOK, LiveJs
  <2>. QED BY <2>1, <2>2 DEF ChunkKeys
<1>. HIDE DEF B
<1>3. \A c \in chunks : IsFiniteSet(c) /\ Cardinality(c) \in Nat /\ Cardinality(c) <= n
  BY <1>1, <1>2, FS_Subset, FS_CardinalityType
<1>. HIDE DEF n
<1>4. T \in SUBSET Nat /\ T # {}
  BY <1>1, <1>3
<1>5. PICK k \in T : \A j \in T : k <= j
  <2>. HIDE DEF T
  <2>. QED BY <1>4, NatMin
<1>6. PICK c \in S : k = n - Cardinality(c)
  OBVIOUS
<1>7. ASSUME NEW o \in S \cap ImportedChunks(c) PROVE FALSE
  <2>1. c \in chunks /\ o \in chunks /\ c \subseteq o /\ c # o
    BY <1>7, ImportsGoUp
  <2>2. Cardinality(c) <= Cardinality(o) /\ Cardinality(c) # Cardinality(o)
    BY <1>3, <2>1, FS_Subset
  <2>3. n - Cardinality(c) <= n - Cardinality(o)
    BY <1>5, <1>6, <1>7
  <2>. QED BY <1>1, <1>3, <2>1, <2>2, <2>3
<1>. QED BY <1>7

-----------------------------------------------------------------------------
(* What compute_cross_chunk_dependencies leaves behind.                    *)

LinkInv ==
    /\ entries \in EntryPoints(graph)
    /\ stage \in {"none", "computed", "crossed"}
    /\ stage # "none" => phase = "done" /\ chunks = ChunkKeys
    /\ stage = "crossed" =>
           /\ graph.codeSplitting
           /\ imports = [c \in chunks |-> [o \in ImportedChunks(c) |-> ImportsFrom(c, o)]]
           /\ exports = [c \in chunks |-> UNION {ImportsFrom(o, c) : o \in chunks}]
           /\ dynamic = [c \in chunks |-> DynamicImports(c)]

(* A dynamic import of an internal file leads to an entry chunk.           *)
LEMMA DynamicImportsAreEntries ==
    ASSUME Walked, chunks = ChunkKeys, graph.codeSplitting,
           NEW c \in chunks, NEW o \in DynamicImports(c)
    PROVE  o \in chunks /\ EntriesOf(o) # {}
<1>0. graph \in Graphs /\ liveFiles \subseteq Files /\ entries \in Seq(Files)
      /\ liveParts \subseteq GraphParts
  BY DEF Walked, ShakeTypeOK
<1>1. PICK q \in ChunkParts(c) : \E r \in ElementsOf(Part(q[1], q[2]).records) :
          /\ Record(q[1], r).kind = "dynamic" /\ Record(q[1], r).target # NoFile
          /\ o = EntryChunk(Record(q[1], r).target)
  BY DEF DynamicImports, DynamicallyImported
<1>2. PICK r \in ElementsOf(Part(q[1], q[2]).records) :
          /\ Record(q[1], r).kind = "dynamic" /\ Record(q[1], r).target # NoFile
          /\ o = EntryChunk(Record(q[1], r).target)
  BY <1>1
<1>. DEFINE t == Record(q[1], r).target
<1>3. q[1] \in Files /\ q[2] \in PartsOf(q[1]) /\ graph.file[q[1]].kind = "js"
  BY <1>0 DEF ChunkParts, FilesOf, LiveJs, GraphParts
<1>4. r \in RecordsOf(q[1])
  BY <1>0, <1>2, <1>3, GraphFacts DEF ElementsOf, RecordAt
<1>5. t \in Files /\ t # NoFile
  BY <1>0, <1>2, <1>3, <1>4, GraphFacts
<1>6. t \in DynamicTargets(graph)
  <2>1. /\ r \in 1..Len(graph.file[q[1]].records)
        /\ graph.file[q[1]].records[r].kind = "dynamic"
        /\ graph.file[q[1]].records[r].target = t
    BY <1>2, <1>4 DEF RecordsOf, Record
  <2>. QED BY <1>3, <1>5, <2>1 DEF DynamicTargets
<1>7. graph.file[t].kind = "js"
  <2>1. Linked(graph)
    BY <1>0, LinkedAssumption
  <2>. QED BY <1>2, <1>3, <1>4, <1>5, <2>1 DEF Linked, RecordsOf, Record
<1>. HIDE DEF t
<1>8. t \in ElementsOf(entries)
  BY <1>0, <1>6, EntriesAre DEF Walked
<1>9. PICK i \in 1..Len(entries) : entries[i] = t /\ o = {i}
  <2>1. \E i \in 1..Len(entries) : entries[i] = t
    BY <1>8 DEF ElementsOf
  <2>. QED BY <1>2, <2>1 DEF EntryChunk, t
<1>10. o \in chunks
  BY <1>7, <1>9 DEF ChunkKeys
<1>. QED BY <1>7, <1>9, <1>10 DEF EntriesOf

(* What the links give a chunk is all it needs.                            *)
LEMMA ChunksLoad == Walked /\ LinkInv => ChunksCanBeLoaded
<1>. SUFFICES ASSUME Walked, LinkInv, stage = "crossed" PROVE ChunksCanBeLoaded
  BY DEF ChunksCanBeLoaded, CrossChunkImportsResolve, StaticImportsAreAcyclic
<1>1. /\ chunks = ChunkKeys /\ graph.codeSplitting
      /\ imports = [c \in chunks |-> [o \in ImportedChunks(c) |-> ImportsFrom(c, o)]]
      /\ exports = [c \in chunks |-> UNION {ImportsFrom(o, c) : o \in chunks}]
      /\ dynamic = [c \in chunks |-> DynamicImports(c)]
  BY DEF LinkInv
<1>2. \A c \in chunks : DOMAIN imports[c] = ImportedChunks(c)
  BY <1>1
<1>3. ASSUME NEW c \in chunks, NEW s \in ImportsByChunk(c)
      PROVE  \E o \in chunks : /\ Owners(s) = {o}
                               /\ o # c => /\ o \in DOMAIN imports[c]
                                           /\ s \in imports[c][o]
                                           /\ s \in exports[o]
  <2>. DEFINE o == bits[s[1]]
  <2>1. s \in liveParts /\ s[1] \in LiveJs
    BY <1>3, ImportsAreLive
  <2>2. o \in chunks /\ Owners(s) = {o}
    BY <1>1, <2>1, OwnersAre
  <2>. HIDE DEF o
  <2>3. ASSUME o # c PROVE o \in DOMAIN imports[c] /\ s \in imports[c][o] /\ s \in exports[o]
    <3>1. s \in ImportsFrom(c, o)
      BY <2>2, <2>3 DEF ImportsFrom
    <3>2. o \in ImportedChunks(c)
      BY <2>2, <2>3, <3>1 DEF ImportedChunks
    <3>3. imports[c][o] = ImportsFrom(c, o)
      BY <1>1, <3>2
    <3>4. s \in exports[o]
      BY <1>1, <2>2, <3>1
    <3>. QED BY <1>2, <3>1, <3>2, <3>3, <3>4
  <2>. QED BY <2>2, <2>3
<1>4. ASSUME NEW c \in chunks, NEW o \in dynamic[c] PROVE o \in chunks /\ EntriesOf(o) # {}
  <2>1. o \in DynamicImports(c)
    BY <1>1
  <2>. QED BY <1>1, <2>1, DynamicImportsAreEntries
<1>5. ASSUME NEW S \in (SUBSET chunks) \ {{}} PROVE \E c \in S : S \cap DOMAIN imports[c] = {}
  <2>1. PICK c \in S : S \cap ImportedChunks(c) = {}
    BY <1>1, SomeChunkIsFirst
  <2>. QED BY <1>2, <2>1
<1>6. CrossChunkImportsResolve
  BY <1>3, <1>4 DEF CrossChunkImportsResolve
<1>7. StaticImportsAreAcyclic
  BY <1>5 DEF StaticImportsAreAcyclic
<1>. QED BY <1>6, <1>7 DEF ChunksCanBeLoaded

(* What is computed from the graph, the walks and the chunks is the same   *)
(* as long as they are.                                                    *)
LEMMA LinksStay ==
    ASSUME UNCHANGED <<vars, chunks>>
    PROVE  /\ ChunkKeys' = ChunkKeys
           /\ \A c, o : ImportsFrom(c, o)' = ImportsFrom(c, o)
           /\ \A c : ImportedChunks(c)' = ImportedChunks(c)
           /\ \A c : DynamicImports(c)' = DynamicImports(c)
<1>0. /\ graph' = graph /\ entries' = entries /\ liveFiles' = liveFiles
      /\ liveParts' = liveParts /\ bits' = bits /\ chunks' = chunks
  BY DEF vars
<1>1. LiveJs' = LiveJs
  BY <1>0 DEF LiveJs
<1>2. \A c : FilesOf(c)' = FilesOf(c)
  BY <1>0, <1>1 DEF FilesOf
<1>3. \A c : ChunkParts(c)' = ChunkParts(c)
  BY <1>0, <1>2 DEF ChunkParts
<1>4. \A s : Owners(s)' = Owners(s)
  BY <1>0, <1>2 DEF Owners
<1>5. \A f, p : UsedSymbols(f, p)' = UsedSymbols(f, p)
  BY <1>0 DEF UsedSymbols, Part
<1>6. \A c : EntriesOf(c)' = EntriesOf(c)
  BY <1>0 DEF EntriesOf
<1>7. ChunkKeys' = ChunkKeys
  BY <1>0, <1>1 DEF ChunkKeys
<1>8. \A c : ImportsByChunk(c)' = ImportsByChunk(c)
  BY <1>0, <1>3, <1>5, <1>6 DEF ImportsByChunk, EntrySymbols
<1>9. \A c, o : ImportsFrom(c, o)' = ImportsFrom(c, o)
  BY <1>4, <1>8 DEF ImportsFrom
<1>10. \A c : ImportedChunks(c)' = ImportedChunks(c)
  BY <1>0, <1>6, <1>9 DEF ImportedChunks
<1>11. \A c : DynamicImports(c)' = DynamicImports(c)
  <2>1. \A c : DynamicallyImported(c)' = DynamicallyImported(c)
    BY <1>0, <1>3 DEF DynamicallyImported, Record, Part
  <2>2. \A f : EntryChunk(f)' = EntryChunk(f)
    BY <1>0, Zenon DEF EntryChunk
  <2>. QED BY <2>1, <2>2 DEF DynamicImports
<1>. QED BY <1>7, <1>9, <1>10, <1>11

(* The links are computed from what the walks have left.                   *)
LEMMA LinksCorrect == LinksSpec => []LinkInv
<1>1. LinksInit => LinkInv
  BY DEF LinksInit, Init, LinkInv
<1>2. LinkInv /\ [LinksNext]_<<vars, linkVars>> => LinkInv'
  <2>. SUFFICES ASSUME LinkInv, [LinksNext]_<<vars, linkVars>> PROVE LinkInv'
    OBVIOUS
  <2>1. (entries \in EntryPoints(graph))'
    <3>1. entries' = entries /\ graph' = graph
      BY DEF LinksNext, ComputeChunks, ComputeCrossChunkDependencies, Next, MarkPartLive,
             MarkFileLive, ScanOnePart, FollowOneRecord, StartSplitting, MarkFileReachable,
             ReachOneRecord, ReachOnePart, ReachOneUse, FinishSplitting, vars
    <3>. QED BY <3>1 DEF LinkInv
  <2>2. CASE Next /\ UNCHANGED linkVars
    <3>1. phase # "done"
      BY <2>2 DEF Next, MarkPartLive, MarkFileLive, ScanOnePart, FollowOneRecord, StartSplitting,
                  MarkFileReachable, ReachOneRecord, ReachOnePart, ReachOneUse, FinishSplitting,
                  Shaking, Splitting
    <3>2. stage = "none" /\ stage' = "none"
      BY <2>2, <3>1 DEF LinkInv, linkVars
    <3>. QED BY <2>1, <3>2 DEF LinkInv
  <2>3. CASE ComputeChunks
    <3>1. stage' = "computed" /\ phase' = "done" /\ UNCHANGED vars
      BY <2>3 DEF ComputeChunks, vars
    <3>2. chunks' = ChunkKeys
      BY <2>3 DEF ComputeChunks, ChunkKeys
    <3>3. ChunkKeys' = ChunkKeys
      BY <3>1 DEF vars, ChunkKeys, LiveJs
    <3>. QED BY <2>1, <3>1, <3>2, <3>3 DEF LinkInv
  <2>4. CASE ComputeCrossChunkDependencies \/ UNCHANGED <<vars, linkVars>>
    <3>1. UNCHANGED <<vars, chunks>> /\ UNCHANGED <<graph, phase>>
      BY <2>4 DEF ComputeCrossChunkDependencies, vars, linkVars
    <3>2. stage' \in {"none", "computed", "crossed"}
      BY <2>4 DEF ComputeCrossChunkDependencies, linkVars, LinkInv
    <3>3. stage' # "none" => phase' = "done" /\ chunks' = ChunkKeys'
      BY <2>4, <3>1, LinksStay DEF ComputeCrossChunkDependencies, linkVars, LinkInv
    <3>4. ASSUME stage' = "crossed"
          PROVE  /\ graph.codeSplitting
                 /\ imports' = [c \in chunks |-> [o \in ImportedChunks(c) |-> ImportsFrom(c, o)]]
                 /\ exports' = [c \in chunks |-> UNION {ImportsFrom(o, c) : o \in chunks}]
                 /\ dynamic' = [c \in chunks |-> DynamicImports(c)]
      BY <2>4, <3>4 DEF ComputeCrossChunkDependencies, linkVars, LinkInv
    <3>5. /\ \A c, o : ImportsFrom(c, o)' = ImportsFrom(c, o)
          /\ \A c : ImportedChunks(c)' = ImportedChunks(c)
          /\ \A c : DynamicImports(c)' = DynamicImports(c)
      BY <3>1, LinksStay
    <3>6. (stage = "crossed" =>
           /\ graph.codeSplitting
           /\ imports = [c \in chunks |-> [o \in ImportedChunks(c) |-> ImportsFrom(c, o)]]
           /\ exports = [c \in chunks |-> UNION {ImportsFrom(o, c) : o \in chunks}]
           /\ dynamic = [c \in chunks |-> DynamicImports(c)])'
      BY <3>1, <3>4, <3>5
    <3>. QED BY <2>1, <3>2, <3>3, <3>6 DEF LinkInv
  <2>. QED BY <2>2, <2>3, <2>4 DEF LinksNext
<1>. QED BY <1>1, <1>2, PTL DEF LinksSpec

(* In every linked graph, whatever code a chunk uses of others is declared *)
(* by exactly one chunk, which exports it and from which it is imported, a *)
(* dynamic import meets an entry chunk, and no circle of static imports    *)
(* can arise (compute_cross_chunk_dependencies): an import only goes to    *)
(* chunks of more entry points.                                            *)
THEOREM CrossChunkLinksHold == LinksSpec => []ChunksCanBeLoaded
<1>1. LinksSpec => [](ShakeTypeOK /\ LiveIsClosed /\ EnteredInv /\ EntryBitsAreReachability)
  BY LinksAreWalks, ShakeTypeCorrect, NothingNeededIsShaken, EnteredCorrect,
     BitsAndDistancesAreExact, PTL
<1>2. /\ ShakeTypeOK /\ LiveIsClosed /\ EnteredInv /\ EntryBitsAreReachability /\ LinkInv
      => ChunksCanBeLoaded
  <2>1. CASE stage = "crossed"
    BY <2>1, ChunksLoad DEF Walked, LinkInv
  <2>2. CASE stage # "crossed"
    BY <2>2 DEF ChunksCanBeLoaded, CrossChunkImportsResolve, StaticImportsAreAcyclic
  <2>. QED BY <2>1, <2>2
<1>. QED BY <1>1, <1>2, LinksCorrect, PTL

-----------------------------------------------------------------------------
(* Sequences                                                               *)

(* The last element of a list, and the others.                             *)
LEMMA FrontAndLast ==
    ASSUME NEW S, NEW s \in Seq(S), s # <<>>
    PROVE  /\ Len(s) \in Nat \ {0} /\ Last(s) = s[Len(s)] /\ Last(s) \in S
           /\ Front(s) \in Seq(S) /\ Len(Front(s)) = Len(s) - 1
           /\ \A i \in 1..(Len(s) - 1) : Front(s)[i] = s[i]
           /\ Range(s) = Range(Front(s)) \cup {Last(s)}
           /\ IsInjective(s) => IsInjective(Front(s)) /\ Last(s) \notin Range(Front(s))
<1>1. Len(s) \in Nat \ {0}
  BY EmptySeq, LenProperties
<1>2. Front(s) = [i \in 1..(Len(s) - 1) |-> s[i]]
  BY <1>1 DEF Front
<1>3. /\ Last(s) = s[Len(s)] /\ Last(s) \in S
      /\ Front(s) \in Seq(S) /\ Len(Front(s)) = Len(s) - 1
      /\ DOMAIN Front(s) = 1..(Len(s) - 1) /\ DOMAIN s = 1..Len(s)
      /\ \A i \in 1..(Len(s) - 1) : Front(s)[i] = s[i]
  BY <1>1, <1>2 DEF Last
<1>4. 1..Len(s) = 1..(Len(s) - 1) \cup {Len(s)} /\ Len(s) \notin 1..(Len(s) - 1)
  BY <1>1
<1>. QED BY <1>1, <1>3, <1>4 DEF Range, IsInjective

(* A list with one element more.                                           *)
LEMMA Appended ==
    ASSUME NEW S, NEW s \in Seq(S), NEW x \in S
    PROVE  /\ Append(s, x) \in Seq(S) /\ Append(s, x) # <<>>
           /\ Len(Append(s, x)) = Len(s) + 1 /\ Len(s) \in Nat
           /\ \A i \in 1..Len(s) : Append(s, x)[i] = s[i]
           /\ Append(s, x)[Len(s) + 1] = x
           /\ DOMAIN Append(s, x) = 1..(Len(s) + 1) /\ DOMAIN s = 1..Len(s)
           /\ Range(Append(s, x)) = Range(s) \cup {x}
           /\ IsInjective(s) /\ x \notin Range(s) => IsInjective(Append(s, x))
<1>1. /\ Append(s, x) \in Seq(S) /\ Append(s, x) # <<>>
      /\ Len(Append(s, x)) = Len(s) + 1 /\ Len(s) \in Nat
      /\ \A i \in 1..Len(s) : Append(s, x)[i] = s[i]
      /\ Append(s, x)[Len(s) + 1] = x
  BY AppendProperties, LenProperties
<1>2. DOMAIN Append(s, x) = 1..(Len(s) + 1) /\ DOMAIN s = 1..Len(s)
  BY <1>1, LenProperties
<1>3. 1..(Len(s) + 1) = 1..Len(s) \cup {Len(s) + 1}
  BY <1>1
<1>. QED BY <1>1, <1>2, <1>3 DEF Range, IsInjective

(* Two lists one behind the other.                                         *)
LEMMA Concatenated ==
    ASSUME NEW S, NEW a \in Seq(S), NEW b \in Seq(S)
    PROVE  /\ a \o b \in Seq(S) /\ Len(a) \in Nat /\ Len(b) \in Nat
           /\ Len(a \o b) = Len(a) + Len(b)
           /\ \A i \in 1..Len(a) : (a \o b)[i] = a[i]
           /\ \A i \in 1..Len(b) : (a \o b)[Len(a) + i] = b[i]
           /\ Range(a \o b) = Range(a) \cup Range(b)
           /\ IsInjective(a) /\ IsInjective(b) /\ Range(a) \cap Range(b) = {}
              => IsInjective(a \o b)
<1>1. /\ a \o b \in Seq(S)
      /\ Len(a \o b) = Len(a) + Len(b)
      /\ \A i \in 1..(Len(a) + Len(b)) : (a \o b)[i] = IF i <= Len(a) THEN a[i] ELSE b[i - Len(a)]
  BY ConcatProperties
<1>2. /\ Len(a) \in Nat /\ Len(b) \in Nat
      /\ DOMAIN a = 1..Len(a) /\ DOMAIN b = 1..Len(b) /\ DOMAIN (a \o b) = 1..(Len(a) + Len(b))
  BY <1>1, LenProperties
<1>3. /\ \A i \in 1..Len(a) : i \in DOMAIN (a \o b) /\ (a \o b)[i] = a[i]
      /\ \A i \in 1..Len(b) : Len(a) + i \in DOMAIN (a \o b) /\ (a \o b)[Len(a) + i] = b[i]
  BY <1>1, <1>2
<1>4. \A k \in DOMAIN (a \o b) : \/ k \in 1..Len(a)
                                  \/ (k - Len(a) \in 1..Len(b) /\ k = Len(a) + (k - Len(a)))
  BY <1>2
<1>5. Range(a \o b) = Range(a) \cup Range(b)
  <2>. DEFINE c == a \o b
  <2>1. ASSUME NEW x \in Range(c) PROVE x \in Range(a) \cup Range(b)
    <3>1. PICK k \in DOMAIN c : x = c[k]
      BY DEF Range
    <3>. QED BY <1>2, <1>3, <1>4, <3>1 DEF Range
  <2>2. ASSUME NEW x \in Range(a) PROVE x \in Range(c)
    BY <1>2, <1>3, <2>2 DEF Range
  <2>3. ASSUME NEW x \in Range(b) PROVE x \in Range(c)
    BY <1>2, <1>3, <2>3 DEF Range
  <2>. QED BY <2>1, <2>2, <2>3
<1>6. ASSUME IsInjective(a), IsInjective(b), Range(a) \cap Range(b) = {},
             NEW k \in DOMAIN (a \o b), NEW m \in DOMAIN (a \o b), (a \o b)[k] = (a \o b)[m]
      PROVE  k = m
  <2>1. CASE k \in 1..Len(a) /\ m \in 1..Len(a)
    BY <1>2, <1>3, <1>6, <2>1 DEF IsInjective
  <2>2. CASE k \in 1..Len(a) /\ m - Len(a) \in 1..Len(b) /\ m = Len(a) + (m - Len(a))
    BY <1>2, <1>3, <1>6, <2>2 DEF Range
  <2>3. CASE m \in 1..Len(a) /\ k - Len(a) \in 1..Len(b) /\ k = Len(a) + (k - Len(a))
    BY <1>2, <1>3, <1>6, <2>3 DEF Range
  <2>4. CASE /\ k - Len(a) \in 1..Len(b) /\ k = Len(a) + (k - Len(a))
             /\ m - Len(a) \in 1..Len(b) /\ m = Len(a) + (m - Len(a))
    <3>1. b[k - Len(a)] = b[m - Len(a)]
      BY <1>3, <1>6, <2>4
    <3>2. k - Len(a) = m - Len(a)
      BY <1>2, <1>6, <2>4, <3>1 DEF IsInjective
    <3>. QED BY <2>4, <3>2
  <2>. QED BY <1>4, <1>6, <2>1, <2>2, <2>3, <2>4
<1>7. IsInjective(a) /\ IsInjective(b) /\ Range(a) \cap Range(b) = {} => IsInjective(a \o b)
  BY <1>6 DEF IsInjective
<1>. QED BY <1>1, <1>2, <1>3, <1>5, <1>7

-----------------------------------------------------------------------------
(* The order of the parts only reads what the links have left, and the     *)
(* names what both have left.                                              *)
LEMMA ChunksAreLinks == ChunksSpec => LinksSpec
<1>1. ChunksInit => LinksInit
  BY DEF ChunksInit
<1>2. [ChunksNext]_<<vars, linkVars, orderVars, nameVars>> => [LinksNext]_<<vars, linkVars>>
  BY DEF ChunksNext, LinksNext
<1>. QED BY <1>1, <1>2, PTL DEF ChunksSpec, LinksSpec

Calls == [file : Files, part : Nat \ {0}]

(* The visits that are over.                                               *)
Left == visited \ {calls[n].file : n \in 1..Len(calls)}

AllStatements(f) == StatementsUpTo(f, Len(graph.file[f].parts))

(* Only visited files have calls, a chunk is at work while files are       *)
(* visited, and no index is out of range.                                  *)
OrderTypeOK ==
    /\ visited \subseteq Files
    /\ calls \in Seq(Calls)
    /\ \A n \in 1..Len(calls) :
           /\ calls[n].file \in visited
           /\ graph.file[calls[n].file].kind = "js"
           /\ calls[n].part \in 1..(Len(graph.file[calls[n].file].parts) + 1)
    /\ prefix \in Seq(GraphParts) /\ parts \in Seq(GraphParts)
    /\ visited = {} => parts = <<>> /\ prefix = <<>>
    /\ visited # {} => /\ stage = "computed" /\ Runtime \in visited
                       /\ chunk \in chunks \ DOMAIN order
    /\ DOMAIN order \subseteq chunks
    /\ stage = "none" => order = <<>>

(* A file is entered once, and each call leads to the calls above it.      *)
StackInv ==
    \A m, n \in 1..Len(calls) : m < n =>
        calls[m].file # calls[n].file /\ calls[n].file \in Reached({calls[m].file})

(* What import statements name is visited as soon as they are passed.      *)
SeenInv ==
    /\ \A f \in Left : AllStatements(f) \subseteq visited
    /\ \A n \in 1..Len(calls) : StatementsUpTo(calls[n].file, calls[n].part - 1) \subseteq visited

(* A part at i is behind all that the imports before it evaluate, which    *)
(* has been left for good, but for circles.                                *)
Behind(f, p, i) ==
    p # NsExport => \A t \in StatementsUpTo(f, p) : f \notin Reached({t}) =>
        \A g \in Evaluated({t}) : g \in Left /\ \A j \in 1..Len(parts) : parts[j][1] = g => j < i

OrderedInv == \A i \in 1..Len(parts) : Behind(parts[i][1], parts[i][2], i)

-----------------------------------------------------------------------------

(* The files that the import statements of one part name.                  *)
PartStatements(f, p) ==
    {t \in Files : \E i \in 1..Len(Part(f, p).records) :
        LET r == RecordAt(f, p, i) IN Record(f, r).kind = "stmt" /\ Record(f, r).target = t}

(* The lists of a scanned file, as DOMAIN sees them.                       *)
LEMMA GraphLists ==
    ASSUME graph \in Graphs, NEW f \in Files
    PROVE  /\ DOMAIN graph.file[f].records = RecordsOf(f)
           /\ \A p \in PartsOf(f) : DOMAIN Part(f, p).records = 1..Len(Part(f, p).records)
<1>1. graph.file[f] \in FileShapes
  BY GraphAssumption DEF WellFormed
<1>2. graph.file[f].records \in Seq(Records) /\ graph.file[f].parts \in Seq(Parts)
  BY <1>1 DEF FileShapes
<1>3. DOMAIN graph.file[f].records = RecordsOf(f)
  BY <1>2, LenProperties DEF RecordsOf
<1>4. ASSUME NEW p \in PartsOf(f) PROVE DOMAIN Part(f, p).records = 1..Len(Part(f, p).records)
  <2>1. Part(f, p) \in Parts
    BY <1>2, ElementOfSeq DEF PartsOf, Part
  <2>2. Part(f, p).records \in Seq(Nat)
    BY <2>1 DEF Parts
  <2>. QED BY <2>2, LenProperties
<1>. QED BY <1>3, <1>4

(* Import statements grow part by part, and records stand for them.        *)
LEMMA StatementFacts ==
    ASSUME graph \in Graphs, NEW f \in Files
    PROVE  /\ StatementsUpTo(f, 0) = {}
           /\ PartsOf(f) = {} => AllStatements(f) = {}
           /\ \A p \in PartsOf(f) :
                 /\ StatementsUpTo(f, p) = StatementsUpTo(f, p - 1) \cup PartStatements(f, p)
                 /\ StatementsUpTo(f, p) \subseteq AllStatements(f)
           /\ AllStatements(f) \subseteq Targets(f)
           /\ AllStatements(f) \subseteq Files
<1>1. Len(graph.file[f].parts) \in Nat /\ PartsOf(f) = 1..Len(graph.file[f].parts)
  BY GraphFacts DEF PartsOf
<1>2. ASSUME NEW p \in 0..Len(graph.file[f].parts)
      PROVE  StatementsUpTo(f, p) = UNION {PartStatements(f, k) : k \in 1..p}
  <2>1. \A k \in 1..p : k \in PartsOf(f)
    BY <1>1
  <2>2. \A k \in 1..p : DOMAIN Part(f, k).records = 1..Len(Part(f, k).records)
    BY <2>1, GraphLists
  <2>. QED BY <2>2 DEF StatementsUpTo, PartStatements, RecordAt
<1>3. StatementsUpTo(f, 0) = {}
  BY <1>1, <1>2
<1>4. PartsOf(f) = {} => AllStatements(f) = {}
  BY <1>1, <1>2 DEF AllStatements
<1>5. ASSUME NEW p \in PartsOf(f)
      PROVE  /\ StatementsUpTo(f, p) = StatementsUpTo(f, p - 1) \cup PartStatements(f, p)
             /\ StatementsUpTo(f, p) \subseteq AllStatements(f)
  <2>1. /\ p \in 0..Len(graph.file[f].parts) /\ p - 1 \in 0..Len(graph.file[f].parts)
        /\ 1..p = 1..(p - 1) \cup {p} /\ 1..p \subseteq 1..Len(graph.file[f].parts)
        /\ Len(graph.file[f].parts) \in 0..Len(graph.file[f].parts)
    BY <1>1
  <2>. QED BY <1>2, <2>1 DEF AllStatements
<1>6. AllStatements(f) \subseteq Targets(f) /\ AllStatements(f) \subseteq Files
  <2>1. ASSUME NEW p \in PartsOf(f), NEW t \in PartStatements(f, p) PROVE t \in Targets(f) /\ t \in Files
    <3>1. PICK i \in 1..Len(Part(f, p).records) : Record(f, RecordAt(f, p, i)).target = t
      BY DEF PartStatements
    <3>2. RecordAt(f, p, i) \in DOMAIN graph.file[f].records
      BY GraphFacts, GraphLists
    <3>3. t \in Files /\ t # NoFile
      BY GraphAssumption DEF PartStatements
    <3>. QED BY <3>1, <3>2, <3>3 DEF Targets
  <2>2. AllStatements(f) = UNION {PartStatements(f, k) : k \in PartsOf(f)}
    BY <1>1, <1>2 DEF AllStatements
  <2>. QED BY <2>1, <2>2
<1>. QED BY <1>3, <1>4, <1>5, <1>6

(* Reached is reflexive, transitive and closed under records.              *)
LEMMA ReachedIs ==
    /\ \A x \in Files : x \in Reached({x})
    /\ \A x \in Files : \A y \in Reached({x}) :
          /\ y \in Files
          /\ Reached({y}) \subseteq Reached({x})
          /\ \A z \in Targets(y) \cap Files : z \in Reached({x})
BY DEF Reached

(* Evaluated is the least set closed under import statements.              *)
LEMMA EvaluatedWithin ==
    ASSUME NEW T \in SUBSET Files, NEW t \in T, \A f \in T : AllStatements(f) \subseteq T
    PROVE  Evaluated({t}) \subseteq T
BY DEF Evaluated, AllStatements

(* What does not lead back to the file at hand has run.                    *)
LEMMA WhatIsEvaluatedIsLeft ==
    ASSUME graph \in Graphs, OrderTypeOK, StackInv, SeenInv, calls # <<>>,
           NEW t \in visited, Visiting \notin Reached({t})
    PROVE  Evaluated({t}) \subseteq Left
<1>. DEFINE T == {x \in Left : Visiting \notin Reached({x})}
<1>1. Len(calls) \in Nat \ {0} /\ Visiting \in Files /\ Left \subseteq visited /\ visited \subseteq Files
  <2>1. Len(calls) \in Nat \ {0}
    BY EmptySeq, LenProperties DEF OrderTypeOK
  <2>. QED BY <2>1 DEF OrderTypeOK, Visiting, Left
<1>2. ASSUME NEW x \in visited, Visiting \notin Reached({x}) PROVE x \in T
  <2>1. ASSUME NEW m \in 1..Len(calls), x = calls[m].file PROVE FALSE
    <3>1. CASE m = Len(calls)
      BY <1>1, <1>2, <2>1, <3>1, ReachedIs DEF Visiting
    <3>2. CASE m < Len(calls)
      BY <1>1, <1>2, <2>1, <3>2 DEF Visiting, StackInv
    <3>. QED BY <1>1, <3>1, <3>2
  <2>. QED BY <1>2, <2>1 DEF Left
<1>3. ASSUME NEW x \in T PROVE AllStatements(x) \subseteq T
  <2>1. x \in Left /\ Visiting \notin Reached({x}) /\ x \in Files
    BY <1>1
  <2>2. ASSUME NEW y \in AllStatements(x) PROVE y \in T
    <3>1. y \in visited
      BY <2>1 DEF SeenInv
    <3>2. y \in Targets(x) \cap Files
      BY <2>1, StatementFacts
    <3>3. y \in Reached({x}) /\ Reached({y}) \subseteq Reached({x})
      BY <2>1, <3>2, ReachedIs
    <3>. QED BY <1>2, <2>1, <3>1, <3>3
  <2>. QED BY <2>2
<1>4. t \in T
  BY <1>2
<1>5. T \in SUBSET Files /\ T \subseteq Left
  BY <1>1
<1>. HIDE DEF T
<1>. QED BY <1>3, <1>4, <1>5, EvaluatedWithin

-----------------------------------------------------------------------------

(* The loop over the parts of a file has passed this one.                  *)
Passed(f, p) == \A n \in 1..Len(calls) : calls[n].file = f => p < calls[n].part

(* What the two lists of a chunk hold in the end ...                       *)
InParts(c, q) ==
    /\ bits[q[1]] = c /\ q \in liveParts /\ Unwrapped(q[1])
    /\ q[2] = NsExport \/ (q[1] # Runtime /\ ShouldIncludePart(q[1], q[2]))

InPrefix(c, q) ==
    /\ bits[q[1]] = c
    /\ Unwrapped(q[1]) => /\ q \in liveParts /\ q[1] = Runtime
                          /\ q[2] # NsExport /\ ShouldIncludePart(q[1], q[2])

(* ... and what they hold of it so far, each once.                         *)
PartsOK(c) ==
    /\ IsInjective(parts)
    /\ Range(parts) = {q \in GraphParts : /\ InParts(c, q) /\ q[1] \in visited
                                          /\ q[2] = NsExport \/ Passed(q[1], q[2])}

PrefixOK(c) ==
    /\ IsInjective(prefix)
    /\ Range(prefix) = {q \in GraphParts : /\ InPrefix(c, q) /\ q[1] \in visited
                                           /\ Unwrapped(q[1]) => Passed(q[1], q[2])
                                           /\ ~Unwrapped(q[1]) => q[1] \in Left}

(* What the property says of one element of a finished list.               *)
ComesBehind(list, i) ==
    LET f == list[i][1]
        p == list[i][2]
    IN  Unwrapped(f) /\ p # NsExport =>
            \A t \in StatementsUpTo(f, p) : f \notin Reached({t}) =>
                \A j \in 1..Len(list) : list[j][1] \in Evaluated({t}) => j < i

(* A finished list has the live parts of its chunk, each once, in order.   *)
IsOrdered(c, list) ==
    /\ list \in Seq(GraphParts) /\ IsInjective(list)
    /\ \A q \in liveParts : q \in Range(list) <=> InParts(c, q) \/ InPrefix(c, q)
    /\ \A i \in 1..Len(list) : ComesBehind(list, i)

DoneInv == \A c \in DOMAIN order : IsOrdered(c, order[c].parts)

(* The inductive invariant of find_imported_parts_in_js_order.             *)
OrderInv ==
    /\ OrderTypeOK /\ StackInv /\ SeenInv /\ OrderedInv
    /\ PartsOK(chunk) /\ PrefixOK(chunk)
    /\ DoneInv

(* What is said of the scanned graph does not change.                      *)
LEMMA OrderStays ==
    ASSUME UNCHANGED vars
    PROVE  /\ graph' = graph /\ bits' = bits /\ liveParts' = liveParts /\ GraphParts' = GraphParts
           /\ \A S : Reached(S)' = Reached(S) /\ Evaluated(S)' = Evaluated(S)
           /\ \A f : AllStatements(f)' = AllStatements(f) /\ Unwrapped(f)' = Unwrapped(f)
           /\ \A f : Targets(f)' = Targets(f) /\ PartsOf(f)' = PartsOf(f)
           /\ \A f, p : StatementsUpTo(f, p)' = StatementsUpTo(f, p)
           /\ \A f, p : ShouldIncludePart(f, p)' = ShouldIncludePart(f, p)
           /\ \A c, q : InParts(c, q)' = InParts(c, q) /\ InPrefix(c, q)' = InPrefix(c, q)
           /\ \A c, list : IsOrdered(c, list)' = IsOrdered(c, list)
<1>1. /\ graph' = graph /\ bits' = bits /\ liveParts' = liveParts
  BY DEF vars
<1>2. /\ \A f : PartsOf(f)' = PartsOf(f) /\ Targets(f)' = Targets(f) /\ Unwrapped(f)' = Unwrapped(f)
      /\ GraphParts' = GraphParts
  BY <1>1 DEF PartsOf, Targets, Unwrapped, GraphParts, Record
<1>3. \A f, p : StatementsUpTo(f, p)' = StatementsUpTo(f, p)
  BY <1>1 DEF StatementsUpTo, Part, Record
<1>4. \A f : AllStatements(f)' = AllStatements(f)
  BY <1>1, <1>3 DEF AllStatements
<1>5. \A S : Reached(S)' = Reached(S)
  BY <1>2 DEF Reached
<1>6. \A S : Evaluated(S)' = Evaluated(S)
  BY <1>1, <1>3 DEF Evaluated
<1>7. \A f, p : ShouldIncludePart(f, p)' = ShouldIncludePart(f, p)
  BY <1>1 DEF ShouldIncludePart, Part, Record
<1>8. \A c, q : InParts(c, q)' = InParts(c, q)
  BY <1>1, <1>2, <1>7 DEF InParts
<1>9. \A c, q : InPrefix(c, q)' = InPrefix(c, q)
  BY <1>1, <1>2, <1>7 DEF InPrefix
<1>10. \A list, i : ComesBehind(list, i)' = ComesBehind(list, i)
  BY <1>2, <1>3, <1>5, <1>6 DEF ComesBehind
<1>11. \A c, list : IsOrdered(c, list)' = IsOrdered(c, list)
  BY <1>1, <1>2, <1>8, <1>9, <1>10 DEF IsOrdered
<1>. QED BY <1>1, <1>2, <1>3, <1>4, <1>5, <1>6, <1>7, <1>8, <1>9, <1>11

(* A part of the graph is a pair.                                          *)
LEMMA GraphPartIs ==
    ASSUME NEW q \in GraphParts
    PROVE  q[1] \in Files /\ q[2] \in PartsOf(q[1]) /\ q = <<q[1], q[2]>>
BY DEF GraphParts

(* A file is visited for the first time.                                   *)
LEMMA VisitFileKeepsOrder ==
    ASSUME graph \in Graphs, liveParts \subseteq GraphParts,
           OrderTypeOK, StackInv, SeenInv, OrderedInv, DoneInv,
           NEW c \in chunks \ DOMAIN order, PartsOK(c), PrefixOK(c),
           NEW f \in Files \ visited, stage = "computed",
           f = Runtime \/ Runtime \in visited,
           calls = <<>> \/ f \in Targets(Visiting),
           VisitFile(c, f), chunk' = c, UNCHANGED <<vars, linkVars>>
    PROVE  OrderInv'
<1>. DEFINE call == [file |-> f, part |-> 1]
            js == graph.file[f].kind = "js"
<1>1. /\ visited' = visited \cup {f} /\ prefix' = prefix /\ order' = order
      /\ stage' = "computed" /\ chunks' = chunks /\ UNCHANGED vars /\ graph' = graph
      /\ calls' = IF js THEN Append(calls, call) ELSE calls
      /\ parts' = IF js /\ Unwrapped(f) /\ IsInChunk(c, f, NsExport)
                  THEN Append(parts, <<f, NsExport>>) ELSE parts
  BY DEF VisitFile, linkVars, vars
<1>2. Len(calls) \in Nat /\ Len(parts) \in Nat /\ calls \in Seq(Calls) /\ parts \in Seq(GraphParts)
      /\ DOMAIN parts = 1..Len(parts)
  BY LenProperties DEF OrderTypeOK
<1>3. call \in Calls
  BY DEF Calls
<1>4. \A n \in 1..Len(calls) : calls[n].file \in visited /\ calls[n].file # f
  BY DEF OrderTypeOK
<1>5. ASSUME js
      PROVE  /\ calls' \in Seq(Calls) /\ Len(calls') = Len(calls) + 1
             /\ \A n \in 1..Len(calls) : calls'[n] = calls[n]
             /\ calls'[Len(calls) + 1] = call
  <2>1. calls' = Append(calls, call)
    BY <1>1, <1>5
  <2>. HIDE DEF call
  <2>. QED BY <1>2, <1>3, <2>1, Appended
<1>6. /\ calls' \in Seq(Calls) /\ Len(calls') \in Nat
      /\ \A n \in 1..Len(calls) : n \in 1..Len(calls') /\ calls'[n] = calls[n]
      /\ \A n \in 1..Len(calls') : n \in 1..Len(calls) \/ (n = Len(calls) + 1 /\ js /\ calls'[n] = call)
  <2>1. CASE js
    BY <1>2, <1>5, <2>1
  <2>2. CASE ~js
    BY <1>1, <1>2, <2>2
  <2>. QED BY <2>1, <2>2
<1>7. ASSUME js /\ Unwrapped(f) /\ IsInChunk(c, f, NsExport)
      PROVE  /\ <<f, NsExport>> \in GraphParts
             /\ parts' = Append(parts, <<f, NsExport>>)
  BY <1>1, <1>7 DEF IsInChunk
<1>8. /\ parts' \in Seq(GraphParts) /\ Len(parts') \in Nat
      /\ \A i \in 1..Len(parts) : i \in 1..Len(parts') /\ parts'[i] = parts[i]
      /\ \A i \in 1..Len(parts') : i \in 1..Len(parts) \/ (i = Len(parts) + 1 /\ parts'[i] = <<f, NsExport>>)
  <2>1. CASE js /\ Unwrapped(f) /\ IsInChunk(c, f, NsExport)
    <3>. DEFINE x == <<f, NsExport>>
    <3>1. x \in GraphParts /\ parts' = Append(parts, x)
      BY <1>7, <2>1
    <3>. HIDE DEF x
    <3>2. /\ parts' \in Seq(GraphParts) /\ Len(parts') = Len(parts) + 1
          /\ \A i \in 1..Len(parts) : parts'[i] = parts[i]
          /\ parts'[Len(parts) + 1] = x
      BY <1>2, <3>1, Appended
    <3>. QED BY <1>2, <3>2 DEF x
  <2>2. CASE ~(js /\ Unwrapped(f) /\ IsInChunk(c, f, NsExport))
    BY <1>1, <1>2, <2>2
  <2>. QED BY <2>1, <2>2
<1>9. Len(graph.file[f].parts) \in Nat /\ (~js => PartsOf(f) = {})
  BY GraphFacts
<1>10. OrderTypeOK'
  <2>1. \A n \in 1..Len(calls') :
            /\ calls'[n].file \in visited'
            /\ graph.file[calls'[n].file].kind = "js"
            /\ calls'[n].part \in 1..(Len(graph.file[calls'[n].file].parts) + 1)
    BY <1>1, <1>2, <1>6, <1>9 DEF OrderTypeOK
  <2>. QED BY <1>1, <1>6, <1>8, <2>1, OrderStays DEF OrderTypeOK
<1>11. \A g : g \in Left' <=> g \in Left \/ (g = f /\ ~js)
  <2>1. ASSUME js PROVE f \notin Left'
    BY <1>2, <1>5, <1>6, <2>1 DEF Left
  <2>2. ASSUME ~js PROVE f \in Left'
    BY <1>1, <1>4, <2>2 DEF Left
  <2>3. ASSUME NEW g, g # f PROVE g \in Left' <=> g \in Left
    BY <1>1, <1>6, <2>3 DEF Left
  <2>. QED BY <2>1, <2>2, <2>3 DEF Left
<1>12. StackInv'
  <2>1. ASSUME NEW m \in 1..Len(calls), js
        PROVE  f \in Reached({calls[m].file})
    <3>1. Len(calls) \in 1..Len(calls) /\ calls # <<>>
      BY <1>2, <2>1
    <3>2. \A n \in 1..Len(calls) : calls[n].file \in Files
      BY DEF OrderTypeOK
    <3>3. Visiting \in Reached({calls[m].file})
      <4>1. CASE m = Len(calls)
        BY <3>1, <3>2, <4>1, ReachedIs DEF Visiting
      <4>2. CASE m < Len(calls)
        BY <3>1, <4>2 DEF Visiting, StackInv
      <4>. QED BY <1>2, <4>1, <4>2
    <3>4. f \in Targets(Visiting) \cap Files
      BY <3>1
    <3>. QED BY <3>2, <3>3, <3>4, ReachedIs
  <2>2. ASSUME NEW m \in 1..Len(calls'), NEW n \in 1..Len(calls'), m < n
        PROVE  calls'[m].file # calls'[n].file /\ calls'[n].file \in Reached({calls'[m].file})
    <3>1. m \in 1..Len(calls)
      BY <1>2, <1>6, <2>2
    <3>2. CASE n \in 1..Len(calls)
      BY <1>6, <2>2, <3>1, <3>2 DEF StackInv
    <3>3. CASE n = Len(calls) + 1 /\ js /\ calls'[n] = call
      BY <1>4, <1>6, <2>1, <3>1, <3>3
    <3>. QED BY <1>6, <3>2, <3>3
  <2>3. \A m, n \in 1..Len(calls') : m < n =>
            calls'[m].file # calls'[n].file /\ calls'[n].file \in Reached({calls'[m].file})
    BY <2>2
  <2>4. \A S : Reached(S)' = Reached(S)
    BY <1>1, OrderStays
  <2>. QED BY <2>3, <2>4 DEF StackInv
<1>13. SeenInv'
  <2>1. ASSUME NEW g \in Left' PROVE AllStatements(g) \subseteq visited'
    BY <1>1, <1>9, <1>11, StatementFacts DEF SeenInv
  <2>2. ASSUME NEW n \in 1..Len(calls')
        PROVE  StatementsUpTo(calls'[n].file, calls'[n].part - 1) \subseteq visited'
    BY <1>1, <1>6, StatementFacts DEF SeenInv
  <2>. QED BY <1>1, <2>1, <2>2, OrderStays DEF SeenInv
<1>14. OrderedInv'
  <2>1. ASSUME NEW i \in 1..Len(parts'), parts'[i][2] # NsExport,
               NEW t \in StatementsUpTo(parts'[i][1], parts'[i][2]), parts'[i][1] \notin Reached({t}),
               NEW g \in Evaluated({t})
        PROVE  g \in Left' /\ \A j \in 1..Len(parts') : parts'[j][1] = g => j < i
    <3>1. i \in 1..Len(parts) /\ parts'[i] = parts[i]
      BY <1>8, <2>1
    <3>2. g \in Left /\ \A j \in 1..Len(parts) : parts[j][1] = g => j < i
      BY <2>1, <3>1 DEF OrderedInv, Behind
    <3>3. g # f
      BY <3>2 DEF Left
    <3>. QED BY <1>8, <1>11, <3>2, <3>3
  <2>2. ASSUME NEW i \in 1..Len(parts'), NEW x, NEW y, x = parts'[i][1], y = parts'[i][2]
        PROVE  Behind(x, y, i)'
    <3>1. /\ \A S : Reached(S)' = Reached(S)
          /\ \A S : Evaluated(S)' = Evaluated(S)
          /\ StatementsUpTo(x, y)' = StatementsUpTo(x, y)
      BY <1>1, OrderStays
    <3>2. y # NsExport => \A t \in StatementsUpTo(x, y) : x \notin Reached({t}) =>
              \A g \in Evaluated({t}) :
                  g \in Left' /\ \A j \in 1..Len(parts') : parts'[j][1] = g => j < i
      BY <2>1, <2>2
    <3>. QED BY <3>1, <3>2 DEF Behind
  <2>. QED BY <2>2 DEF OrderedInv
<1>15. ASSUME NEW q \in GraphParts, q[1] = f PROVE js /\ q[2] \in Nat \ {0} /\ ~Passed(q[1], q[2])'
  <2>1. js /\ q[2] \in Nat \ {0}
    BY <1>9, <1>15, GraphPartIs DEF PartsOf
  <2>2. Len(calls) + 1 \in 1..Len(calls') /\ calls'[Len(calls) + 1].file = q[1]
        /\ calls'[Len(calls) + 1].part = 1
    BY <1>2, <1>5, <1>15, <2>1
  <2>3. ~(q[2] < 1)
    BY <2>1
  <2>. QED BY <2>1, <2>2, <2>3 DEF Passed
<1>16. ASSUME NEW q \in GraphParts, q[1] # f PROVE Passed(q[1], q[2])' <=> Passed(q[1], q[2])
  <2>1. \A n \in 1..Len(calls) : n \in 1..Len(calls') /\ calls'[n] = calls[n]
    BY <1>6
  <2>2. ASSUME NEW n \in 1..Len(calls'), calls'[n].file = q[1] PROVE n \in 1..Len(calls)
    <3>1. calls'[n] # call
      BY <1>16, <2>2
    <3>. HIDE DEF call
    <3>. QED BY <1>6, <3>1
  <2>. HIDE DEF call
  <2>. QED BY <2>1, <2>2 DEF Passed
<1>17. PartsOK(chunk)'
  <2>1. IsInjective(parts')
    <3>1. \A i \in 1..Len(parts) : parts[i] # <<f, NsExport>>
      BY <1>2 DEF PartsOK, Range
    <3>2. <<f, NsExport>> \notin Range(parts)
      BY <1>2, <3>1 DEF Range
    <3>. QED BY <1>1, <1>2, <1>7, <3>2, Appended DEF PartsOK
  <2>2. Range(parts') = Range(parts) \cup (IF js /\ Unwrapped(f) /\ IsInChunk(c, f, NsExport)
                                           THEN {<<f, NsExport>>} ELSE {})
    <3>. DEFINE x == <<f, NsExport>>
    <3>1. CASE js /\ Unwrapped(f) /\ IsInChunk(c, f, NsExport)
      <4>1. x \in GraphParts /\ parts' = Append(parts, x)
        BY <1>7, <3>1
      <4>. HIDE DEF x
      <4>2. Range(parts') = Range(parts) \cup {x}
        BY <1>2, <4>1, Appended
      <4>. QED BY <3>1, <4>2 DEF x
    <3>2. CASE ~(js /\ Unwrapped(f) /\ IsInChunk(c, f, NsExport))
      BY <1>1, <3>2
    <3>. QED BY <3>1, <3>2
  <2>3. ASSUME NEW q \in GraphParts
        PROVE  q \in Range(parts') <=> /\ InParts(c, q) /\ q[1] \in visited'
                                       /\ q[2] = NsExport \/ Passed(q[1], q[2])'
    <3>1. CASE q[1] = f
      <4>1. q \notin Range(parts)
        BY <3>1 DEF PartsOK
      <4>2. q = <<f, NsExport>> <=> q[2] = NsExport
        BY <3>1, GraphPartIs
      <4>3. InParts(c, q) /\ q[2] = NsExport <=>
              q[2] = NsExport /\ Unwrapped(f) /\ IsInChunk(c, f, NsExport)
        BY <3>1, <4>2 DEF InParts, IsInChunk
      <4>. QED BY <1>1, <1>15, <2>2, <3>1, <4>1, <4>2, <4>3
    <3>2. CASE q[1] # f
      <4>1. q # <<f, NsExport>>
        BY <3>2
      <4>. QED BY <1>1, <1>16, <2>2, <3>2, <4>1 DEF PartsOK
    <3>. QED BY <3>1, <3>2
  <2>4. Range(parts') \subseteq GraphParts
    BY <1>7, <2>2 DEF PartsOK
  <2>. QED BY <1>1, <2>1, <2>3, <2>4, OrderStays DEF PartsOK
<1>18. PrefixOK(chunk)'
  <2>1. ASSUME NEW q \in GraphParts
        PROVE  q \in Range(prefix) <=> /\ InPrefix(c, q) /\ q[1] \in visited'
                                       /\ Unwrapped(q[1]) => Passed(q[1], q[2])'
                                       /\ ~Unwrapped(q[1]) => q[1] \in Left'
    <3>1. CASE q[1] = f
      <4>1. q \notin Range(prefix)
        BY <3>1 DEF PrefixOK
      <4>2. f \notin Left'
        BY <1>11, <1>15, <3>1 DEF Left
      <4>. QED BY <1>15, <3>1, <4>1, <4>2
    <3>2. CASE q[1] # f
      BY <1>1, <1>11, <1>16, <3>2 DEF PrefixOK
    <3>. QED BY <3>1, <3>2
  <2>2. Range(prefix) \subseteq GraphParts
    BY DEF PrefixOK
  <2>. QED BY <1>1, <2>1, <2>2, OrderStays DEF PrefixOK
<1>19. DoneInv'
  BY <1>1, OrderStays DEF DoneInv
<1>. QED BY <1>10, <1>12, <1>13, <1>14, <1>17, <1>18, <1>19 DEF OrderInv

(* The call at hand.                                                       *)
LEMMA CallAtHand ==
    ASSUME graph \in Graphs, OrderTypeOK, StackInv, calls # <<>>
    PROVE  /\ Len(calls) \in Nat \ {0}
           /\ Visiting = calls[Len(calls)].file /\ PartAt = calls[Len(calls)].part
           /\ Visiting \in Files /\ Visiting \in visited /\ Visiting \notin Left
           /\ graph.file[Visiting].kind = "js"
           /\ Len(graph.file[Visiting].parts) \in Nat
           /\ PartAt \in 1..(Len(graph.file[Visiting].parts) + 1)
           /\ \A n \in 1..Len(calls) : calls[n].file = Visiting => n = Len(calls)
           /\ \A p : Passed(Visiting, p) <=> p < PartAt
<1>1. Len(calls) \in Nat \ {0} /\ Len(calls) \in 1..Len(calls)
  BY EmptySeq, LenProperties DEF OrderTypeOK
<1>2. /\ Visiting \in visited /\ Visiting \in Files /\ graph.file[Visiting].kind = "js"
      /\ PartAt \in 1..(Len(graph.file[Visiting].parts) + 1)
  BY <1>1 DEF OrderTypeOK, Visiting, PartAt
<1>3. Len(graph.file[Visiting].parts) \in Nat
  BY <1>2, GraphFacts
<1>4. Visiting \notin Left
  BY <1>1 DEF Left, Visiting
<1>5. ASSUME NEW n \in 1..Len(calls), calls[n].file = Visiting PROVE n = Len(calls)
  <2>1. ASSUME n < Len(calls) PROVE FALSE
    BY <1>1, <1>5, <2>1 DEF StackInv, Visiting
  <2>. QED BY <1>1, <2>1
<1>6. \A p : Passed(Visiting, p) <=> p < PartAt
  BY <1>1, <1>5 DEF Passed, Visiting, PartAt
<1>. QED BY <1>1, <1>2, <1>3, <1>4, <1>5, <1>6 DEF Visiting, PartAt

(* A part is put behind what it imports: what that leads to has been left, *)
(* unless it leads back to a file that is still being visited.             *)
LEMMA VisitPartKeepsOrder ==
    ASSUME graph \in Graphs, liveParts \subseteq GraphParts, OrderInv, VisitPart,
           UNCHANGED <<vars, linkVars>>
    PROVE  OrderInv'
<1>. USE DEF OrderInv
<1>1. PICK f, p : f = Visiting /\ p = PartAt
  OBVIOUS
<1>. DEFINE n == Len(calls)
            printed == /\ IsInChunk(chunk, f, p) /\ Unwrapped(f)
                       /\ p # NsExport /\ ShouldIncludePart(f, p)
<1>2. /\ calls # <<>> /\ p \in PartsOf(f) /\ Unvisited(f, p) = {}
      /\ calls' = [calls EXCEPT ![n].part = p + 1]
      /\ IF printed THEN IF f = Runtime THEN prefix' = Append(prefix, <<f, p>>) /\ parts' = parts
                                        ELSE parts' = Append(parts, <<f, p>>) /\ prefix' = prefix
                    ELSE prefix' = prefix /\ parts' = parts
      /\ UNCHANGED <<order, chunk, visited, stage, chunks, graph>> /\ UNCHANGED vars
  BY <1>1 DEF VisitPart, PartAt, linkVars, vars
<1>3. /\ n \in Nat \ {0}
      /\ f = calls[n].file /\ p = calls[n].part
      /\ f \in Files /\ f \in visited /\ f \notin Left
      /\ Len(graph.file[f].parts) \in Nat /\ p \in 1..Len(graph.file[f].parts)
      /\ \A m \in 1..n : calls[m].file = f => m = n
      /\ \A k : Passed(f, k) <=> k < p
  BY <1>1, <1>2, CallAtHand DEF PartsOf
<1>4. /\ calls' \in Seq(Calls) /\ Len(calls') = n
      /\ \A m \in 1..n : m # n => calls'[m] = calls[m]
      /\ calls'[n] = [file |-> f, part |-> p + 1]
      /\ \A m \in 1..n : calls'[m].file = calls[m].file
  <2>1. calls \in Seq(Calls) /\ calls[n] \in Calls /\ n \in 1..n
    <3>1. calls \in Seq(Calls)
      BY DEF OrderTypeOK
    <3>. QED BY <1>3, <3>1, ElementOfSeq
  <2>2. calls[n] = [file |-> f, part |-> p]
    BY <1>3, <2>1 DEF Calls
  <2>3. calls' = [calls EXCEPT ![n] = [file |-> f, part |-> p + 1]]
    <3>1. calls' = [calls EXCEPT ![n] = [calls[n] EXCEPT !.part = p + 1]]
      BY <1>2
    <3>2. [calls[n] EXCEPT !.part = p + 1] = [file |-> f, part |-> p + 1]
      BY <2>2
    <3>. QED BY <3>1, <3>2
  <2>4. [file |-> f, part |-> p + 1] \in Calls
    BY <1>3 DEF Calls
  <2>5. calls' \in Seq(Calls) /\ Len(calls') = n
    <3>. DEFINE x == [file |-> f, part |-> p + 1]
    <3>. HIDE DEF x
    <3>. QED BY <2>1, <2>3, <2>4, ExceptSeq
  <2>6. \A m \in 1..n : calls'[m] = IF m = n THEN [file |-> f, part |-> p + 1] ELSE calls[m]
    BY <1>3, <2>3
  <2>. QED BY <1>3, <2>1, <2>5, <2>6
<1>5. Left' = Left
  BY <1>2, <1>4 DEF Left
<1>6. printed => <<f, p>> \in GraphParts
  BY DEF IsInChunk
<1>7. /\ parts \in Seq(GraphParts) /\ Len(parts) \in Nat /\ DOMAIN parts = 1..Len(parts)
      /\ prefix \in Seq(GraphParts)
  BY LenProperties DEF OrderTypeOK
<1>8. /\ \A x : PartsOf(x)' = PartsOf(x) /\ Unwrapped(x)' = Unwrapped(x)
      /\ \A c, q : InParts(c, q)' = InParts(c, q) /\ InPrefix(c, q)' = InPrefix(c, q)
      /\ GraphParts' = GraphParts
  BY <1>2, OrderStays
<1>9. /\ \A S : Reached(S)' = Reached(S) /\ Evaluated(S)' = Evaluated(S)
      /\ \A x : AllStatements(x)' = AllStatements(x)
      /\ \A x, y : StatementsUpTo(x, y)' = StatementsUpTo(x, y)
  BY <1>2, OrderStays
<1>10. /\ parts' = IF printed /\ f # Runtime THEN Append(parts, <<f, p>>) ELSE parts
       /\ prefix' = IF printed /\ f = Runtime THEN Append(prefix, <<f, p>>) ELSE prefix
  BY <1>2
<1>. DEFINE x == <<f, p>>
<1>11. x[1] = f /\ x[2] = p /\ \A q \in GraphParts : q = x <=> q[1] = f /\ q[2] = p
  BY GraphPartIs
<1>12. printed => x \in GraphParts
  BY <1>6
<1>. HIDE DEF x, printed
<1>13. /\ parts' \in Seq(GraphParts) /\ Len(parts') \in Nat /\ prefix' \in Seq(GraphParts)
       /\ \A i \in 1..Len(parts) : i \in 1..Len(parts') /\ parts'[i] = parts[i]
       /\ \A i \in 1..Len(parts') : i \in 1..Len(parts) \/ (i = Len(parts) + 1 /\ parts'[i] = x)
       /\ Range(parts') = Range(parts) \cup (IF printed /\ f # Runtime THEN {x} ELSE {})
       /\ Range(prefix') = Range(prefix) \cup (IF printed /\ f = Runtime THEN {x} ELSE {})
       /\ IsInjective(parts) /\ x \notin Range(parts) => IsInjective(parts')
       /\ IsInjective(prefix) /\ x \notin Range(prefix) => IsInjective(prefix')
  <2>1. CASE printed /\ f # Runtime
    <3>1. parts' = Append(parts, x) /\ prefix' = prefix /\ x \in GraphParts
      BY <1>10, <1>12, <2>1 DEF x
    <3>2. /\ parts' \in Seq(GraphParts) /\ Len(parts') = Len(parts) + 1
          /\ \A i \in 1..Len(parts) : parts'[i] = parts[i]
          /\ parts'[Len(parts) + 1] = x
          /\ Range(parts') = Range(parts) \cup {x}
          /\ IsInjective(parts) /\ x \notin Range(parts) => IsInjective(parts')
      BY <1>7, <3>1, Appended
    <3>. QED BY <1>7, <2>1, <3>1, <3>2
  <2>2. CASE printed /\ f = Runtime
    <3>1. prefix' = Append(prefix, x) /\ parts' = parts /\ x \in GraphParts
      BY <1>10, <1>12, <2>2 DEF x
    <3>2. /\ prefix' \in Seq(GraphParts)
          /\ Range(prefix') = Range(prefix) \cup {x}
          /\ IsInjective(prefix) /\ x \notin Range(prefix) => IsInjective(prefix')
      BY <1>7, <3>1, Appended
    <3>. QED BY <1>7, <2>2, <3>1, <3>2
  <2>3. CASE ~printed
    <3>1. parts' = parts /\ prefix' = prefix
      BY <1>10, <2>3
    <3>. QED BY <1>7, <2>3, <3>1
  <2>. QED BY <2>1, <2>2, <2>3
<1>14. OrderTypeOK'
  <2>1. \A m \in 1..Len(calls') :
            /\ calls'[m].file \in visited'
            /\ graph.file[calls'[m].file].kind = "js"
            /\ calls'[m].part \in 1..(Len(graph.file[calls'[m].file].parts) + 1)
    <3>1. ASSUME NEW m \in 1..n, m # n
          PROVE  /\ calls'[m].file \in visited'
                 /\ graph.file[calls'[m].file].kind = "js"
                 /\ calls'[m].part \in 1..(Len(graph.file[calls'[m].file].parts) + 1)
      BY <1>2, <1>4, <3>1 DEF OrderTypeOK
    <3>2. /\ calls'[n].file \in visited' /\ graph.file[f].kind = "js" /\ calls'[n].file = f
          /\ calls'[n].part \in 1..(Len(graph.file[f].parts) + 1)
      BY <1>1, <1>2, <1>3, <1>4, CallAtHand
    <3>. QED BY <1>4, <3>1, <3>2
  <2>2. visited # {} /\ stage = "computed"
    BY <1>3 DEF OrderTypeOK
  <2>. QED BY <1>2, <1>4, <1>8, <1>13, <2>1, <2>2 DEF OrderTypeOK
<1>15. StackInv'
  <2>1. \A m, k \in 1..Len(calls') : m < k =>
            calls'[m].file # calls'[k].file /\ calls'[k].file \in Reached({calls'[m].file})
    BY <1>4 DEF StackInv
  <2>2. \A S : Reached(S)' = Reached(S)
    BY <1>9
  <2>. QED BY <2>1, <2>2 DEF StackInv
<1>16. PartStatements(f, p) \subseteq visited
  <2>1. ASSUME NEW t \in PartStatements(f, p), t \notin visited PROVE FALSE
    <3>1. PICK i \in 1..Len(Part(f, p).records) :
              Record(f, RecordAt(f, p, i)).kind = "stmt" /\ Record(f, RecordAt(f, p, i)).target = t
      BY DEF PartStatements
    <3>2. t \in Files /\ t # NoFile
      BY GraphAssumption DEF PartStatements
    <3>3. i \in Unvisited(f, p)
      BY <2>1, <3>1, <3>2 DEF Unvisited, Follows, IsExternalDynamicImport, RecordAt
    <3>. QED BY <1>2, <3>3
  <2>. QED BY <2>1
<1>17. StatementsUpTo(f, p) \subseteq visited
  <2>1. StatementsUpTo(f, p - 1) \subseteq visited
    BY <1>3 DEF SeenInv
  <2>. QED BY <1>2, <1>3, <1>16, <2>1, StatementFacts
<1>18. SeenInv'
  <2>1. \A g \in Left' : AllStatements(g) \subseteq visited'
    BY <1>2, <1>5 DEF SeenInv
  <2>2. ASSUME NEW m \in 1..Len(calls')
        PROVE  StatementsUpTo(calls'[m].file, calls'[m].part - 1) \subseteq visited'
    <3>1. CASE m = n
      <4>1. calls'[m].file = f /\ calls'[m].part - 1 = p
        BY <1>3, <1>4, <3>1
      <4>. QED BY <1>2, <1>17, <4>1
    <3>2. CASE m # n
      BY <1>2, <1>4, <3>2 DEF SeenInv
    <3>. QED BY <3>1, <3>2
  <2>. QED BY <1>9, <2>1, <2>2 DEF SeenInv
<1>19. OrderedInv'
  <2>1. ASSUME NEW i \in 1..Len(parts'), parts'[i][2] # NsExport,
               NEW t \in StatementsUpTo(parts'[i][1], parts'[i][2]), parts'[i][1] \notin Reached({t}),
               NEW g \in Evaluated({t})
        PROVE  g \in Left' /\ \A j \in 1..Len(parts') : parts'[j][1] = g => j < i
    <3>1. CASE i \in 1..Len(parts)
      <4>1. parts'[i] = parts[i]
        BY <1>13, <3>1
      <4>2. g \in Left /\ \A j \in 1..Len(parts) : parts[j][1] = g => j < i
        BY <2>1, <3>1, <4>1 DEF OrderedInv, Behind
      <4>3. g # f
        BY <1>3, <4>2
      <4>. QED BY <1>5, <1>11, <1>13, <4>2, <4>3
    <3>2. CASE i = Len(parts) + 1 /\ parts'[i] = x
      <4>1. t \in StatementsUpTo(f, p) /\ f \notin Reached({t})
        BY <1>11, <2>1, <3>2
      <4>2. Evaluated({t}) \subseteq Left
        BY <1>1, <1>2, <1>17, <4>1, WhatIsEvaluatedIsLeft
      <4>3. g \in Left /\ g # f
        BY <1>3, <2>1, <4>2
      <4>. QED BY <1>5, <1>7, <1>11, <1>13, <3>2, <4>3
    <3>. QED BY <1>13, <3>1, <3>2
  <2>2. ASSUME NEW i \in 1..Len(parts'), NEW y, NEW k, y = parts'[i][1], k = parts'[i][2]
        PROVE  Behind(y, k, i)'
    <3>1. /\ \A S : Reached(S)' = Reached(S)
          /\ \A S : Evaluated(S)' = Evaluated(S)
          /\ StatementsUpTo(y, k)' = StatementsUpTo(y, k)
      BY <1>9
    <3>2. k # NsExport => \A t \in StatementsUpTo(y, k) : y \notin Reached({t}) =>
              \A g \in Evaluated({t}) :
                  g \in Left' /\ \A j \in 1..Len(parts') : parts'[j][1] = g => j < i
      BY <2>1, <2>2
    <3>. QED BY <3>1, <3>2 DEF Behind
  <2>. QED BY <2>2 DEF OrderedInv
<1>20. ASSUME NEW q \in GraphParts
       PROVE  Passed(q[1], q[2])' <=> Passed(q[1], q[2]) \/ q = x
  <2>1. CASE q[1] = f
    <3>1. q[2] \in Nat
      BY GraphPartIs, GraphFacts DEF PartsOf
    <3>2. Passed(q[1], q[2])' <=> q[2] < p + 1
      <4>1. n \in 1..Len(calls') /\ calls'[n].file = f /\ calls'[n].part = p + 1
            /\ \A m \in 1..Len(calls') : calls'[m].file = f => m = n
        BY <1>3, <1>4
      <4>. QED BY <2>1, <4>1 DEF Passed
    <3>3. Passed(q[1], q[2]) <=> q[2] < p
      BY <1>3, <2>1
    <3>. QED BY <1>3, <1>11, <2>1, <3>1, <3>2, <3>3
  <2>2. CASE q[1] # f
    <3>1. q # x
      BY <1>11, <2>2
    <3>2. \A m \in 1..n : calls'[m].file = q[1] => calls'[m] = calls[m]
      BY <1>3, <1>4, <2>2
    <3>. QED BY <1>4, <3>1, <3>2 DEF Passed
  <2>. QED BY <2>1, <2>2
<1>21. ~Passed(f, p)
  BY <1>3
<1>22. PartsOK(chunk)'
  <2>1. x \notin Range(parts) \/ p = NsExport
    BY <1>11, <1>21 DEF PartsOK
  <2>2. ASSUME NEW q \in GraphParts
        PROVE  q \in Range(parts') <=> /\ InParts(chunk, q) /\ q[1] \in visited
                                       /\ q[2] = NsExport \/ Passed(q[1], q[2])'
    <3>1. CASE q = x /\ p # NsExport
      BY <1>3, <1>11, <1>13, <1>20, <2>1, <3>1 DEF PartsOK, InParts, printed, IsInChunk, x
    <3>2. CASE q = x /\ p = NsExport
      BY <1>11, <1>13, <3>2 DEF PartsOK, printed
    <3>3. CASE q # x
      BY <1>13, <1>20, <3>3 DEF PartsOK
    <3>. QED BY <3>1, <3>2, <3>3
  <2>3. IsInjective(parts')
    <3>1. CASE printed /\ f # Runtime
      BY <1>13, <2>1, <3>1 DEF PartsOK, printed
    <3>2. CASE ~(printed /\ f # Runtime)
      BY <1>10, <3>2 DEF PartsOK
    <3>. QED BY <3>1, <3>2
  <2>4. Range(parts') \subseteq GraphParts
    BY <1>12, <1>13 DEF PartsOK
  <2>. QED BY <1>2, <1>8, <2>2, <2>3, <2>4 DEF PartsOK
<1>23. PrefixOK(chunk)'
  <2>1. Unwrapped(f) => x \notin Range(prefix)
    BY <1>11, <1>21 DEF PrefixOK
  <2>2. ASSUME NEW q \in GraphParts
        PROVE  q \in Range(prefix') <=> /\ InPrefix(chunk, q) /\ q[1] \in visited
                                        /\ Unwrapped(q[1]) => Passed(q[1], q[2])'
                                        /\ ~Unwrapped(q[1]) => q[1] \in Left
    <3>1. CASE q = x /\ Unwrapped(f)
      BY <1>3, <1>11, <1>13, <1>20, <2>1, <3>1 DEF PrefixOK, InPrefix, printed, IsInChunk, x
    <3>2. CASE q = x /\ ~Unwrapped(f)
      BY <1>3, <1>11, <1>13, <3>2 DEF PrefixOK, printed
    <3>3. CASE q # x
      BY <1>13, <1>20, <3>3 DEF PrefixOK
    <3>. QED BY <3>1, <3>2, <3>3
  <2>3. IsInjective(prefix')
    <3>1. CASE printed /\ f = Runtime
      BY <1>13, <2>1, <3>1 DEF PrefixOK, printed
    <3>2. CASE ~(printed /\ f = Runtime)
      BY <1>10, <3>2 DEF PrefixOK
    <3>. QED BY <3>1, <3>2
  <2>4. Range(prefix') \subseteq GraphParts
    BY <1>12, <1>13 DEF PrefixOK
  <2>. QED BY <1>2, <1>5, <1>8, <2>2, <2>3, <2>4 DEF PrefixOK
<1>24. DoneInv'
  BY <1>2, OrderStays DEF DoneInv
<1>. QED BY <1>14, <1>15, <1>18, <1>19, <1>22, <1>23, <1>24

(* The visit of a file is over; if it has a wrapper all its parts go       *)
(* first.                                                                  *)
LEMMA LeaveFileKeepsOrder ==
    ASSUME graph \in Graphs, OrderInv, LeaveFile, UNCHANGED <<vars, linkVars>>
    PROVE  OrderInv'
<1>. USE DEF OrderInv
<1>1. PICK f : f = Visiting
  OBVIOUS
<1>. DEFINE n == Len(calls)
            own == [p \in PartsOf(f) |-> <<f, p>>]
            wrapped == bits[f] = chunk /\ ~Unwrapped(f)
<1>2. /\ calls # <<>> /\ PartAt \notin PartsOf(f)
      /\ calls' = Front(calls)
      /\ prefix' = IF wrapped THEN prefix \o own ELSE prefix
      /\ UNCHANGED <<order, chunk, visited, parts, stage, chunks, graph>> /\ UNCHANGED vars
  BY <1>1 DEF LeaveFile, linkVars, vars
<1>3. /\ n \in Nat \ {0} /\ f = calls[n].file
      /\ f \in Files /\ f \in visited /\ f \notin Left
      /\ Len(graph.file[f].parts) \in Nat /\ calls[n].part = Len(graph.file[f].parts) + 1
      /\ \A m \in 1..n : calls[m].file = f => m = n
      /\ \A k : Passed(f, k) <=> k < Len(graph.file[f].parts) + 1
  <2>1. PartAt = Len(graph.file[f].parts) + 1
    <3>1. /\ Len(graph.file[f].parts) \in Nat
          /\ PartAt \in 1..(Len(graph.file[f].parts) + 1)
          /\ PartAt \notin 1..Len(graph.file[f].parts)
      BY <1>1, <1>2, CallAtHand DEF PartsOf
    <3>. QED BY <3>1
  <2>. QED BY <1>1, <1>2, <2>1, CallAtHand
<1>4. /\ calls' \in Seq(Calls) /\ Len(calls') = n - 1
      /\ \A m \in 1..Len(calls') : m \in 1..n /\ m # n /\ calls'[m] = calls[m]
  <2>1. calls \in Seq(Calls)
    BY DEF OrderTypeOK
  <2>2. /\ Front(calls) \in Seq(Calls) /\ Len(Front(calls)) = n - 1
        /\ \A m \in 1..(n - 1) : Front(calls)[m] = calls[m]
    BY <1>2, <2>1, FrontAndLast
  <2>. QED BY <1>2, <1>3, <2>2
<1>5. \A g : g \in Left' <=> g \in Left \/ g = f
  <2>1. f \in Left'
    <3>1. \A m \in 1..Len(calls') : calls'[m].file # f
      BY <1>3, <1>4
    <3>. QED BY <1>2, <1>3, <3>1 DEF Left
  <2>2. ASSUME NEW g, g # f PROVE g \in Left' <=> g \in Left
    <3>1. {calls[m].file : m \in 1..n} = {calls'[m].file : m \in 1..Len(calls')} \cup {f}
      <4>1. \A m \in 1..n : m = n \/ m \in 1..Len(calls')
        BY <1>3, <1>4
      <4>2. n \in 1..n
        BY <1>3
      <4>. QED BY <1>3, <1>4, <4>1, <4>2
    <3>. QED BY <1>2, <2>2, <3>1 DEF Left
  <2>. QED BY <2>1, <2>2
<1>6. /\ \A x : PartsOf(x)' = PartsOf(x) /\ Unwrapped(x)' = Unwrapped(x)
      /\ \A c, q : InParts(c, q)' = InParts(c, q) /\ InPrefix(c, q)' = InPrefix(c, q)
      /\ GraphParts' = GraphParts
  BY <1>2, OrderStays
<1>7. /\ \A S : Reached(S)' = Reached(S) /\ Evaluated(S)' = Evaluated(S)
      /\ \A x : AllStatements(x)' = AllStatements(x)
      /\ \A x, y : StatementsUpTo(x, y)' = StatementsUpTo(x, y)
  BY <1>2, OrderStays
<1>8. /\ own \in Seq(GraphParts) /\ IsInjective(own)
      /\ \A q \in GraphParts : q \in Range(own) <=> q[1] = f
  <2>1. own \in Seq(GraphParts)
    <3>1. \A p \in PartsOf(f) : <<f, p>> \in GraphParts
      BY <1>3 DEF GraphParts
    <3>2. own \in [1..Len(graph.file[f].parts) -> GraphParts]
      BY <3>1 DEF PartsOf
    <3>. QED BY <1>3, <3>2
  <2>2. IsInjective(own)
    BY DEF IsInjective
  <2>3. ASSUME NEW q \in GraphParts PROVE q \in Range(own) <=> q[1] = f
    <3>1. q[1] = f => q[2] \in PartsOf(f) /\ q = own[q[2]]
      BY GraphPartIs
    <3>2. q \in Range(own) => q[1] = f
      BY DEF Range
    <3>. QED BY <3>1, <3>2 DEF Range
  <2>. QED BY <2>1, <2>2, <2>3
<1>. HIDE DEF own
<1>9. OrderTypeOK'
  <2>1. prefix' \in Seq(GraphParts)
    <3>1. prefix \in Seq(GraphParts)
      BY DEF OrderTypeOK
    <3>. QED BY <1>2, <1>8, <3>1, Concatenated
  <2>2. \A m \in 1..Len(calls') :
            /\ calls'[m].file \in visited'
            /\ graph.file[calls'[m].file].kind = "js"
            /\ calls'[m].part \in 1..(Len(graph.file[calls'[m].file].parts) + 1)
    BY <1>2, <1>4 DEF OrderTypeOK
  <2>3. visited # {}
    BY <1>3
  <2>. QED BY <1>2, <1>4, <1>6, <2>1, <2>2, <2>3 DEF OrderTypeOK
<1>10. StackInv'
  <2>1. \A m, k \in 1..Len(calls') : m < k =>
            calls'[m].file # calls'[k].file /\ calls'[k].file \in Reached({calls'[m].file})
    BY <1>4 DEF StackInv
  <2>2. \A S : Reached(S)' = Reached(S)
    BY <1>7
  <2>. QED BY <2>1, <2>2 DEF StackInv
<1>11. SeenInv'
  <2>1. AllStatements(f) \subseteq visited
    <3>1. StatementsUpTo(f, calls[n].part - 1) \subseteq visited
      BY <1>3 DEF SeenInv
    <3>2. calls[n].part - 1 = Len(graph.file[f].parts)
      BY <1>3
    <3>. QED BY <3>1, <3>2 DEF AllStatements
  <2>2. \A g \in Left' : AllStatements(g) \subseteq visited'
    BY <1>2, <1>5, <2>1 DEF SeenInv
  <2>3. \A m \in 1..Len(calls') : StatementsUpTo(calls'[m].file, calls'[m].part - 1) \subseteq visited'
    BY <1>2, <1>4 DEF SeenInv
  <2>. QED BY <1>7, <2>2, <2>3 DEF SeenInv
<1>12. OrderedInv'
  <2>1. ASSUME NEW i \in 1..Len(parts'), NEW y, NEW k, y = parts'[i][1], k = parts'[i][2]
        PROVE  Behind(y, k, i)'
    <3>1. /\ \A S : Reached(S)' = Reached(S)
          /\ \A S : Evaluated(S)' = Evaluated(S)
          /\ StatementsUpTo(y, k)' = StatementsUpTo(y, k)
      BY <1>7
    <3>2. Behind(y, k, i)
      BY <1>2, <2>1 DEF OrderedInv
    <3>. QED BY <1>2, <1>5, <3>1, <3>2 DEF Behind
  <2>. QED BY <2>1 DEF OrderedInv
<1>13. ASSUME NEW q \in GraphParts
       PROVE  /\ Passed(q[1], q[2])' <=> Passed(q[1], q[2])
              /\ q[1] = f => Passed(q[1], q[2])
  <2>1. CASE q[1] = f
    <3>1. q[2] \in 1..Len(graph.file[f].parts)
      BY <2>1, GraphPartIs DEF PartsOf
    <3>2. Passed(q[1], q[2])
      BY <1>3, <2>1, <3>1
    <3>3. Passed(q[1], q[2])'
      BY <1>3, <1>4, <2>1 DEF Passed
    <3>. QED BY <3>2, <3>3
  <2>2. CASE q[1] # f
    <3>1. \A m \in 1..n : calls[m].file = q[1] => m \in 1..Len(calls') /\ calls'[m] = calls[m]
      BY <1>3, <1>4, <2>2
    <3>2. \A m \in 1..Len(calls') : calls'[m] = calls[m] /\ m \in 1..n
      BY <1>4
    <3>. QED BY <2>2, <3>1, <3>2 DEF Passed
  <2>. QED BY <2>1, <2>2
<1>14. PartsOK(chunk)'
  <2>1. \A q \in GraphParts :
            q \in Range(parts) <=> /\ InParts(chunk, q) /\ q[1] \in visited
                                   /\ q[2] = NsExport \/ Passed(q[1], q[2])'
    BY <1>13 DEF PartsOK
  <2>2. Range(parts) \subseteq GraphParts /\ IsInjective(parts)
    BY DEF PartsOK
  <2>. QED BY <1>2, <1>6, <2>1, <2>2 DEF PartsOK
<1>15. PrefixOK(chunk)'
  <2>1. Range(prefix') = Range(prefix) \cup (IF wrapped THEN Range(own) ELSE {}) /\ IsInjective(prefix')
    <3>1. prefix \in Seq(GraphParts) /\ IsInjective(prefix) /\ Range(prefix) \subseteq GraphParts
      BY DEF OrderTypeOK, PrefixOK
    <3>2. ASSUME wrapped PROVE Range(prefix) \cap Range(own) = {}
      BY <1>3, <1>8, <3>1, <3>2 DEF PrefixOK
    <3>. QED BY <1>2, <1>8, <3>1, <3>2, Concatenated
  <2>2. ASSUME NEW q \in GraphParts
        PROVE  q \in Range(prefix') <=> /\ InPrefix(chunk, q) /\ q[1] \in visited
                                        /\ Unwrapped(q[1]) => Passed(q[1], q[2])'
                                        /\ ~Unwrapped(q[1]) => q[1] \in Left'
    <3>1. CASE q[1] = f /\ ~Unwrapped(f)
      BY <1>3, <1>5, <1>8, <2>1, <3>1 DEF PrefixOK, InPrefix
    <3>2. CASE q[1] = f /\ Unwrapped(f)
      BY <1>13, <2>1, <3>2 DEF PrefixOK
    <3>3. CASE q[1] # f
      BY <1>5, <1>8, <1>13, <2>1, <3>3 DEF PrefixOK
    <3>. QED BY <3>1, <3>2, <3>3
  <2>3. Range(prefix') \subseteq GraphParts
    <3>1. Range(own) \subseteq GraphParts
      BY <1>8, LenProperties, ElementOfSeq DEF Range
    <3>. QED BY <2>1, <3>1 DEF PrefixOK
  <2>. QED BY <1>2, <1>6, <2>1, <2>2, <2>3 DEF PrefixOK
<1>16. DoneInv'
  BY <1>2, OrderStays DEF DoneInv
<1>. QED BY <1>9, <1>10, <1>11, <1>12, <1>14, <1>15, <1>16

(* A live part is in a live JavaScript file.                               *)
LEMMA LivePartsAreInLiveFiles ==
    ASSUME Walked, NEW q \in liveParts
    PROVE  q \in GraphParts /\ q[1] \in LiveJs
<1>1. liveParts \subseteq GraphParts /\ graph \in Graphs /\ Closed(liveFiles, liveParts)
  BY DEF Walked, ShakeTypeOK, LiveIsClosed
<1>2. q[1] \in liveFiles
  BY <1>1 DEF Closed, NeedsOfPart
<1>3. q[1] \in Files /\ q[2] \in PartsOf(q[1])
  BY <1>1, GraphPartIs
<1>. QED BY <1>1, <1>2, <1>3, GraphFacts DEF LiveJs

(* The list of a chunk whose files are all visited is what it should be.   *)
LEMMA FinishedListIsOrdered ==
    ASSUME Walked, OrderInv, calls = <<>>, FilesOf(chunk) \subseteq visited
    PROVE  IsOrdered(chunk, prefix \o parts)
<1>. USE DEF OrderInv
<1>. DEFINE list == prefix \o parts
            n == Len(prefix)
<1>1. graph \in Graphs
  BY DEF Walked, ShakeTypeOK
<1>2. prefix \in Seq(GraphParts) /\ parts \in Seq(GraphParts)
  BY DEF OrderTypeOK
<1>3. \A q \in GraphParts : Passed(q[1], q[2]) /\ (q[1] \in visited => q[1] \in Left)
  <2>1. Len(calls) = 0
    OBVIOUS
  <2>. QED BY <2>1 DEF Passed, Left
<1>4. Range(prefix) \cap Range(parts) = {}
  BY DEF PrefixOK, PartsOK, InPrefix, InParts
<1>5. /\ list \in Seq(GraphParts) /\ n \in Nat /\ Len(parts) \in Nat
      /\ Len(list) = n + Len(parts)
      /\ \A i \in 1..n : list[i] = prefix[i]
      /\ \A i \in 1..Len(parts) : list[n + i] = parts[i]
      /\ Range(list) = Range(prefix) \cup Range(parts)
      /\ IsInjective(list)
  BY <1>2, <1>4, Concatenated DEF PrefixOK, PartsOK
<1>. HIDE DEF list
<1>6. ASSUME NEW q \in liveParts
      PROVE  q \in Range(list) <=> InParts(chunk, q) \/ InPrefix(chunk, q)
  <2>1. q \in GraphParts /\ q[1] \in LiveJs
    BY LivePartsAreInLiveFiles
  <2>2. bits[q[1]] = chunk => q[1] \in visited /\ q[1] \in Left
    BY <1>3, <2>1 DEF FilesOf
  <2>3. q \in Range(parts) <=> InParts(chunk, q)
    BY <1>3, <2>1, <2>2 DEF PartsOK, InParts
  <2>4. q \in Range(prefix) <=> InPrefix(chunk, q)
    BY <1>3, <2>1, <2>2 DEF PrefixOK, InPrefix
  <2>. QED BY <1>5, <2>3, <2>4
<1>7. ASSUME NEW i \in 1..n, Unwrapped(prefix[i][1]) PROVE StatementsUpTo(prefix[i][1], prefix[i][2]) = {}
  <2>1. prefix[i] \in Range(prefix)
    BY <1>2, LenProperties DEF Range
  <2>2. prefix[i] \in GraphParts /\ prefix[i][1] = Runtime
    BY <1>7, <2>1 DEF PrefixOK, InPrefix
  <2>3. Runtime \in Files /\ prefix[i][2] \in PartsOf(Runtime)
    BY <2>2, GraphPartIs, RuntimeAssumption
  <2>4. Targets(Runtime) = {}
    <3>1. graph.file[Runtime].records = <<>>
      BY <1>1, RuntimeAssumption
    <3>. QED BY <3>1 DEF Targets
  <2>. QED BY <1>1, <2>2, <2>3, <2>4, StatementFacts
<1>8. ASSUME NEW i \in 1..Len(list), Unwrapped(list[i][1]), list[i][2] # NsExport,
             NEW t \in StatementsUpTo(list[i][1], list[i][2]), list[i][1] \notin Reached({t}),
             NEW j \in 1..Len(list), list[j][1] \in Evaluated({t})
      PROVE  j < i
  <2>1. i \notin 1..n
    BY <1>5, <1>7, <1>8
  <2>2. i - n \in 1..Len(parts) /\ list[i] = parts[i - n]
    <3>1. i - n \in 1..Len(parts) /\ n + (i - n) = i
      BY <1>5, <2>1
    <3>. QED BY <1>5, <3>1
  <2>3. \A k \in 1..Len(parts) : parts[k][1] = list[j][1] => k < i - n
    BY <1>8, <2>2 DEF OrderedInv, Behind
  <2>4. CASE j \in 1..n
    BY <1>5, <2>1, <2>4
  <2>5. CASE j \notin 1..n
    <3>1. j - n \in 1..Len(parts) /\ n + (j - n) = j
      BY <1>5, <2>5
    <3>2. list[j] = parts[j - n]
      BY <1>5, <3>1
    <3>3. j - n < i - n
      BY <2>3, <3>1, <3>2
    <3>. QED BY <1>5, <3>3
  <2>. QED BY <2>4, <2>5
<1>9. \A i \in 1..Len(list) : ComesBehind(list, i)
  BY <1>8 DEF ComesBehind
<1>10. IsOrdered(chunk, list)
  BY <1>5, <1>6, <1>9 DEF IsOrdered
<1>. QED BY <1>10 DEF list

(* Between two chunks.                                                     *)
NothingVisited ==
    /\ visited = {} /\ calls = <<>> /\ parts = <<>> /\ prefix = <<>>
    /\ DOMAIN order \subseteq chunks
    /\ stage = "none" => order = <<>>
    /\ DoneInv

(* There is nothing to show between two chunks but for those that are      *)
(* done.                                                                   *)
LEMMA BetweenChunks == NothingVisited => OrderInv
<1>. SUFFICES ASSUME NothingVisited PROVE OrderInv
  OBVIOUS
<1>. USE DEF NothingVisited
<1>1. Len(calls) = 0 /\ calls \in Seq(Calls) /\ 1..Len(calls) = {}
  OBVIOUS
<1>2. Len(parts) = 0 /\ parts \in Seq(GraphParts) /\ 1..Len(parts) = {} /\ prefix \in Seq(GraphParts)
  OBVIOUS
<1>3. Range(parts) = {} /\ Range(prefix) = {} /\ IsInjective(parts) /\ IsInjective(prefix)
  BY DEF Range, IsInjective
<1>4. Left = {}
  BY DEF Left
<1>5. OrderTypeOK
  BY <1>1, <1>2 DEF OrderTypeOK
<1>6. StackInv /\ SeenInv /\ OrderedInv
  BY <1>1, <1>2, <1>4 DEF StackInv, SeenInv, OrderedInv
<1>7. PartsOK(chunk) /\ PrefixOK(chunk)
  BY <1>3 DEF PartsOK, PrefixOK
<1>. QED BY <1>5, <1>6, <1>7 DEF OrderInv

LEMMA BetweenChunksNext == NothingVisited' => OrderInv'
BY BetweenChunks, PTL

(* The two lists become the parts of the chunk.                            *)
LEMMA FinishChunkKeepsOrder ==
    ASSUME Walked, OrderInv, FinishChunk, UNCHANGED <<vars, linkVars>>
    PROVE  OrderInv'
<1>1. /\ visited # {} /\ calls = <<>> /\ FilesOf(chunk) \subseteq visited
      /\ order' = [c \in DOMAIN order \cup {chunk} |->
                     IF c = chunk THEN [files |-> files, parts |-> prefix \o parts] ELSE order[c]]
      /\ visited' = {} /\ calls' = <<>> /\ prefix' = <<>> /\ parts' = <<>>
      /\ UNCHANGED <<stage, chunks>> /\ UNCHANGED vars
  BY DEF FinishChunk, linkVars
<1>2. stage = "computed" /\ chunk \in chunks \ DOMAIN order /\ DOMAIN order \subseteq chunks
  BY <1>1 DEF OrderInv, OrderTypeOK
<1>3. IsOrdered(chunk, prefix \o parts)
  BY <1>1, FinishedListIsOrdered
<1>4. DoneInv'
  <2>1. \A c \in DOMAIN order' : IsOrdered(c, order'[c].parts)
    BY <1>1, <1>2, <1>3 DEF OrderInv, DoneInv
  <2>2. \A c, list : IsOrdered(c, list)' = IsOrdered(c, list)
    BY <1>1, OrderStays
  <2>. QED BY <2>1, <2>2 DEF DoneInv
<1>5. DOMAIN order' \subseteq chunks' /\ stage' # "none"
  BY <1>1, <1>2
<1>6. NothingVisited'
  BY <1>1, <1>4, <1>5 DEF NothingVisited
<1>. QED BY <1>6, BetweenChunksNext

(* The three ways to enter a file.                                         *)
LEMMA StartChunkKeepsOrder ==
    ASSUME Walked, OrderInv, StartChunk, UNCHANGED <<vars, linkVars>>
    PROVE  OrderInv'
<1>1. PICK c \in chunks \ DOMAIN order : chunk' = c /\ VisitFile(c, Runtime)
  BY DEF StartChunk
<1>2. /\ stage = "computed" /\ visited = {}
      /\ graph \in Graphs /\ liveParts \subseteq GraphParts
  BY DEF StartChunk, Walked, ShakeTypeOK
<1>3. OrderTypeOK /\ StackInv /\ SeenInv /\ OrderedInv /\ DoneInv
  BY DEF OrderInv
<1>4. calls = <<>> /\ parts = <<>> /\ prefix = <<>>
  <2>1. calls \in Seq(Calls) /\ Len(calls) \in Nat /\ \A n \in 1..Len(calls) : FALSE
    BY <1>2, <1>3, LenProperties DEF OrderTypeOK
  <2>2. Len(calls) = 0
    BY <2>1
  <2>. QED BY <1>2, <1>3, <2>1, <2>2, EmptySeq DEF OrderTypeOK
<1>5. Range(parts) = {} /\ Range(prefix) = {} /\ IsInjective(parts) /\ IsInjective(prefix)
  BY <1>4 DEF Range, IsInjective
<1>6. PartsOK(c) /\ PrefixOK(c)
  BY <1>2, <1>5 DEF PartsOK, PrefixOK
<1>7. Runtime \in Files \ visited
  BY <1>2, RuntimeAssumption
<1>. QED BY <1>1, <1>2, <1>3, <1>4, <1>6, <1>7, VisitFileKeepsOrder

LEMMA VisitNearestKeepsOrder ==
    ASSUME Walked, OrderInv, VisitNearest, UNCHANGED <<vars, linkVars>>
    PROVE  OrderInv'
<1>1. PICK f \in FilesOf(chunk) \ visited : VisitFile(chunk, f)
  BY DEF VisitNearest
<1>2. /\ visited # {} /\ calls = <<>> /\ chunk' = chunk
      /\ graph \in Graphs /\ liveParts \subseteq GraphParts /\ liveFiles \subseteq Files
  BY DEF VisitNearest, Walked, ShakeTypeOK
<1>3. /\ OrderTypeOK /\ StackInv /\ SeenInv /\ OrderedInv /\ DoneInv
      /\ PartsOK(chunk) /\ PrefixOK(chunk)
  BY DEF OrderInv
<1>4. stage = "computed" /\ Runtime \in visited /\ chunk \in chunks \ DOMAIN order
  BY <1>2, <1>3 DEF OrderTypeOK
<1>5. f \in Files \ visited
  BY <1>2 DEF FilesOf, LiveJs
<1>. QED BY <1>1, <1>2, <1>3, <1>4, <1>5, VisitFileKeepsOrder

LEMMA VisitImportKeepsOrder ==
    ASSUME Walked, OrderInv, VisitImport, UNCHANGED <<vars, linkVars>>
    PROVE  OrderInv'
<1>1. PICK i \in Unvisited(Visiting, PartAt) :
          VisitFile(chunk, Record(Visiting, Part(Visiting, PartAt).records[i]).target)
  BY DEF VisitImport
<1>2. PICK f : f = Record(Visiting, Part(Visiting, PartAt).records[i]).target
  OBVIOUS
<1>3. /\ calls # <<>> /\ chunk' = chunk /\ PartAt \in PartsOf(Visiting)
      /\ graph \in Graphs /\ liveParts \subseteq GraphParts
  BY DEF VisitImport, Walked, ShakeTypeOK
<1>4. /\ OrderTypeOK /\ StackInv /\ SeenInv /\ OrderedInv /\ DoneInv
      /\ PartsOK(chunk) /\ PrefixOK(chunk)
  BY DEF OrderInv
<1>5. Visiting \in Files /\ Visiting \in visited
  BY <1>3, <1>4, CallAtHand
<1>6. stage = "computed" /\ Runtime \in visited /\ chunk \in chunks \ DOMAIN order
  BY <1>4, <1>5 DEF OrderTypeOK
<1>7. /\ i \in 1..Len(Part(Visiting, PartAt).records)
      /\ f # NoFile /\ f \notin visited
  BY <1>2 DEF Unvisited, Follows
<1>8. RecordAt(Visiting, PartAt, i) \in RecordsOf(Visiting)
  BY <1>3, <1>5, <1>7, GraphFacts
<1>9. f \in Files /\ f \in Targets(Visiting)
  <2>1. Record(Visiting, RecordAt(Visiting, PartAt, i)).target \in Files \cup {NoFile}
    BY <1>3, <1>5, <1>8, GraphFacts
  <2>2. RecordAt(Visiting, PartAt, i) \in DOMAIN graph.file[Visiting].records
    BY <1>3, <1>5, <1>8, GraphLists
  <2>. QED BY <1>2, <1>7, <2>1, <2>2 DEF Targets, RecordAt
<1>10. VisitFile(chunk, f)
  BY <1>1, <1>2
<1>. QED BY <1>3, <1>4, <1>6, <1>7, <1>9, <1>10, VisitFileKeepsOrder

(* Every step keeps the invariant.                                         *)
LEMMA OrderStep ==
    ASSUME stage = "none" \/ Walked, LinkInv, OrderInv,
           [ChunksNext]_<<vars, linkVars, orderVars, nameVars>>
    PROVE  OrderInv'
<1>1. stage # "computed" => visited = {} /\ calls = <<>> /\ parts = <<>> /\ prefix = <<>>
  <2>1. ASSUME visited = {} PROVE calls = <<>>
    <3>1. calls \in Seq(Calls) /\ Len(calls) \in Nat /\ \A n \in 1..Len(calls) : FALSE
      BY <2>1, LenProperties DEF OrderInv, OrderTypeOK
    <3>2. Len(calls) = 0
      BY <3>1
    <3>. QED BY <3>1, <3>2, EmptySeq
  <2>. QED BY <2>1 DEF OrderInv, OrderTypeOK
<1>2. CASE stage = "none" /\ (Next \/ ComputeChunks) /\ UNCHANGED orderVars
  <2>1. order' = <<>> /\ visited' = {} /\ calls' = <<>> /\ parts' = <<>> /\ prefix' = <<>>
    BY <1>1, <1>2 DEF orderVars, OrderInv, OrderTypeOK
  <2>2. DOMAIN order' = {}
    BY <2>1
  <2>3. NothingVisited'
    BY <2>1, <2>2 DEF NothingVisited, DoneInv
  <2>. QED BY <2>3, BetweenChunksNext
<1>3. CASE Next /\ UNCHANGED <<linkVars, orderVars, nameVars>>
  <2>1. phase # "done"
    BY <1>3 DEF Next, MarkPartLive, MarkFileLive, ScanOnePart, FollowOneRecord, StartSplitting,
                MarkFileReachable, ReachOneRecord, ReachOnePart, ReachOneUse, FinishSplitting,
                Shaking, Splitting
  <2>. QED BY <1>2, <1>3, <2>1 DEF LinkInv
<1>4. CASE ComputeChunks /\ UNCHANGED <<orderVars, nameVars>>
  BY <1>2, <1>4 DEF ComputeChunks
<1>5. CASE PartsAreOrdered /\ ComputeCrossChunkDependencies /\ UNCHANGED <<orderVars, nameVars>>
  <2>1. visited = {} /\ calls = <<>> /\ parts = <<>> /\ prefix = <<>>
    <3>1. visited = {}
      BY <1>5 DEF PartsAreOrdered, OrderInv, OrderTypeOK
    <3>2. calls \in Seq(Calls) /\ Len(calls) \in Nat /\ \A n \in 1..Len(calls) : FALSE
      BY <3>1, LenProperties DEF OrderInv, OrderTypeOK
    <3>3. Len(calls) = 0
      BY <3>2
    <3>. QED BY <3>1, <3>2, <3>3, EmptySeq DEF OrderInv, OrderTypeOK
  <2>2. /\ UNCHANGED <<vars, chunks>> /\ stage' = "crossed" /\ order' = order /\ visited' = visited
        /\ calls' = calls /\ parts' = parts /\ prefix' = prefix /\ UNCHANGED vars
    BY <1>5 DEF ComputeCrossChunkDependencies, orderVars
  <2>3. DoneInv'
    BY <2>2, OrderStays DEF DoneInv, OrderInv
  <2>4. NothingVisited'
    BY <2>1, <2>2, <2>3 DEF NothingVisited, OrderInv, OrderTypeOK
  <2>. QED BY <2>4, BetweenChunksNext
<1>6. CASE UNCHANGED <<vars, linkVars, orderVars>>
  <2>1. /\ UNCHANGED vars /\ stage' = stage /\ chunks' = chunks /\ order' = order
        /\ chunk' = chunk /\ visited' = visited /\ calls' = calls /\ parts' = parts /\ prefix' = prefix
    BY <1>6 DEF linkVars, orderVars
  <2>2. /\ \A S : Reached(S)' = Reached(S) /\ Evaluated(S)' = Evaluated(S)
        /\ \A x : AllStatements(x)' = AllStatements(x) /\ Unwrapped(x)' = Unwrapped(x)
        /\ \A x, y : StatementsUpTo(x, y)' = StatementsUpTo(x, y)
        /\ \A c, q : InParts(c, q)' = InParts(c, q) /\ InPrefix(c, q)' = InPrefix(c, q)
        /\ \A c, list : IsOrdered(c, list)' = IsOrdered(c, list)
        /\ GraphParts' = GraphParts /\ graph' = graph
    BY <2>1, OrderStays
  <2>3. Left' = Left /\ \A f, p : Passed(f, p)' = Passed(f, p)
    BY <2>1 DEF Left, Passed
  <2>4. OrderTypeOK'
    BY <2>1, <2>2 DEF OrderInv, OrderTypeOK
  <2>5. StackInv' /\ SeenInv'
    BY <2>1, <2>2, <2>3 DEF OrderInv, StackInv, SeenInv
  <2>6. OrderedInv'
    <3>1. \A f, p, i : Behind(f, p, i)' = Behind(f, p, i)
      BY <2>1, <2>2, <2>3 DEF Behind
    <3>. QED BY <2>1, <3>1 DEF OrderInv, OrderedInv
  <2>7. PartsOK(chunk)' /\ PrefixOK(chunk)'
    BY <2>1, <2>2, <2>3 DEF OrderInv, PartsOK, PrefixOK
  <2>8. DoneInv'
    BY <2>1, <2>2 DEF OrderInv, DoneInv
  <2>. QED BY <2>4, <2>5, <2>6, <2>7, <2>8 DEF OrderInv
<1>7. CASE FindImportedParts /\ UNCHANGED <<vars, linkVars, nameVars>>
  <2>1. UNCHANGED <<vars, linkVars>>
    BY <1>7
  <2>2. stage = "computed"
    <3>1. visited # {} \/ StartChunk
      <4>1. ASSUME calls # <<>> PROVE visited # {}
        BY <4>1, <1>1, EmptySeq, LenProperties DEF OrderInv, OrderTypeOK
      <4>. QED BY <1>7, <4>1 DEF FindImportedParts, VisitNearest, VisitImport, VisitPart, LeaveFile,
                                 FinishChunk
    <3>. QED BY <3>1 DEF StartChunk, OrderInv, OrderTypeOK
  <2>3. Walked /\ graph \in Graphs /\ liveParts \subseteq GraphParts
    BY <2>2 DEF Walked, ShakeTypeOK
  <2>. QED BY <1>7, <2>1, <2>3, StartChunkKeepsOrder, VisitNearestKeepsOrder, VisitImportKeepsOrder,
              VisitPartKeepsOrder, LeaveFileKeepsOrder, FinishChunkKeepsOrder DEF FindImportedParts
<1>8. CASE (FinalizeChunkPaths \/ HashChunk \/ AppendImport \/ AppendIsolatedHash)
           /\ UNCHANGED <<vars, linkVars, orderVars>>
  BY <1>6, <1>8
<1>. QED BY <1>3, <1>4, <1>5, <1>6, <1>7, <1>8 DEF ChunksNext

(* When all chunks are done a live part is in one place.                   *)
LEMMA LivePartsAreInOneChunk ==
    ASSUME Walked, LinkInv, stage = "computed", OrderInv, PartsAreOrdered
    PROVE  LivePartsAreEmittedOnce
<1>1. /\ DOMAIN order = chunks /\ chunks = ChunkKeys
      /\ \A c \in chunks : IsOrdered(c, order[c].parts)
  BY DEF PartsAreOrdered, OrderInv, DoneInv, LinkInv
<1>2. ASSUME NEW c \in chunks
      PROVE  /\ DOMAIN order[c].parts = 1..Len(order[c].parts)
             /\ IsInjective(order[c].parts)
             /\ \A q \in liveParts : q \in Range(order[c].parts) <=> InParts(c, q) \/ InPrefix(c, q)
  <2>1. order[c].parts \in Seq(GraphParts)
    BY <1>1, <1>2 DEF IsOrdered
  <2>. QED BY <1>1, <1>2, <2>1, LenProperties DEF IsOrdered
<1>3. ASSUME NEW q \in liveParts
      PROVE  IF Unwrapped(q[1]) /\ q[2] # NsExport /\ ~ShouldIncludePart(q[1], q[2])
             THEN PlacesOf(q) = {}
             ELSE \E i \in DOMAIN order[bits[q[1]]].parts : PlacesOf(q) = {<<bits[q[1]], i>>}
  <2>. DEFINE b == bits[q[1]]
              left == Unwrapped(q[1]) /\ q[2] # NsExport /\ ~ShouldIncludePart(q[1], q[2])
  <2>1. q[1] \in LiveJs
    BY LivePartsAreInLiveFiles
  <2>2. b \in chunks
    BY <1>1, <2>1 DEF ChunkKeys
  <2>3. \A c \in chunks : q \in Range(order[c].parts) <=> c = b /\ ~left
    BY <1>2, <2>2 DEF InParts, InPrefix
  <2>4. \A c \in chunks : c # b => \A j \in DOMAIN order[c].parts : order[c].parts[j] # q
    BY <2>3 DEF Range
  <2>5. CASE left
    <3>1. \A c \in chunks : \A j \in DOMAIN order[c].parts : order[c].parts[j] # q
      BY <2>3, <2>5 DEF Range
    <3>2. PlacesOf(q) = {}
      BY <3>1 DEF PlacesOf
    <3>. QED BY <2>5, <3>2
  <2>6. CASE ~left
    <3>1. PICK i \in DOMAIN order[b].parts : order[b].parts[i] = q
      BY <2>2, <2>3, <2>6 DEF Range
    <3>2. \A j \in DOMAIN order[b].parts : order[b].parts[j] = q => j = i
      BY <1>2, <2>2, <3>1 DEF IsInjective
    <3>. HIDE DEF b
    <3>3. PlacesOf(q) = {<<b, i>>}
      BY <2>2, <2>4, <3>1, <3>2 DEF PlacesOf
    <3>. QED BY <2>6, <3>1, <3>3 DEF b
  <2>. QED BY <2>5, <2>6
<1>. QED BY <1>3 DEF LivePartsAreEmittedOnce

(* And it is behind what it imports.                                       *)
LEMMA DependenciesAreFirst ==
    ASSUME OrderInv, PartsAreOrdered
    PROVE  DependenciesComeFirst
<1>1. ASSUME NEW c \in chunks
      PROVE  /\ DOMAIN order[c].parts = 1..Len(order[c].parts)
             /\ \A i \in 1..Len(order[c].parts) : ComesBehind(order[c].parts, i)
  <2>1. IsOrdered(c, order[c].parts)
    BY <1>1 DEF PartsAreOrdered, OrderInv, DoneInv
  <2>2. order[c].parts \in Seq(GraphParts)
    BY <2>1 DEF IsOrdered
  <2>. QED BY <2>1, <2>2, LenProperties DEF IsOrdered
<1>. QED BY <1>1 DEF DependenciesComeFirst, ComesBehind

(* In every linked graph each live part is printed once, in the chunk of   *)
(* its file, and behind all that the import statements up to it lead to,   *)
(* unless that leads back to its file, although one recursive function     *)
(* does it with a set of visited files (find_imported_parts_in_js_order).  *)
(* Where an import leads back, its file is still being visited: of two     *)
(* calls on the stack the lower leads to the upper. Whatever else was      *)
(* visited has been left, with all that it leads to.                       *)
THEOREM PartsAreInOrder == ChunksSpec => []PartsArePrintedInOrder
<1>1. ChunksSpec => [](stage = "none" \/ Walked)
  <2>1. LinksSpec => [](/\ ShakeTypeOK /\ LiveIsClosed /\ EnteredInv /\ EntryBitsAreReachability
                        /\ LinkInv)
    BY LinksAreWalks, LinksCorrect, ShakeTypeCorrect, NothingNeededIsShaken, EnteredCorrect,
       BitsAndDistancesAreExact, PTL
  <2>2. ShakeTypeOK /\ LiveIsClosed /\ EnteredInv /\ EntryBitsAreReachability /\ LinkInv
        => stage = "none" \/ Walked
    BY DEF Walked, LinkInv
  <2>. QED BY <2>1, <2>2, ChunksAreLinks, PTL
<1>2. ChunksSpec => []LinkInv
  BY ChunksAreLinks, LinksCorrect, PTL
<1>3. ChunksInit => OrderInv
  <2>1. ChunksInit => NothingVisited
    <3>. SUFFICES ASSUME ChunksInit PROVE NothingVisited
      OBVIOUS
    <3>1. /\ visited = {} /\ calls = <<>> /\ parts = <<>> /\ prefix = <<>>
          /\ DOMAIN order = {} /\ order = <<>>
      BY DEF ChunksInit, OrderInit
    <3>. QED BY <3>1 DEF NothingVisited, DoneInv
  <2>. QED BY <2>1, BetweenChunks
<1>4. (stage = "none" \/ Walked) /\ LinkInv /\ OrderInv
      /\ [ChunksNext]_<<vars, linkVars, orderVars, nameVars>> => OrderInv'
  BY OrderStep
<1>5. (stage = "none" \/ Walked) /\ LinkInv /\ OrderInv => PartsArePrintedInOrder
  BY LivePartsAreInOneChunk, DependenciesAreFirst DEF PartsArePrintedInOrder
<1>. QED BY <1>1, <1>2, <1>3, <1>4, <1>5, PTL DEF ChunksSpec

-----------------------------------------------------------------------------
(* The names of the chunks                                                 *)

(* No chunk has the key of the marks at the start.                         *)
LEMMA ChunksAreNamed ==
    ASSUME Walked, EveryLiveFileIsReached, LinkInv, stage # "none"
    PROVE  {} \notin chunks
<1>1. ASSUME NEW f \in LiveJs PROVE bits[f] # {}
  BY DEF Walked, EveryLiveFileIsReached, LiveJs
<1>. QED BY <1>1 DEF LinkInv, ChunkKeys

(* The stage in which finalize_chunk_paths runs.                           *)
FinalStage == stage = IF graph.codeSplitting THEN "crossed" ELSE "computed"

(* What a chunk imports is a chunk.                                        *)
LEMMA ImportsAreChunks ==
    ASSUME Walked, LinkInv, FinalStage, NEW c \in chunks
    PROVE  CrossChunkImports(c) \subseteq chunks
<1>1. CASE ~graph.codeSplitting
  BY <1>1 DEF CrossChunkImports
<1>2. CASE graph.codeSplitting
  <2>1. /\ chunks = ChunkKeys
        /\ imports[c] = [o \in ImportedChunks(c) |-> ImportsFrom(c, o)]
        /\ dynamic[c] = DynamicImports(c)
    BY <1>2 DEF FinalStage, LinkInv
  <2>2. DOMAIN imports[c] \subseteq chunks
    BY <2>1 DEF ImportedChunks
  <2>3. dynamic[c] \subseteq chunks
    BY <1>2, <2>1, DynamicImportsAreEntries
  <2>. QED BY <2>2, <2>3 DEF CrossChunkImports
<1>. QED BY <1>1, <1>2

(* ReachedFrom is the least set closed under imports.                      *)
LEMMA ReachedFromIs ==
    /\ \A c \in chunks : c \in ReachedFrom(c)
    /\ \A c, d \in chunks : \A o \in CrossChunkImports(d) :
          d \in ReachedFrom(c) /\ o \in chunks => o \in ReachedFrom(c)
    /\ \A c \in chunks : \A S \in SUBSET chunks :
          c \in S /\ (\A d \in S : CrossChunkImports(d) \subseteq S) => ReachedFrom(c) \subseteq S
BY DEF ReachedFrom

(* What the names are computed from does not change.                       *)
LEMMA NamesStay ==
    ASSUME UNCHANGED <<vars, linkVars>>
    PROVE  /\ \A c : CrossChunkImports(c)' = CrossChunkImports(c)
           /\ \A c : ReachedFrom(c)' = ReachedFrom(c)
           /\ FinalStage' = FinalStage /\ chunks' = chunks
           /\ graph' = graph /\ stage' = stage
<1>1. /\ graph' = graph /\ chunks' = chunks /\ imports' = imports /\ dynamic' = dynamic
      /\ stage' = stage
  BY DEF vars, linkVars
<1>2. \A c : CrossChunkImports(c)' = CrossChunkImports(c)
  BY <1>1 DEF CrossChunkImports
<1>3. \A c : ReachedFrom(c)' = ReachedFrom(c)
  BY <1>1, <1>2 DEF ReachedFrom
<1>. QED BY <1>1, <1>2, <1>3 DEF FinalStage

(* The chunks a traversal has met: hashed, or still on the stack.          *)
Hashes == Range(appending) \cup Range(digest)
Keys == IF appending = <<>> THEN {} ELSE {Key}

(* The marks of a traversal are the chunks it has met, so that those of    *)
(* earlier traversals never stop it; what it has hashed imports nothing it *)
(* has not met.                                                            *)
TraversalInv ==
    /\ appending \in Seq(chunks) /\ digest \in Seq(chunks)
    /\ marks \in [chunks -> {{}} \cup DOMAIN hashed \cup Keys]
    /\ appending = <<>> => digest = <<>>
    /\ appending # <<>> =>
           /\ Key \in hashing \ DOMAIN hashed
           /\ {c \in chunks : marks[c] = Key} = Hashes
           /\ IsInjective(appending) /\ IsInjective(digest)
           /\ Range(appending) \cap Range(digest) = {}
           /\ \A c \in Range(digest) : CrossChunkImports(c) \subseteq Hashes
           /\ Hashes \subseteq ReachedFrom(Key)

(* The inductive invariant of finalize_chunk_paths.                        *)
NamesInv ==
    /\ ~finalizing => appending = <<>> /\ digest = <<>> /\ hashed = <<>>
    /\ finalizing =>
           /\ FinalStage
           /\ hashing \subseteq chunks /\ DOMAIN hashed \subseteq hashing
           /\ \A c \in DOMAIN hashed : Range(hashed[c]) = ReachedFrom(c) /\ IsInjective(hashed[c])
           /\ TraversalInv

(* What the traversals need to know of the chunks.                         *)
Grounded ==
    FinalStage => {} \notin chunks /\ \A c \in chunks : CrossChunkImports(c) \subseteq chunks

(* A traversal starts.                                                     *)
LEMMA HashChunkKeepsNames ==
    ASSUME NamesInv, Grounded, HashChunk, UNCHANGED <<vars, linkVars>>
    PROVE  NamesInv'
<1>1. PICK c \in hashing \ DOMAIN hashed :
          IF IsVisited(c, c) THEN hashed' = Hashed(c, <<>>) /\ UNCHANGED <<marks, appending>>
          ELSE marks' = [marks EXCEPT ![c] = c] /\ appending' = <<c>> /\ UNCHANGED hashed
  BY DEF HashChunk
<1>2. /\ finalizing /\ FinalStage /\ TraversalInv /\ appending = <<>> /\ digest = <<>>
      /\ hashing \subseteq chunks /\ DOMAIN hashed \subseteq hashing
      /\ c \in chunks /\ c # {}
  BY DEF HashChunk, NamesInv, TraversalInv, Grounded
<1>3. marks \in [chunks -> {{}} \cup DOMAIN hashed]
  BY <1>2 DEF TraversalInv, Keys
<1>4. ~IsVisited(c, c)
  BY <1>1, <1>2, <1>3 DEF IsVisited
<1>5. /\ marks' = [marks EXCEPT ![c] = c] /\ appending' = <<c>>
      /\ UNCHANGED <<finalizing, hashing, digest, hashed>>
  BY <1>1, <1>4 DEF HashChunk
<1>6. appending' # <<>> /\ Key' = c /\ Range(appending') = {c} /\ Range(digest') = {}
      /\ IsInjective(appending') /\ IsInjective(digest')
  BY <1>2, <1>5 DEF Key, Range, IsInjective
<1>7. Hashes' = {c} /\ Keys' = {c}
  BY <1>6 DEF Hashes, Keys
<1>8. {d \in chunks : marks'[d] = c} = {c}
  BY <1>1, <1>2, <1>3, <1>5
<1>9. marks' \in [chunks -> {{}} \cup DOMAIN hashed \cup {c}]
  BY <1>2, <1>3, <1>5
<1>10. TraversalInv'
  <2>1. appending' \in Seq(chunks) /\ digest' \in Seq(chunks)
    BY <1>2, <1>5
  <2>2. c \in ReachedFrom(c)
    BY <1>2, ReachedFromIs
  <2>. QED BY <1>1, <1>2, <1>5, <1>6, <1>7, <1>8, <1>9, <2>1, <2>2, NamesStay DEF TraversalInv
<1>. QED BY <1>2, <1>5, <1>10, NamesStay DEF NamesInv

(* It meets a chunk.                                                       *)
LEMMA AppendImportKeepsNames ==
    ASSUME NamesInv, Grounded, AppendImport, UNCHANGED <<vars, linkVars>>
    PROVE  NamesInv'
<1>1. PICK o \in Unhashed(Last(appending)) :
          marks' = [marks EXCEPT ![o] = Key] /\ appending' = Append(appending, o)
  BY DEF AppendImport
<1>2. /\ finalizing /\ FinalStage /\ TraversalInv /\ appending # <<>>
      /\ hashing \subseteq chunks /\ DOMAIN hashed \subseteq hashing
      /\ UNCHANGED <<finalizing, hashing, digest, hashed>>
  BY DEF AppendImport, NamesInv
<1>. DEFINE d == Last(appending)
<1>3. /\ appending \in Seq(chunks) /\ d \in chunks /\ Len(appending) \in Nat \ {0}
      /\ d \in Range(appending)
  <2>1. appending \in Seq(chunks)
    BY <1>2 DEF TraversalInv
  <2>2. /\ Last(appending) \in chunks /\ Len(appending) \in Nat \ {0}
        /\ Range(appending) = Range(Front(appending)) \cup {Last(appending)}
    BY <1>2, <2>1, FrontAndLast
  <2>. QED BY <2>1, <2>2
<1>4. o \in chunks /\ o \in CrossChunkImports(d) /\ marks[o] # Key
  BY <1>1, <1>2, <1>3 DEF Unhashed, IsVisited, Grounded
<1>. HIDE DEF d
<1>5. o \notin Hashes
  BY <1>2, <1>4 DEF TraversalInv
<1>6. /\ appending' \in Seq(chunks) /\ appending' # <<>> /\ Key' = Key
      /\ Range(appending') = Range(appending) \cup {o} /\ IsInjective(appending')
  BY <1>1, <1>2, <1>3, <1>4, <1>5, Appended DEF Key, TraversalInv, Hashes
<1>7. Hashes' = Hashes \cup {o} /\ Keys' = {Key} /\ Keys = {Key}
  BY <1>2, <1>6 DEF Hashes, Keys
<1>8. marks' \in [chunks -> {{}} \cup DOMAIN hashed \cup {Key}]
  BY <1>1, <1>2, <1>4, <1>7 DEF TraversalInv
<1>9. {c \in chunks : marks'[c] = Key} = {c \in chunks : marks[c] = Key} \cup {o}
  BY <1>1, <1>2, <1>4 DEF TraversalInv
<1>10. o \in ReachedFrom(Key)
  <2>1. d \in ReachedFrom(Key) /\ Key \in chunks
    BY <1>2, <1>3 DEF TraversalInv, Hashes
  <2>. QED BY <1>3, <1>4, <2>1, ReachedFromIs
<1>11. TraversalInv'
  <2>1. \A c \in Range(digest) : CrossChunkImports(c) \subseteq Hashes'
    BY <1>2, <1>7 DEF TraversalInv
  <2>2. {c \in chunks : marks'[c] = Key} = Hashes'
    BY <1>2, <1>7, <1>9 DEF TraversalInv
  <2>3. Range(appending') \cap Range(digest) = {}
    BY <1>2, <1>5, <1>6 DEF TraversalInv, Hashes
  <2>4. Hashes' \subseteq ReachedFrom(Key)
    BY <1>2, <1>7, <1>10 DEF TraversalInv
  <2>5. Key \in hashing \ DOMAIN hashed /\ IsInjective(digest) /\ digest \in Seq(chunks)
    BY <1>2 DEF TraversalInv
  <2>. QED BY <1>2, <1>6, <1>7, <1>8, <2>1, <2>2, <2>3, <2>4, <2>5, NamesStay DEF TraversalInv
<1>. QED BY <1>2, <1>11, NamesStay DEF NamesInv

(* It hashes a chunk; the last one is the chunk it started from, and then  *)
(* it has met all that the chunk can load.                                 *)
LEMMA AppendIsolatedHashKeepsNames ==
    ASSUME NamesInv, Grounded, AppendIsolatedHash, UNCHANGED <<vars, linkVars>>
    PROVE  NamesInv'
<1>. DEFINE d == Last(appending)
            now == Append(digest, d)
<1>1. /\ finalizing /\ FinalStage /\ TraversalInv /\ appending # <<>>
      /\ hashing \subseteq chunks /\ DOMAIN hashed \subseteq hashing
      /\ UNCHANGED <<finalizing, hashing, marks>>
      /\ Unhashed(d) = {} /\ appending' = Front(appending)
      /\ IF Len(appending) = 1 THEN hashed' = Hashed(Key, now) /\ digest' = <<>>
                               ELSE digest' = now /\ UNCHANGED hashed
  BY DEF AppendIsolatedHash, NamesInv
<1>. HIDE DEF d
<1>2. appending \in Seq(chunks) /\ digest \in Seq(chunks)
  BY <1>1 DEF TraversalInv
<1>3. /\ d \in chunks /\ Len(appending) \in Nat \ {0} /\ d = appending[Len(appending)]
      /\ Front(appending) \in Seq(chunks) /\ Len(Front(appending)) = Len(appending) - 1
      /\ \A i \in 1..(Len(appending) - 1) : Front(appending)[i] = appending[i]
      /\ Range(appending) = Range(Front(appending)) \cup {d}
      /\ IsInjective(Front(appending)) /\ d \notin Range(Front(appending))
  BY <1>1, <1>2, FrontAndLast DEF d, TraversalInv
<1>4. d \notin Range(digest)
  BY <1>1, <1>3 DEF TraversalInv
<1>5. now \in Seq(chunks) /\ Range(now) = Range(digest) \cup {d} /\ IsInjective(now)
  BY <1>1, <1>2, <1>3, <1>4, Appended DEF TraversalInv
<1>. HIDE DEF now
<1>6. \A o \in CrossChunkImports(d) : o \in Hashes
  BY <1>1, <1>3 DEF Unhashed, IsVisited, Grounded, TraversalInv
<1>7. Hashes = Range(Front(appending)) \cup Range(now)
  BY <1>3, <1>5 DEF Hashes
<1>8. \A c \in Range(now) : CrossChunkImports(c) \subseteq Hashes
  BY <1>1, <1>5, <1>6 DEF TraversalInv
<1>9. Key \in hashing /\ Key \notin DOMAIN hashed /\ Key \in chunks
  BY <1>1 DEF TraversalInv
<1>10. CASE Len(appending) = 1
  <2>1. Front(appending) = <<>> /\ Range(Front(appending)) = {} /\ d = Key
    BY <1>3, <1>10, EmptySeq DEF Key, Range
  <2>2. Range(now) = Hashes
    BY <1>7, <2>1
  <2>3. Range(now) = ReachedFrom(Key)
    <3>1. Hashes \subseteq ReachedFrom(Key) /\ Hashes \subseteq chunks
      BY <1>1 DEF TraversalInv
    <3>2. Key \in Hashes
      BY <1>3, <2>1 DEF Hashes
    <3>. QED BY <1>8, <1>9, <2>2, <3>1, <3>2, ReachedFromIs
  <2>4. /\ hashed' = Hashed(Key, now) /\ digest' = <<>> /\ appending' = <<>> /\ marks' = marks
    BY <1>1, <1>10, <2>1
  <2>5. /\ DOMAIN hashed' = DOMAIN hashed \cup {Key} /\ hashed'[Key] = now
        /\ \A c \in DOMAIN hashed : hashed'[c] = hashed[c]
    BY <1>9, <2>4 DEF Hashed
  <2>6. \A c \in DOMAIN hashed' : Range(hashed'[c]) = ReachedFrom(c) /\ IsInjective(hashed'[c])
    BY <1>1, <1>5, <2>3, <2>5 DEF NamesInv
  <2>7. marks' \in [chunks -> {{}} \cup DOMAIN hashed' \cup Keys']
    BY <1>1, <2>4, <2>5 DEF TraversalInv, Keys
  <2>8. TraversalInv'
    BY <2>4, <2>7, NamesStay DEF TraversalInv
  <2>. QED BY <1>1, <1>9, <2>5, <2>6, <2>8, NamesStay DEF NamesInv
<1>11. CASE Len(appending) # 1
  <2>1. digest' = now /\ hashed' = hashed /\ appending' = Front(appending) /\ marks' = marks
    BY <1>1, <1>11
  <2>2. appending' # <<>> /\ Key' = Key
    BY <1>3, <1>11, <2>1 DEF Key
  <2>3. Hashes' = Hashes /\ Keys' = {Key} /\ Keys = {Key}
    BY <1>1, <1>7, <2>1, <2>2 DEF Hashes, Keys
  <2>4. TraversalInv'
    <3>1. Range(appending') \cap Range(digest') = {}
      BY <1>1, <1>3, <1>5, <2>1 DEF TraversalInv
    <3>2. marks' \in [chunks -> {{}} \cup DOMAIN hashed' \cup Keys']
      BY <1>1, <2>1, <2>3 DEF TraversalInv
    <3>3. {c \in chunks : marks'[c] = Key} = Hashes' /\ Hashes' \subseteq ReachedFrom(Key)
      BY <1>1, <2>1, <2>3 DEF TraversalInv
    <3>4. \A c \in Range(digest') : CrossChunkImports(c) \subseteq Hashes'
      BY <1>8, <2>1, <2>3
    <3>. QED BY <1>1, <1>3, <1>5, <1>9, <2>1, <2>2, <3>1, <3>2, <3>3, <3>4, NamesStay DEF TraversalInv
  <2>. QED BY <1>1, <2>1, <2>4, NamesStay DEF NamesInv
<1>. QED BY <1>10, <1>11

(* Every step keeps the invariant.                                         *)
LEMMA NamesCorrect ==
    ASSUME NamesInv, Grounded, LinkInv, [ChunksNext]_<<vars, linkVars, orderVars, nameVars>>
    PROVE  NamesInv'
<1>1. ASSUME ~finalizing, UNCHANGED nameVars PROVE NamesInv'
  BY <1>1 DEF NamesInv, nameVars
<1>2. CASE Next /\ UNCHANGED <<linkVars, orderVars, nameVars>>
  <2>1. phase # "done"
    BY <1>2 DEF Next, MarkPartLive, MarkFileLive, ScanOnePart, FollowOneRecord, StartSplitting,
                MarkFileReachable, ReachOneRecord, ReachOnePart, ReachOneUse, FinishSplitting,
                Shaking, Splitting
  <2>. QED BY <1>1, <1>2, <2>1 DEF LinkInv, NamesInv, FinalStage
<1>3. CASE ComputeChunks /\ UNCHANGED <<orderVars, nameVars>>
  BY <1>1, <1>3 DEF ComputeChunks, NamesInv, FinalStage
<1>4. CASE PartsAreOrdered /\ ComputeCrossChunkDependencies /\ UNCHANGED <<orderVars, nameVars>>
  BY <1>1, <1>4 DEF ComputeCrossChunkDependencies, NamesInv, FinalStage
<1>5. CASE UNCHANGED <<vars, linkVars, nameVars>>
  <2>1. /\ UNCHANGED <<vars, linkVars>> /\ UNCHANGED nameVars
        /\ UNCHANGED <<finalizing, hashing, marks, appending, digest, hashed>>
    BY <1>5 DEF nameVars
  <2>2. Hashes' = Hashes /\ Keys' = Keys /\ Key' = Key
    BY <2>1 DEF Hashes, Keys, Key
  <2>3. TraversalInv' = TraversalInv
    BY <2>1, <2>2, NamesStay DEF TraversalInv
  <2>. QED BY <2>1, <2>3, NamesStay DEF NamesInv
<1>6. CASE FinalizeChunkPaths /\ UNCHANGED <<vars, linkVars, orderVars>>
  <2>1. /\ ~finalizing /\ finalizing' /\ FinalStage /\ hashing' \subseteq chunks
        /\ marks' = [c \in chunks |-> {}] /\ UNCHANGED <<appending, digest, hashed>>
        /\ appending = <<>> /\ digest = <<>> /\ hashed = <<>> /\ UNCHANGED <<vars, linkVars>>
    BY <1>6 DEF FinalizeChunkPaths, NamesInv, FinalStage
  <2>2. DOMAIN hashed' = {}
    BY <2>1
  <2>3. TraversalInv'
    BY <2>1, NamesStay DEF TraversalInv
  <2>. QED BY <2>1, <2>2, <2>3, NamesStay DEF NamesInv
<1>7. CASE (HashChunk \/ AppendImport \/ AppendIsolatedHash) /\ UNCHANGED <<vars, linkVars, orderVars>>
  BY <1>7, HashChunkKeepsNames, AppendImportKeepsNames, AppendIsolatedHashKeepsNames
<1>. QED BY <1>2, <1>3, <1>4, <1>5, <1>6, <1>7 DEF ChunksNext

(* In every linked graph the name of a chunk hashes exactly the chunks it  *)
(* can load, each once, although they import each other in circles and the *)
(* traversals of all chunks share one array of marks that nothing resets   *)
(* (finalize_chunk_paths).                                                 *)
THEOREM NamesTellContentsApart == ChunksSpec => []NamesFollowContents
<1>1. ChunksSpec => [](stage = "none" \/ (Walked /\ EveryLiveFileIsReached))
  <2>1. LinksSpec => [](/\ ShakeTypeOK /\ LiveIsClosed /\ EnteredInv /\ EntryBitsAreReachability
                        /\ EveryLiveFileIsReached /\ LinkInv)
    BY LinksAreWalks, LinksCorrect, ShakeTypeCorrect, NothingNeededIsShaken, EnteredCorrect,
       BitsAndDistancesAreExact, WhatIsKeptIsReached, PTL
  <2>2. ShakeTypeOK /\ LiveIsClosed /\ EnteredInv /\ EntryBitsAreReachability
        /\ EveryLiveFileIsReached /\ LinkInv
        => stage = "none" \/ (Walked /\ EveryLiveFileIsReached)
    BY DEF Walked, LinkInv
  <2>. QED BY <2>1, <2>2, ChunksAreLinks, PTL
<1>2. ChunksSpec => []LinkInv
  BY ChunksAreLinks, LinksCorrect, PTL
<1>3. (stage = "none" \/ (Walked /\ EveryLiveFileIsReached)) /\ LinkInv => Grounded
  BY ChunksAreNamed, ImportsAreChunks DEF Grounded, FinalStage
<1>4. ChunksInit => NamesInv
  BY DEF ChunksInit, NamesInv
<1>5. NamesInv /\ Grounded /\ LinkInv /\ [ChunksNext]_<<vars, linkVars, orderVars, nameVars>>
      => NamesInv'
  BY NamesCorrect
<1>6. NamesInv => NamesFollowContents
  BY DEF NamesInv, NamesFollowContents
<1>. QED BY <1>1, <1>2, <1>3, <1>4, <1>5, <1>6, PTL DEF ChunksSpec
=============================================================================
