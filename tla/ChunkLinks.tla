------------------------------ MODULE ChunkLinks ------------------------------
(***************************************************************************)
(* The JavaScript chunks of a linked graph and what they import from each  *)
(* other (src/internal/linker/mod.rs).  When the walks of TreeShaking are  *)
(* over, compute_chunks groups the live files by their entry bits, and     *)
(* compute_cross_chunk_dependencies finds what crosses a boundary.         *)
(*                                                                         *)
(* A chunk is named by its entry bits, the key of the code's map.  A part  *)
(* declares one top-level symbol, which has the part's name, and uses the  *)
(* symbols of the parts it depends on.  CSS chunks are left out.           *)
(***************************************************************************)
EXTENDS TreeShaking

(* The symbols an entry point's chunk hands to its importer.  The exports  *)
(* object is forced only for output formats that cannot be split.          *)
EntrySymbols(g, f) ==
    (IF g.file[f].wrap # "cjs" THEN g.exports[f] ELSE {})
    \cup (IF g.file[f].wrap = "none" THEN {} ELSE {<<f, g.file[f].wrapper>>})

(* What the earlier steps of the linker add to a graph: every entry point  *)
(* has a part that keeps its public symbols (create_entry_point_part), and *)
(* a dynamic import of an internal file leads to a JavaScript file.        *)
Linked(g) ==
    /\ g.exports \in [Files -> SUBSET (Files \X Nat)]
    /\ \A f \in ElementsOf(g.entries) \cup DynamicTargets(g) :
           g.file[f].kind = "js" =>
               \E p \in 1..Len(g.file[f].parts) :
                   /\ ~g.file[f].parts[p].removable
                   /\ EntrySymbols(g, f) \subseteq
                          {<<d.file, d.part>> : d \in ElementsOf(g.file[f].parts[p].dependencies)}
    /\ \A f \in Files : \A r \in 1..Len(g.file[f].records) :
           LET record == g.file[f].records[r]
           IN  record.kind = "dynamic" /\ record.target # NoFile
                   => g.file[record.target].kind = "js"

ASSUME LinkedAssumption == \A g \in Graphs : Linked(g)

VARIABLES
    stage,      \* "none", "computed", "crossed"
    chunks,     \* the keys of the JavaScript chunks
    imports,    \* per chunk, imports_from_other_chunks: chunk |-> symbols
    exports,    \* per chunk, the symbols of exports_to_other_chunks
    dynamic     \* per chunk, the chunks it imports dynamically

linkVars == <<stage, chunks, imports, exports, dynamic>>

LiveJs == {f \in liveFiles : graph.file[f].kind = "js"}

(* files_with_parts_in_chunk                                               *)
FilesOf(c) == {f \in LiveJs : bits[f] = c}

(* The entry points a chunk is the entry chunk of: one, or none.           *)
EntriesOf(c) == {i \in 1..Len(entries) : graph.file[entries[i]].kind = "js" /\ c = {i}}

(* entry_point_chunk_index of a file that is an entry point once.          *)
EntryChunk(f) == {CHOOSE i \in 1..Len(entries) : entries[i] = f}

-----------------------------------------------------------------------------
(* compute_cross_chunk_dependencies                                        *)

(* chunk_index of a symbol, set for the symbols of the live parts.         *)
Owners(symbol) == {c \in chunks : symbol[1] \in FilesOf(c) /\ symbol \in liveParts}

(* The symbols a part uses.  Those a CommonJS file declares and uses stay  *)
(* behind its wrapper.                                                     *)
UsedSymbols(f, p) ==
    {<<d.file, d.part>> : d \in
        {e \in ElementsOf(Part(f, p).dependencies) :
            ~( /\ graph.file[f].wrap = "cjs" /\ e.file = f
               /\ e.part # graph.file[f].wrapper )}}

ChunkParts(c) == {q \in liveParts : q[1] \in FilesOf(c)}

ImportsByChunk(c) ==
    (UNION {UsedSymbols(q[1], q[2]) : q \in ChunkParts(c)})
    \cup (UNION {EntrySymbols(graph, entries[i]) : i \in EntriesOf(c)})

ImportsFrom(c, other) == {s \in ImportsByChunk(c) : other \in Owners(s) \ {c}}

(* Mutant: an entry point's chunk imports for its effects alone.           *)
ImportedChunks_OfEntries(c) == {o \in chunks \ {c} : EntriesOf(c) \cap o # {}}

(* A chunk imports the owners of its symbols; an entry point's chunk also  *)
(* imports, for their effects, all the chunks its entry point reaches.     *)
ImportedChunks(c) ==
    {o \in chunks \ {c} : ImportsFrom(c, o) # {} \/ EntriesOf(c) \cap o # {}}

DynamicallyImported(c) ==
    UNION {{Record(q[1], r).target : r \in
               {r \in ElementsOf(Part(q[1], q[2]).records) :
                   /\ Record(q[1], r).kind = "dynamic"
                   /\ Record(q[1], r).target # NoFile}} : q \in ChunkParts(c)}

DynamicImports(c) == {EntryChunk(f) : f \in DynamicallyImported(c)} \ {c}

-----------------------------------------------------------------------------

LinksInit ==
    /\ Init
    /\ stage = "none"
    /\ chunks = {}
    /\ imports = <<>> /\ exports = <<>> /\ dynamic = <<>>

(* compute_chunks: a chunk for every JavaScript entry point, and one for   *)
(* every other set of entry points a live file has.                        *)
ComputeChunks ==
    /\ phase = "done" /\ stage = "none"
    /\ chunks' = {bits[f] : f \in LiveJs}
                  \cup {{i} : i \in {i \in 1..Len(entries) : graph.file[entries[i]].kind = "js"}}
    /\ stage' = "computed"
    /\ UNCHANGED <<vars, imports, exports, dynamic>>

ComputeCrossChunkDependencies ==
    /\ stage = "computed" /\ graph.codeSplitting
    /\ imports' = [c \in chunks |-> [o \in ImportedChunks(c) |-> ImportsFrom(c, o)]]
    /\ exports' = [c \in chunks |-> UNION {ImportsFrom(o, c) : o \in chunks}]
    /\ dynamic' = [c \in chunks |-> DynamicImports(c)]
    /\ stage' = "crossed"
    /\ UNCHANGED <<vars, chunks>>

LinksNext ==
    \/ Next /\ UNCHANGED linkVars
    \/ ComputeChunks
    \/ ComputeCrossChunkDependencies

LinksSpec == LinksInit /\ [][LinksNext]_<<vars, linkVars>>

-----------------------------------------------------------------------------
(* Properties                                                              *)

(* Every symbol that live code uses is declared in the chunk that uses it, *)
(* or that chunk imports it from the one chunk that declares it, and that  *)
(* one exports it; and what is imported dynamically is an entry chunk      *)
(* (compute_cross_chunk_dependencies).                                     *)
CrossChunkImportsResolve ==
    stage = "crossed" =>
        /\ \A c \in chunks : \A s \in ImportsByChunk(c) :
              \E o \in chunks :
                  /\ Owners(s) = {o}
                  /\ o # c => /\ o \in DOMAIN imports[c]
                              /\ s \in imports[c][o]
                              /\ s \in exports[o]
        /\ \A c \in chunks : \A o \in dynamic[c] : o \in chunks /\ EntriesOf(o) # {}

(* No circle of static imports between chunks, so that no chunk runs       *)
(* before one whose symbols it uses: every set of chunks has one that      *)
(* imports none of the others.  enforce_no_cyclic_chunk_imports, which     *)
(* would report such a circle, is called by no part of the build.          *)
StaticImportsAreAcyclic ==
    stage = "crossed" =>
        \A S \in (SUBSET chunks) \ {{}} : \E c \in S : S \cap DOMAIN imports[c] = {}

(* What a chunk uses of others is there when it runs                       *)
(* (compute_cross_chunk_dependencies).                                     *)
ChunksCanBeLoaded == CrossChunkImportsResolve /\ StaticImportsAreAcyclic
=============================================================================
