------------------------------ MODULE PartOrder ------------------------------
(***************************************************************************)
(* The order of the parts in every JavaScript chunk, which compute_chunks  *)
(* asks of find_imported_parts_in_js_order (src/internal/linker/mod.rs).   *)
(* The recursive function is modelled by its call stack; a call for a file *)
(* it has visited returns at once and is not a step.                       *)
(***************************************************************************)
EXTENDS ChunkLinks, SequencesExt

CONSTANT Runtime        \* runtime::SOURCE_INDEX

NsExport == 1           \* NS_EXPORT_PART_INDEX, the first part of a file

(* The runtime imports nothing.                                            *)
ASSUME RuntimeAssumption ==
    Runtime \in Files /\ \A g \in Graphs : g.file[Runtime].records = <<>>

VARIABLES
    order,      \* per chunk that is done, files_in_chunk_in_order and
                \* parts_in_chunk_in_order
    chunk,      \* the chunk whose files are visited
    visited,    \* the files visited for it; none between two chunks
    calls,      \* the calls of visit(): the file, and the part it is at
    files, prefix, parts    \* the lists made for the chunk

orderVars == <<order, chunk, visited, calls, files, prefix, parts>>

(* A part that is the import of a file without a wrapper prints nothing.   *)
ShouldIncludePart(f, p) ==
    LET r == Part(f, p).import
    IN  ~( /\ r # 0
           /\ Record(f, r).target # NoFile
           /\ graph.file[Record(f, r).target].wrap = "none" )

Unwrapped(f) == graph.file[f].wrap = "none"

(* is_part_in_this_chunk                                                   *)
IsInChunk(c, f, p) == bits[f] = c /\ <<f, p>> \in liveParts

(* Mutant: imports are followed from printed parts alone.                  *)
Follows_FromPrinted(f, r, emits) ==
    Record(f, r).target # NoFile /\ emits /\ ~IsExternalDynamicImport(f, r)

(* Import statements are followed even from a part that is not printed.    *)
Follows(f, r, emits) ==
    /\ Record(f, r).target # NoFile
    /\ Record(f, r).kind = "stmt" \/ emits
    /\ ~IsExternalDynamicImport(f, r)

Visiting == calls[Len(calls)].file
PartAt == calls[Len(calls)].part

(* The imports of the part at hand that lead to files not visited yet.     *)
Unvisited(f, p) ==
    {i \in 1..Len(Part(f, p).records) :
        LET r == Part(f, p).records[i]
        IN  Follows(f, r, IsInChunk(chunk, f, p)) /\ Record(f, r).target \notin visited}

-----------------------------------------------------------------------------
(* find_imported_parts_in_js_order                                         *)

(* A file is entered for the first time.  What it exports comes before     *)
(* what it imports, so that circles of imports find it.                    *)
VisitFile(c, f) ==
    /\ visited' = visited \cup {f}
    /\ IF graph.file[f].kind = "js"
       THEN /\ calls' = Append(calls, [file |-> f, part |-> 1])
            /\ parts' = IF Unwrapped(f) /\ IsInChunk(c, f, NsExport)
                        THEN Append(parts, <<f, NsExport>>) ELSE parts
       ELSE UNCHANGED <<calls, parts>>
    /\ UNCHANGED <<order, files, prefix>>

(* Chunks are sorted by the bytes of their entry bits, least bit first.    *)
Byte(b) == (b - 1) \div 8

Before(c, d) ==
    \E b \in d \ c : \A a \in (c \ d) \cup (d \ c) :
        Byte(b) < Byte(a) \/ (Byte(b) = Byte(a) /\ a <= b)

(* The next chunk: the runtime is visited before all.                      *)
StartChunk ==
    /\ stage = "computed" /\ visited = {}
    /\ \E c \in chunks \ DOMAIN order :
          /\ \A d \in (chunks \ DOMAIN order) \ {c} : Before(c, d)
          /\ chunk' = c
          /\ VisitFile(c, Runtime)

(* Then the files of the chunk, the nearest to an entry point first.       *)
IsNearer(f, g) ==
    \/ distance[f] < distance[g]
    \/ distance[f] = distance[g] /\ graph.stable[f] < graph.stable[g]

VisitNearest ==
    /\ visited # {} /\ calls = <<>>
    /\ \E f \in FilesOf(chunk) \ visited :
          /\ \A g \in (FilesOf(chunk) \ visited) \ {f} : IsNearer(f, g)
          /\ VisitFile(chunk, f)
    /\ UNCHANGED chunk

VisitImport ==
    /\ calls # <<>> /\ PartAt \in PartsOf(Visiting)
    /\ \E i \in Unvisited(Visiting, PartAt) :
          /\ \A j \in Unvisited(Visiting, PartAt) : i <= j
          /\ VisitFile(chunk, Record(Visiting, Part(Visiting, PartAt).records[i]).target)
    /\ UNCHANGED chunk

(* The part itself, behind what it imports.                                *)
VisitPart ==
    /\ calls # <<>> /\ PartAt \in PartsOf(Visiting)
    /\ Unvisited(Visiting, PartAt) = {}
    /\ calls' = [calls EXCEPT ![Len(calls)].part = @ + 1]
    /\ IF /\ IsInChunk(chunk, Visiting, PartAt) /\ Unwrapped(Visiting)
          /\ PartAt # NsExport /\ ShouldIncludePart(Visiting, PartAt)
       THEN IF Visiting = Runtime
            THEN prefix' = Append(prefix, <<Visiting, PartAt>>) /\ UNCHANGED parts
            ELSE parts' = Append(parts, <<Visiting, PartAt>>) /\ UNCHANGED prefix
       ELSE UNCHANGED <<prefix, parts>>
    /\ UNCHANGED <<order, chunk, visited, files>>

(* A file with a wrapper is put before all others, in one piece.           *)
LeaveFile ==
    /\ calls # <<>> /\ PartAt \notin PartsOf(Visiting)
    /\ calls' = Front(calls)
    /\ files' = IF bits[Visiting] = chunk THEN Append(files, Visiting) ELSE files
    /\ prefix' = IF bits[Visiting] = chunk /\ ~Unwrapped(Visiting)
                 THEN prefix \o [p \in PartsOf(Visiting) |-> <<Visiting, p>>] ELSE prefix
    /\ UNCHANGED <<order, chunk, visited, parts>>

FinishChunk ==
    /\ visited # {} /\ calls = <<>> /\ FilesOf(chunk) \subseteq visited
    /\ order' = [c \in DOMAIN order \cup {chunk} |->
                   IF c = chunk THEN [files |-> files, parts |-> prefix \o parts] ELSE order[c]]
    /\ chunk' = {} /\ visited' = {}
    /\ files' = <<>> /\ prefix' = <<>> /\ parts' = <<>>
    /\ UNCHANGED calls

OrderInit ==
    /\ order = <<>> /\ chunk = {} /\ visited = {} /\ calls = <<>>
    /\ files = <<>> /\ prefix = <<>> /\ parts = <<>>

FindImportedParts ==
    StartChunk \/ VisitNearest \/ VisitImport \/ VisitPart \/ LeaveFile \/ FinishChunk

-----------------------------------------------------------------------------
(* Properties                                                              *)

PartsAreOrdered == stage # "none" /\ DOMAIN order = chunks

PlacesOf(q) ==
    UNION {{<<c, i>> : i \in {j \in DOMAIN order[c].parts : order[c].parts[j] = q}} : c \in chunks}

(* Every live part of a JavaScript file is printed in exactly one place of *)
(* exactly one chunk, the one of its file's entry bits, unless it is an    *)
(* import statement that prints nothing (compute_chunks, find_imported_-   *)
(* parts_in_js_order).                                                     *)
LivePartsAreEmittedOnce ==
    \A q \in liveParts : graph.file[q[1]].kind = "js" =>
        IF Unwrapped(q[1]) /\ q[2] # NsExport /\ ~ShouldIncludePart(q[1], q[2])
        THEN PlacesOf(q) = {}
        ELSE \E i \in DOMAIN order[bits[q[1]]].parts : PlacesOf(q) = {<<bits[q[1]], i>>}

(* The files that the import statements in the first parts of a file name. *)
StatementsUpTo(f, p) ==
    {t \in Files : \E k \in 1..p : \E i \in DOMAIN Part(f, k).records :
        LET r == Part(f, k).records[i] IN Record(f, r).kind = "stmt" /\ Record(f, r).target = t}

(* What runs before a file that has these: they, and all that import       *)
(* statements lead to from them.                                           *)
Evaluated(S) ==
    LET closed == {T \in SUBSET Files : \A f \in T : StatementsUpTo(f, Len(graph.file[f].parts)) \subseteq T}
    IN  {g \in Files : \A T \in closed : S \subseteq T => g \in T}

Targets(f) == {Record(f, r).target : r \in DOMAIN graph.file[f].records} \ {NoFile}

(* The files that records of any kind lead to.                             *)
Reached(S) ==
    LET closed == {T \in SUBSET Files : \A f \in T : Targets(f) \subseteq T}
    IN  {g \in Files : \A T \in closed : S \subseteq T => g \in T}

(* Modules run in the order of their imports: a part of a file comes       *)
(* behind all that the import statements before it lead to in its chunk,   *)
(* unless they lead back to the file in a circle.  The exports object      *)
(* alone comes before the imports (find_imported_parts_in_js_order).       *)
DependenciesComeFirst ==
    \A c \in chunks : \A i \in DOMAIN order[c].parts :
        LET f == order[c].parts[i][1]
            p == order[c].parts[i][2]
        IN  Unwrapped(f) /\ p # NsExport =>
                \A t \in StatementsUpTo(f, p) : f \notin Reached({t}) =>
                    \A j \in DOMAIN order[c].parts :
                        order[c].parts[j][1] \in Evaluated({t}) => j < i

(* The text of a chunk is every live part once, after what it imports      *)
(* (compute_chunks, find_imported_parts_in_js_order).                      *)
PartsArePrintedInOrder ==
    stage = "computed" /\ PartsAreOrdered => LivePartsAreEmittedOnce /\ DependenciesComeFirst
=============================================================================
