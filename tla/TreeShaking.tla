----------------------------- MODULE TreeShaking -----------------------------
(***************************************************************************)
(* The two graph walks of the linker that decide what is emitted and where *)
(* (src/internal/linker/mod.rs, tree_shaking_and_code_splitting):          *)
(*   - "shake": mark_file_live_for_tree_shaking and mark_part_live_for_-   *)
(*     tree_shaking call each other from every entry point and mark the    *)
(*     files and the parts the bundle keeps;                               *)
(*   - "split": mark_file_reachable_for_code_splitting walks the live      *)
(*     files from every entry point, sets the entry point's bit and keeps  *)
(*     the least distance.                                                 *)
(* Both are recursive functions.  The model runs their call stack: "stack" *)
(* and "walk" hold the calls and the loop iterations that are still to     *)
(* run, the next one first, and an action runs one of them, with the       *)
(* early return it may take.  The calls a body makes depend on the scanned *)
(* graph alone (the code clones the records and the parts before it        *)
(* loops), so they are pushed when the body is entered.                    *)
(*                                                                         *)
(* The scanned graph is an input: any graph of the constant Graphs.        *)
(***************************************************************************)
EXTENDS Integers, Sequences, FiniteSets

CONSTANTS
    Files,          \* source indices
    NoFile,         \* an invalid Index32
    Graphs,         \* the scanned graphs the linker may be given
    FarAway         \* u32::MAX, the distance of a file nothing reached yet

RecordKinds == {"stmt", "require", "dynamic", "other"}

Records == [kind : RecordKinds, target : Files \cup {NoFile}, pure : BOOLEAN]

(* "import" is the record of a part that is one import statement, or 0.    *)
Parts == [removable : BOOLEAN, forced : BOOLEAN, import : Nat,
          records : Seq(Nat), dependencies : Seq([file : Files, part : Nat])]

(* What the linker reads of a scanned file.  "css" is css_source_index,    *)
(* "impure" says that its side effects are kept (HasSideEffects),          *)
(* "wrapper" is the part that declares its wrapper, if it has one.         *)
FileShapes == [kind : {"js", "css", "copy"}, css : Files \cup {NoFile},
               impure : BOOLEAN, wrap : {"none", "cjs", "esm"}, wrapper : Nat,
               records : Seq(Records), parts : Seq(Parts)]

(* The linker's graph invariants: indices point to what they name, only    *)
(* JavaScript files have parts, a style sheet and dynamic imports, and a   *)
(* copied file imports nothing.                                            *)
WellFormed(g) ==
    /\ g.file \in [Files -> FileShapes]
    /\ g.entries \in Seq(Files)
    /\ g.stable \in [Files -> Nat]
    /\ {g.codeSplitting, g.treeShaking, g.ignoreAnnotations} \subseteq BOOLEAN
    /\ \A f \in Files : g.file[f].kind # "js" =>
           /\ g.file[f].parts = <<>> /\ g.file[f].css = NoFile
           /\ g.file[f].kind = "copy" => g.file[f].records = <<>>
           /\ \A r \in 1..Len(g.file[f].records) : g.file[f].records[r].kind # "dynamic"
    /\ \A f \in Files : \A p \in 1..Len(g.file[f].parts) :
           LET part == g.file[f].parts[p]
           IN  /\ \A i \in 1..Len(part.records) :
                      part.records[i] \in 1..Len(g.file[f].records)
               /\ \A d \in 1..Len(part.dependencies) :
                      part.dependencies[d].part \in
                          1..Len(g.file[part.dependencies[d].file].parts)

ASSUME GraphAssumption ==
    /\ IsFiniteSet(Files) /\ NoFile \notin Files
    /\ FarAway \in Nat /\ Cardinality(Files) <= FarAway   \* source indices are u32
    /\ \A g \in Graphs : WellFormed(g)

VARIABLES
    graph,      \* the scanned graph, never changed here
    entries,    \* graph.entry_points: the user's, then the dynamic imports'
    phase,      \* "shake", "split", "done"
    stack,      \* calls of the tree shaking still to run
    walk,       \* calls of the code splitting still to run
    liveFiles,  \* is_live of a file
    liveParts,  \* is_live of a part: pairs <<file, part>>
    bits,       \* entry_bits: the entry points, by index, that reach a file
    distance    \* distance_from_entry_point

vars == <<graph, entries, phase, stack, walk, liveFiles, liveParts, bits, distance>>

ElementsOf(s) == {s[i] : i \in 1..Len(s)}

PartsOf(f) == 1..Len(graph.file[f].parts)
Part(f, p) == graph.file[f].parts[p]
Record(f, r) == graph.file[f].records[r]
IsEntry(f) == f \in ElementsOf(entries)

-----------------------------------------------------------------------------
(* Entry points (clone_linker_graph)                                       *)

(* With code splitting the target of every dynamic import of a JavaScript  *)
(* file is an entry point too.                                             *)
DynamicTargets(g) ==
    IF g.codeSplitting
    THEN {f \in Files : \E i \in Files : \E r \in 1..Len(g.file[i].records) :
              /\ g.file[i].kind = "js"
              /\ g.file[i].records[r].kind = "dynamic"
              /\ g.file[i].records[r].target = f}
    ELSE {}

(* The user's entry points in their order, then the other dynamic targets, *)
(* each once, in the order of the reachable files.                         *)
EntryPoints(g) ==
    LET dynamic == DynamicTargets(g) \ ElementsOf(g.entries)
        n == Len(g.entries)
        m == Cardinality(dynamic)
    IN  {s \in [1..(n + m) -> Files] :
           /\ \A i \in 1..n : s[i] = g.entries[i]
           /\ {s[i] : i \in (n + 1)..(n + m)} = dynamic
           /\ \A i, j \in (n + 1)..(n + m) : i < j => g.stable[s[i]] < g.stable[s[j]]}

-----------------------------------------------------------------------------
(* The calls and the loop iterations of the two walks                      *)

MarkFile(f)        == [op |-> "file", file |-> f, part |-> 0, at |-> 0]
MarkPart(f, p)     == [op |-> "part", file |-> f, part |-> p, at |-> 0]
ScanPart(f, p)     == [op |-> "scan", file |-> f, part |-> p, at |-> 0]
FollowRecord(f, r) == [op |-> "follow", file |-> f, part |-> 0, at |-> r]

ShakeCalls == [op : {"file", "part", "scan", "follow"}, file : Files, part : Nat, at : Nat]

(* The record is walked: a JavaScript import statement of an internal file *)
(* whose side effects count, or any internal import of a CSS file.         *)
Followed(f, r) ==
    /\ Record(f, r).target # NoFile
    /\ \/ graph.file[f].kind = "css"
       \/ /\ Record(f, r).kind = "stmt"
          /\ graph.file[Record(f, r).target].impure \/ graph.ignoreAnnotations

(* An import that keeps the part it is in: a followed one, or the import   *)
(* of an external module that may have side effects.                       *)
KeepsPart(f, r) ==
    /\ Record(f, r).kind = "stmt"
    /\ IF Record(f, r).target # NoFile THEN Followed(f, r) ELSE ~Record(f, r).pure

(* mark_file_live_for_tree_shaking marks the part as soon as its file is   *)
(* live.                                                                   *)
Kept(f, p) ==
    \/ ~Part(f, p).removable
    \/ \E i \in 1..Len(Part(f, p).records) : KeepsPart(f, Part(f, p).records[i])
    \/ ~Part(f, p).forced /\ ~graph.treeShaking /\ IsEntry(f)

(* What mark_file_live_for_tree_shaking runs for a file it has just marked.*)
FileBody(f) ==
    CASE graph.file[f].kind = "js" ->
             (IF graph.file[f].css # NoFile THEN <<MarkFile(graph.file[f].css)>> ELSE <<>>)
             \o [p \in PartsOf(f) |-> ScanPart(f, p)]
      [] graph.file[f].kind = "css" ->
             [r \in 1..Len(graph.file[f].records) |-> FollowRecord(f, r)]
      [] graph.file[f].kind = "copy" -> <<>>

(* One iteration of its loop over the parts.                               *)
ScanBody(f, p) ==
    [i \in 1..Len(Part(f, p).records) |-> FollowRecord(f, Part(f, p).records[i])]
    \o (IF Kept(f, p) THEN <<MarkPart(f, p)>> ELSE <<>>)

(* Mutant: the part alone is marked, not its file.                         *)
PartBody_NoFile(f, p) ==
    [d \in 1..Len(Part(f, p).dependencies) |->
        MarkPart(Part(f, p).dependencies[d].file, Part(f, p).dependencies[d].part)]

(* What mark_part_live_for_tree_shaking runs for a part it has just marked.*)
PartBody(f, p) ==
    <<MarkFile(f)>>
    \o [d \in 1..Len(Part(f, p).dependencies) |->
            MarkPart(Part(f, p).dependencies[d].file, Part(f, p).dependencies[d].part)]

Reach(f, b, d)            == [op |-> "reach", file |-> f, at |-> 0, by |-> 0, bit |-> b, dist |-> d]
ReachRecord(f, r, b, d)   == [op |-> "record", file |-> f, at |-> r, by |-> 0, bit |-> b, dist |-> d]
ReachPart(f, p, b, d)     == [op |-> "part", file |-> f, at |-> p, by |-> 0, bit |-> b, dist |-> d]
ReachUse(f, p, i, b, d)   == [op |-> "use", file |-> f, at |-> p, by |-> i, bit |-> b, dist |-> d]

WalkCalls == [op : {"reach", "record", "part", "use"}, file : Files, at : Nat, by : Nat,
              bit : Nat, dist : Nat]

(* is_external_dynamic_import                                              *)
IsExternalDynamicImport(f, r) ==
    /\ graph.codeSplitting
    /\ Record(f, r).kind = "dynamic"
    /\ IsEntry(Record(f, r).target)
    /\ Record(f, r).target # f

(* Mutant: only the imports of a file are walked, not what its parts use.  *)
ReachBody_NoUses(f, b, d) ==
    IF graph.file[f].kind # "copy"
    THEN [r \in 1..Len(graph.file[f].records) |-> ReachRecord(f, r, b, d)] ELSE <<>>

(* What mark_file_reachable_for_code_splitting runs for a file it enters,  *)
(* one step further from the entry point.                                  *)
ReachBody(f, b, d) ==
    (IF graph.file[f].kind = "js" /\ graph.file[f].css # NoFile
        THEN <<Reach(graph.file[f].css, b, d)>> ELSE <<>>)
    \o (IF graph.file[f].kind # "copy"
           THEN [r \in 1..Len(graph.file[f].records) |-> ReachRecord(f, r, b, d)] ELSE <<>>)
    \o (IF graph.file[f].kind = "js"
           THEN [p \in PartsOf(f) |-> ReachPart(f, p, b, d)] ELSE <<>>)

-----------------------------------------------------------------------------

Init ==
    /\ graph \in Graphs
    /\ entries \in EntryPoints(graph)
    /\ phase = "shake"
    /\ stack = [i \in 1..Len(entries) |-> MarkFile(entries[i])]
    /\ walk = <<>>
    /\ liveFiles = {}
    /\ liveParts = {}
    /\ bits = [f \in Files |-> {}]
    /\ distance = [f \in Files |-> FarAway]

(* The next call of the tree shaking is an "op"; "body" replaces it.       *)
Shaking(op) == phase = "shake" /\ stack # <<>> /\ Head(stack).op = op

Continue(body) == stack' = body \o Tail(stack)

MarkPartLive ==
    /\ Shaking("part")
    /\ LET f == Head(stack).file
           p == Head(stack).part
       IN  IF <<f, p>> \in liveParts
           THEN Continue(<<>>) /\ UNCHANGED liveParts
           ELSE Continue(PartBody(f, p)) /\ liveParts' = liveParts \cup {<<f, p>>}
    /\ UNCHANGED <<graph, entries, phase, walk, liveFiles, bits, distance>>

MarkFileLive ==
    /\ Shaking("file")
    /\ LET f == Head(stack).file
       IN  IF f \in liveFiles
           THEN Continue(<<>>) /\ UNCHANGED liveFiles
           ELSE Continue(FileBody(f)) /\ liveFiles' = liveFiles \cup {f}
    /\ UNCHANGED <<graph, entries, phase, walk, liveParts, bits, distance>>

ScanOnePart ==
    /\ Shaking("scan")
    /\ Continue(ScanBody(Head(stack).file, Head(stack).part))
    /\ UNCHANGED <<graph, entries, phase, walk, liveFiles, liveParts, bits, distance>>

FollowOneRecord ==
    /\ Shaking("follow")
    /\ LET f == Head(stack).file
           r == Head(stack).at
       IN  Continue(IF Followed(f, r) THEN <<MarkFile(Record(f, r).target)>> ELSE <<>>)
    /\ UNCHANGED <<graph, entries, phase, walk, liveFiles, liveParts, bits, distance>>

(* Every entry point was marked: the second loop of tree_shaking_and_code_-*)
(* splitting starts, over the same entry points.                           *)
StartSplitting ==
    /\ phase = "shake" /\ stack = <<>>
    /\ phase' = "split"
    /\ walk' = [i \in 1..Len(entries) |-> Reach(entries[i], i, 0)]
    /\ UNCHANGED <<graph, entries, stack, liveFiles, liveParts, bits, distance>>

Splitting(op) == phase = "split" /\ walk # <<>> /\ Head(walk).op = op

Proceed(body) == walk' = body \o Tail(walk)

(* Mutant: a file is walked once per entry point, even if a shorter way to *)
(* it is found later.                                                      *)
MarkFileReachable_Once ==
    /\ Splitting("reach")
    /\ LET f == Head(walk).file
           b == Head(walk).bit
           d == Head(walk).dist
           closer == f \in liveFiles /\ d < distance[f]
           enters == f \in liveFiles /\ b \notin bits[f]
       IN  /\ distance' = IF closer THEN [distance EXCEPT ![f] = d] ELSE distance
           /\ bits' = IF enters THEN [bits EXCEPT ![f] = @ \cup {b}] ELSE bits
           /\ Proceed(IF enters THEN ReachBody(f, b, (d + 1) % (FarAway + 1)) ELSE <<>>)
    /\ UNCHANGED <<graph, entries, phase, stack, liveFiles, liveParts>>

(* A file that is not live is not entered.  One that is gets the distance  *)
(* if it is smaller, and is walked again only if its distance changed or   *)
(* this entry point had not reached it.                                    *)
MarkFileReachable ==
    /\ Splitting("reach")
    /\ LET f == Head(walk).file
           b == Head(walk).bit
           d == Head(walk).dist
           closer == f \in liveFiles /\ d < distance[f]
           enters == f \in liveFiles /\ (closer \/ b \notin bits[f])
       IN  /\ distance' = IF closer THEN [distance EXCEPT ![f] = d] ELSE distance
           /\ bits' = IF enters THEN [bits EXCEPT ![f] = @ \cup {b}] ELSE bits
           /\ Proceed(IF enters THEN ReachBody(f, b, (d + 1) % (FarAway + 1)) ELSE <<>>)
    /\ UNCHANGED <<graph, entries, phase, stack, liveFiles, liveParts>>

ReachOneRecord ==
    /\ Splitting("record")
    /\ LET c == Head(walk)
           enters == /\ Record(c.file, c.at).target # NoFile
                     /\ ~IsExternalDynamicImport(c.file, c.at)
       IN  Proceed(IF enters THEN <<Reach(Record(c.file, c.at).target, c.bit, c.dist)>> ELSE <<>>)
    /\ UNCHANGED <<graph, entries, phase, stack, liveFiles, liveParts, bits, distance>>

(* The dependencies of every part, live or not, are walked, in order.      *)
ReachOnePart ==
    /\ Splitting("part")
    /\ LET c == Head(walk)
       IN  Proceed([i \in 1..Len(Part(c.file, c.at).dependencies) |->
                        ReachUse(c.file, c.at, i, c.bit, c.dist)])
    /\ UNCHANGED <<graph, entries, phase, stack, liveFiles, liveParts, bits, distance>>

ReachOneUse ==
    /\ Splitting("use")
    /\ LET c == Head(walk)
           to == Part(c.file, c.at).dependencies[c.by].file
       IN  Proceed(IF to # c.file THEN <<Reach(to, c.bit, c.dist)>> ELSE <<>>)
    /\ UNCHANGED <<graph, entries, phase, stack, liveFiles, liveParts, bits, distance>>

FinishSplitting ==
    /\ phase = "split" /\ walk = <<>>
    /\ phase' = "done"
    /\ UNCHANGED <<graph, entries, stack, walk, liveFiles, liveParts, bits, distance>>

Next ==
    \/ MarkPartLive \/ MarkFileLive \/ ScanOnePart \/ FollowOneRecord
    \/ StartSplitting
    \/ MarkFileReachable \/ ReachOneRecord \/ ReachOnePart \/ ReachOneUse
    \/ FinishSplitting

Spec == Init /\ [][Next]_vars

-----------------------------------------------------------------------------
(* Properties                                                              *)

GraphParts == UNION {{f} \X PartsOf(f) : f \in Files}

(* What a pending call names is in the graph.                              *)
ShakeCallInRange(c) ==
    /\ c.op \in {"part", "scan"} => c.part \in PartsOf(c.file)
    /\ c.op = "follow" => c.at \in 1..Len(graph.file[c.file].records)

WalkCallInRange(c) ==
    /\ c.op = "record" => c.at \in 1..Len(graph.file[c.file].records)
    /\ c.op \in {"part", "use"} => c.at \in PartsOf(c.file)
    /\ c.op = "use" => c.by \in 1..Len(Part(c.file, c.at).dependencies)

(* Every variable has its type, and no index is out of its range.          *)
ShakeTypeOK ==
    /\ graph \in Graphs
    /\ entries \in Seq(Files)
    /\ phase \in {"shake", "split", "done"}
    /\ stack \in Seq(ShakeCalls)
    /\ \A c \in ElementsOf(stack) : ShakeCallInRange(c)
    /\ walk \in Seq(WalkCalls)
    /\ \A c \in ElementsOf(walk) : WalkCallInRange(c)
    /\ liveFiles \subseteq Files
    /\ liveParts \subseteq GraphParts
    /\ bits \in [Files -> SUBSET Nat]
    /\ distance \in [Files -> Nat]

(* What keeping a set of files and a set of parts asks for: the entry      *)
(* points; the CSS of a kept JavaScript file, the imports it cannot do     *)
(* without and the parts that may have an effect; the file and the         *)
(* dependencies of a kept part.                                            *)
NeedsOfFile(f, F, P) ==
    /\ graph.file[f].kind = "js" =>
           /\ graph.file[f].css # NoFile => graph.file[f].css \in F
           /\ \A p \in PartsOf(f) :
                  /\ Kept(f, p) => <<f, p>> \in P
                  /\ \A i \in 1..Len(Part(f, p).records) :
                         Followed(f, Part(f, p).records[i])
                             => Record(f, Part(f, p).records[i]).target \in F
    /\ graph.file[f].kind = "css" =>
           \A r \in 1..Len(graph.file[f].records) :
               Followed(f, r) => Record(f, r).target \in F

NeedsOfPart(f, p, F, P) ==
    /\ f \in F
    /\ \A d \in 1..Len(Part(f, p).dependencies) :
           <<Part(f, p).dependencies[d].file, Part(f, p).dependencies[d].part>> \in P

Closed(F, P) ==
    /\ ElementsOf(entries) \subseteq F
    /\ \A f \in F : NeedsOfFile(f, F, P)
    /\ \A q \in P : NeedsOfPart(q[1], q[2], F, P)

(* Nothing that is needed is shaken off: when the walk from the entry      *)
(* points is over, every kept file and part has all it needs               *)
(* (mark_file_live_for_tree_shaking, mark_part_live_for_tree_shaking).     *)
LiveIsClosed == phase # "shake" => Closed(liveFiles, liveParts)

(* Nothing is kept without a reason: whatever keeps all that is needed     *)
(* keeps what the walk marked, at every step of the walk.                  *)
LiveIsNeeded ==
    \A F \in SUBSET Files : \A P \in SUBSET GraphParts :
        Closed(F, P) => liveFiles \subseteq F /\ liveParts \subseteq P

(* Every kept file belongs to some entry point when both walks are over,   *)
(* so that it has a chunk (compute_js_chunks groups the live files by      *)
(* their entry bits, and an entry point's chunk has a bit): the walk of    *)
(* mark_file_reachable_for_code_splitting follows other edges than the one *)
(* of mark_file_live_for_tree_shaking, and has to reach all it kept.       *)
EveryLiveFileIsReached == phase = "done" => \A f \in liveFiles : bits[f] # {}

(* What is needed one step further than the files and parts that were.     *)
NeededNext(was) ==
    LET records(f) == IF graph.file[f].kind = "css"
                      THEN 1..Len(graph.file[f].records)
                      ELSE UNION {ElementsOf(Part(f, p).records) : p \in PartsOf(f)}
        css == {graph.file[f].css : f \in was.files} \ {NoFile}
        imported == UNION {{Record(f, r).target : r \in
                       {r \in records(f) : Followed(f, r)}} : f \in was.files}
        kept == UNION {{<<f, p>> : p \in {p \in PartsOf(f) : Kept(f, p)}} : f \in was.files}
        used == UNION {{<<d.file, d.part>> :
                       d \in ElementsOf(Part(q[1], q[2]).dependencies)} : q \in was.parts}
    IN  [files |-> was.files \cup css \cup imported \cup {q[1] : q \in was.parts},
         parts |-> was.parts \cup kept \cup used]

(* What is needed n steps from the entry points.                           *)
NeededIn(n) ==
    LET needed[i \in Nat] == IF i = 0 THEN [files |-> ElementsOf(entries), parts |-> {}]
                             ELSE NeededNext(needed[i - 1])
    IN  needed[n]

(* Tree shaking keeps what the entry points need, no less and no more,     *)
(* whatever the order in which the two recursive functions meet the files  *)
(* and the parts, and however the graph is tangled                         *)
(* (mark_file_live_for_tree_shaking, mark_part_live_for_tree_shaking).     *)
LiveIsExact ==
    phase = "done" =>
        LET needed == NeededIn(Cardinality(Files) + Cardinality(GraphParts))
        IN  liveFiles = needed.files /\ liveParts = needed.parts

(* The files that lead on from a live file: all it imports but what a      *)
(* dynamic import leaves to another entry point, and all its parts use.    *)
LeadsTo(f) ==
    liveFiles \cap
        ( {graph.file[f].css}
          \cup {Record(f, r).target : r \in {r \in 1..Len(graph.file[f].records) :
                    Record(f, r).target # NoFile /\ ~IsExternalDynamicImport(f, r)}}
          \cup UNION {{d.file : d \in ElementsOf(Part(f, p).dependencies)} : p \in PartsOf(f)} )

WithinSteps(b, n) ==
    LET within[i \in Nat] ==
          IF i = 0 THEN {entries[b]} \cap liveFiles
          ELSE LET was == within[i - 1] IN was \cup UNION {LeadsTo(f) : f \in was}
    IN  within[n]

(* A live file carries the bit of exactly the entry points that lead to    *)
(* it, and the length of the shortest way from any of them, although the   *)
(* walk is depth first, shares one distance between the entry points and   *)
(* returns early (mark_file_reachable_for_code_splitting).                 *)
EntryBitsAreReachability ==
    phase = "done" =>
        LET n == Cardinality(Files)
            near(d) == UNION {WithinSteps(b, d) : b \in 1..Len(entries)}
        IN  /\ \A f \in Files : bits[f] \subseteq 1..Len(entries)
            /\ \A b \in 1..Len(entries) : {f \in Files : b \in bits[f]} = WithinSteps(b, n)
            /\ \A d \in 0..(n - 1) : {f \in Files : distance[f] <= d} = near(d)
=============================================================================
