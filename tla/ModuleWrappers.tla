---------------------------- MODULE ModuleWrappers ----------------------------
(***************************************************************************)
(* Which modules the linker wraps in a closure, so that they run on        *)
(* demand, and which exports are known at run time only (the first two     *)
(* phases of scan_imports_and_exports, src/internal/linker/mod.rs).        *)
(***************************************************************************)
EXTENDS TopLevelAwait

VARIABLES
    kind,       \* exports_kind of the linked JavaScript files; "dynamic" is
                \* EsmWithDynamicFallback
    wrap        \* "none", "cjs" or "esm": the wrapper of the file

wrapVars == <<kind, wrap>>

LinkedJs == {f \in Range(reachable) : IsJs(f)}

(* The user's entry point, and with code splitting what is imported        *)
(* dynamically (clone_linker_graph).                                       *)
IsEntryPoint(f) ==
    \/ f = EntryPoint
    \/ /\ options.splitting
       /\ \E g \in LinkedJs : \E i \in LinkedRecords(g) :
              TargetOf(g, i) = f /\ KindOf(g, i) = "dynamic"

KeepsEsmSyntax == options.format = "esm"

AsCommonJs(m, f) == [m EXCEPT !.kind[f] = "cjs", !.wrap[f] = "cjs"]

Required(m, f) == IF m.kind[f] = "esm" THEN [m EXCEPT !.wrap[f] = "esm"] ELSE AsCommonJs(m, f)

(* What one import record says about its target.                           *)
ClassifyRecord(m, f, i) ==
    LET t == TargetOf(f, i)
    IN  IF i \notin LinkedRecords(f) THEN m
        ELSE CASE KindOf(f, i) = "require" \/ (KindOf(f, i) = "dynamic" /\ ~options.splitting) ->
                    Required(m, t)
               [] /\ KindOf(f, i) = "stmt"
                  /\ ContainsStarOrDefault(file[f].statements[i])
                  /\ m.kind[t] = "none" /\ file[t].loader # "json" -> AsCommonJs(m, t)
               [] OTHER -> m

ClassifyFile(m, f) ==
    LET n == FoldLeft(LAMBDA acc, i : ClassifyRecord(acc, f, i), m, Places(file[f].statements))
    IN  IF f \notin LinkedJs THEN m
        ELSE IF n.kind[f] = "cjs" /\ (~IsEntryPoint(f) \/ options.format \in {"iife", "esm"})
        THEN [n EXCEPT !.wrap[f] = "cjs"]
        ELSE n

ClassifyModuleWrappers ==
    LET m == FoldLeft(ClassifyFile,
                      [kind |-> [f \in LinkedJs |-> file[f].kind],
                       wrap |-> [f \in LinkedJs |-> "none"]], reachable)
    IN  /\ phase = "wrap"
        /\ phase' = "propagate"
        /\ kind' = m.kind /\ wrap' = m.wrap
        /\ UNCHANGED scannedVars

-----------------------------------------------------------------------------
(* Propagation                                                             *)

Targets(f) == SelectSeq(file[f].target, LAMBDA t : t # NoPath)

(* Mutant: a file that has a wrapper already is not followed.              *)
RECURSIVE WrapDependencies_IfNew(_, _)
WrapDependencies_IfNew(m, f) ==
    LET wrapped == [m EXCEPT !.did = @ \cup {f},
                             !.wrap[f] = IF m.kind[f] = "cjs" THEN "cjs" ELSE "esm"]
    IN  IF f \in m.did \/ m.wrap[f] # "none" THEN m
        ELSE FoldLeft(WrapDependencies_IfNew, wrapped, Targets(f))

(* recursively_wrap_dependencies; "did" is did_wrap_dependencies.          *)
RECURSIVE WrapDependencies(_, _)
WrapDependencies(m, f) ==
    LET wrapped == [m EXCEPT !.did = @ \cup {f},
                             !.wrap[f] = IF @ # "none" THEN @
                                         ELSE IF m.kind[f] = "cjs" THEN "cjs" ELSE "esm"]
    IN  IF f \in m.did THEN m ELSE FoldLeft(WrapDependencies, wrapped, Targets(f))

Stars(f) == SelectSeq(Places(file[f].statements), LAMBDA i : file[f].statements[i].form = "star")

SeenAnswer(d) == [d EXCEPT !.dynamic = FALSE]

(* has_dynamic_exports_due_to_export_star: the exports of a file depend on *)
(* the run where a chain of "export *" reaches CommonJS or, unless the     *)
(* entry point keeps the statement, an external file.                      *)
RECURSIVE HasDynamicExports(_, _)
HasDynamicExports(d, f) ==
    LET entered == [d EXCEPT !.visited = @ \cup {f}, !.dynamic = FALSE]
        Follow(acc, i) ==
            LET t == TargetOf(f, i)
                e == IF t = NoPath
                     THEN [acc EXCEPT !.dynamic = ~IsEntryPoint(f) \/ ~KeepsEsmSyntax]
                     ELSE IF t = f THEN [acc EXCEPT !.dynamic = FALSE]
                     ELSE HasDynamicExports(acc, t)
            IN  IF acc.dynamic THEN acc
                ELSE IF e.dynamic THEN [e EXCEPT !.kind[f] = "dynamic"] ELSE e
    IN  IF d.kind[f] \in {"cjs", "dynamic"} THEN [d EXCEPT !.dynamic = TRUE]
        ELSE IF f \in d.visited THEN SeenAnswer(d)
        ELSE FoldLeft(Follow, entered, Stars(f))

PropagateFile(m, f) ==
    LET wrapped == IF m.wrap[f] # "none" THEN WrapDependencies(m, f) ELSE m
        starred == HasDynamicExports([visited |-> {}, dynamic |-> FALSE, kind |-> wrapped.kind], f)
        marked == IF Stars(f) = <<>> THEN wrapped ELSE [wrapped EXCEPT !.kind = starred.kind]
        Import(acc, t) == IF acc.kind[t] = "cjs" THEN WrapDependencies(acc, t) ELSE acc
    IN  IF f \notin LinkedJs THEN m ELSE FoldLeft(Import, marked, Targets(f))

PropagateWrappersAndDynamicExports ==
    LET m == FoldLeft(PropagateFile, [kind |-> kind, wrap |-> wrap, did |-> {}], reachable)
    IN  /\ phase = "propagate"
        /\ phase' = "stars"
        /\ kind' = m.kind /\ wrap' = m.wrap
        /\ UNCHANGED scannedVars

WrapInit == kind = <<>> /\ wrap = <<>>

WrapNext == ClassifyModuleWrappers \/ PropagateWrappersAndDynamicExports
-----------------------------------------------------------------------------
(* Properties *)

ImportsOf(f, kinds) == {i \in LinkedRecords(f) : KindOf(f, i) \in kinds}
IsImported(f, kinds) == \E g \in LinkedJs : \E i \in ImportsOf(g, kinds) : TargetOf(g, i) = f

OnDemand(f) == IsImported(f, IF options.splitting THEN {"require"} ELSE {"require", "dynamic"})

(* CommonJS by its own text, or because it has none of the marks of an ES  *)
(* module and is used as if it had exports.                                *)
IsCommonJs(f) ==
    \/ file[f].kind = "cjs"
    \/ file[f].kind = "none" /\ OnDemand(f)
    \/ /\ file[f].kind = "none" /\ file[f].loader # "json"
       /\ \E g \in LinkedJs : \E i \in ImportsOf(g, {"stmt"}) :
              TargetOf(g, i) = f /\ ContainsStarOrDefault(file[g].statements[i])

(* A CommonJS file needs no wrapper only as an entry point nobody imports, *)
(* in a format that has "exports" and "module".                            *)
NeedsWrapper(f) ==
    \/ OnDemand(f)
    \/ IsCommonJs(f) /\ ~(/\ IsEntryPoint(f) /\ options.format = "cjs"
                          /\ ~IsImported(f, {"stmt", "require", "dynamic"}))

(* What must not run before it is asked for is wrapped, with all that it   *)
(* imports, which would otherwise run too early; nothing else is, and the  *)
(* wrapper is the CommonJS one exactly for CommonJS files.                 *)
WrapsAreExact ==
    LET needed == {f \in LinkedJs : NeedsWrapper(f)}
        all == Closure(needed, {"stmt", "require", "dynamic"})
    IN  \A f \in LinkedJs :
            wrap[f] = IF f \notin all THEN "none" ELSE IF IsCommonJs(f) THEN "cjs" ELSE "esm"

StarTargets(f) == {TargetOf(f, i) : i \in Range(Stars(f))}

(* The files that reach, by "export *", exports nobody knows yet.          *)
RECURSIVE DynamicFiles(_)
DynamicFiles(found) ==
    LET more == found \cup {f \in LinkedJs : StarTargets(f) \cap found # {}}
    IN  IF more = found THEN found ELSE DynamicFiles(more)

(* Exports are left to the run for exactly the files whose "export *"      *)
(* chain ends at CommonJS or outside the bundle, circles of "export *"     *)
(* included; the others are bound now.                                     *)
DynamicExportsAreExact ==
    LET unknown == {f \in LinkedJs : IsCommonJs(f)} \cup
                   {f \in LinkedJs : /\ NoPath \in StarTargets(f)
                                     /\ ~IsEntryPoint(f) \/ options.format # "esm"}
    IN  \A f \in LinkedJs :
            kind[f] = IF IsCommonJs(f) THEN "cjs"
                      ELSE IF f \in DynamicFiles(unknown) THEN "dynamic" ELSE file[f].kind

(* The linker's classification of the modules is that of the whole graph,  *)
(* although it is found in one walk over the files, in the order they were *)
(* found, while the kinds it asks for are still changing                   *)
(* (scan_imports_and_exports).                                             *)
ModulesAreClassified == phase = "stars" => WrapsAreExact /\ DynamicExportsAreExact
==============================================================================
