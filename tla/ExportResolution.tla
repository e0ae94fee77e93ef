--------------------------- MODULE ExportResolution ---------------------------
(***************************************************************************)
(* How the linker binds every import to the export it stands for           *)
(* (resolve_export_stars, bind_imports_to_exports_for_file and             *)
(* sort_and_filter_export_aliases, src/internal/linker/mod.rs).  Parts,    *)
(* TypeScript types and the texts of the errors are left out.              *)
(***************************************************************************)
EXTENDS ModuleWrappers

VARIABLES
    resolved,   \* resolved_exports of every file: an ExportData by alias
    bound,      \* imports_to_bind, by <<file, reference>>
    issues,     \* the import_issues of the link, by <<file, record>>
    aliases     \* sorted_and_filtered_export_aliases

exportVars == <<resolved, bound, issues, aliases>>

(* The symbols of a file: what one of its records binds, one of its own    *)
(* variables, or its exports object.                                       *)
ImportRef(f, i) == [file |-> f, import |-> i, local |-> ""]
LocalRef(f, name) == [file |-> f, import |-> 0, local |-> name]
ExportsRef(f) == LocalRef(f, "*")
InvalidRef == LocalRef(NoPath, "")
IsImportRef(r) == r.import # 0

StatementOf(f, i) == file[f].statements[i]
NamedImports(f) == {i \in DOMAIN file[f].statements : StatementOf(f, i).form \in NamedImportForms}
NamedExports(f) == {i \in DOMAIN file[f].statements : StatementOf(f, i).form \in NamedExportForms}
ExportedAliases(f) == {StatementOf(f, i).alias : i \in NamedExports(f)}
ExportOf(f, alias) == CHOOSE i \in NamedExports(f) : StatementOf(f, i).alias = alias
ReferenceOf(f, i) ==
    IF StatementOf(f, i).form = "local" THEN LocalRef(f, StatementOf(f, i).name) ELSE ImportRef(f, i)

(* A location is the place of the statement in its file; 0 is the default. *)
NamedExport(f, alias) ==
    LET i == ExportOf(f, alias)
    IN  [file |-> f, ref |-> ReferenceOf(f, i), loc |-> i]

-----------------------------------------------------------------------------
(* Export stars                                                            *)

ExportData(export) == [export |-> export, ambiguous |-> <<>>]

OwnExports(f) == [a \in ExportedAliases(f) |-> ExportData(NamedExport(f, a))]

(* Mutant: only the file with the "export *" hides a name.                 *)
IsShadowed_ByRoot(stack, alias) == alias \in ExportedAliases(Head(stack))

(* An alias is hidden by any of the files on the way to it.                *)
IsShadowed(stack, alias) == \E n \in DOMAIN stack : alias \in ExportedAliases(stack[n])

(* What the exports of t add to those of the root, by way of f.            *)
AddAliases(m, f, t, stack) ==
    LET new == {a \in ExportedAliases(t) \ {"default"} : ~IsShadowed(stack, a)}
        first == new \ DOMAIN m.exports
        again == {a \in new \cap DOMAIN m.exports : m.exports[a].export.file # t}
    IN  [exports |-> [a \in first |-> ExportData(NamedExport(t, a))] @@
                     [a \in DOMAIN m.exports |->
                        IF a \in again
                        THEN [m.exports[a] EXCEPT !.ambiguous = Append(@, NamedExport(t, a))]
                        ELSE m.exports[a]],
         bound |-> [key \in {<<f, NamedExport(t, a).ref>> : a \in first} |->
                        [file |-> t, ref |-> key[2], loc |-> 0]] @@ m.bound]

RECURSIVE AddExportsForExportStar(_, _, _)
AddExportsForExportStar(m, f, stack) ==
    LET below == Append(stack, f)
        Follow(acc, i) ==
            LET t == TargetOf(f, i)
            IN  IF t = NoPath \/ kind[t] = "cjs" THEN acc
                ELSE AddExportsForExportStar(AddAliases(acc, f, t, below), t, below)
    IN  IF Contains(stack, f) THEN m ELSE FoldLeft(Follow, m, Stars(f))

ResolveStarsOf(m, f) ==
    LET n == AddExportsForExportStar([exports |-> m.resolved[f], bound |-> m.bound], f, <<>>)
    IN  IF f \notin LinkedJs THEN m
        ELSE [resolved |-> [m.resolved EXCEPT ![f] = n.exports], bound |-> n.bound]

ResolveExportStars ==
    LET m == FoldLeft(ResolveStarsOf,
                      [resolved |-> [f \in LinkedJs |-> OwnExports(f)], bound |-> <<>>], reachable)
    IN  /\ phase = "stars"
        /\ phase' = "bind"
        /\ resolved' = m.resolved /\ bound' = m.bound
        /\ UNCHANGED <<wrapVars, issues, aliases>>
        /\ UNCHANGED scannedVars

-----------------------------------------------------------------------------
(* One step from an import to what it names (advance_import_tracker)       *)

Tracker(f, ref, loc) == [file |-> f, ref |-> ref, loc |-> loc]

Advanced(status, tracker, ambiguous) ==
    [status |-> status, tracker |-> tracker, ambiguous |-> ambiguous]

NamesNothing(f, s) ==
    /\ s.form \notin {"namespace", "starAs"} /\ s.name # "default"
    /\ file[f].loader # "json" /\ ~file[f].exportKeyword /\ ~file[f].mentions

AdvanceImportTracker(tracker) ==
    LET i == tracker.ref.import
        s == StatementOf(tracker.file, i)
        t == TargetOf(tracker.file, i)
        found == IF s.form \in {"namespace", "starAs"}
                 THEN ExportData([file |-> t, ref |-> ExportsRef(t), loc |-> 0])
                 ELSE resolved[t][s.name]
    IN  CASE t = NoPath -> Advanced("external", Tracker(NoPath, InvalidRef, 0), <<>>)
          [] t # NoPath /\ NamesNothing(t, s) ->
                Advanced("commonjs_without_exports", Tracker(t, InvalidRef, 0), <<>>)
          [] t # NoPath /\ ~NamesNothing(t, s) ->
                CASE kind[t] = "cjs" -> Advanced("commonjs", Tracker(t, InvalidRef, 0), <<>>)
                  [] /\ kind[t] # "cjs"
                     /\ s.form \in {"namespace", "starAs"} \/ s.name \in DOMAIN resolved[t] ->
                        Advanced("found", found.export, found.ambiguous)
                  [] OTHER ->
                        IF kind[t] = "dynamic"
                        THEN Advanced("dynamic_fallback", Tracker(t, ExportsRef(t), 0), <<>>)
                        ELSE Advanced("no_match", Tracker(t, InvalidRef, 0), <<>>)

-----------------------------------------------------------------------------
(* The whole way (match_import_with_export)                                *)

NoResult == [kind |-> "ignore", file |-> NoPath, ref |-> InvalidRef, loc |-> 0,
             namespace |-> InvalidRef, alias |-> "", missing |-> FALSE, other |-> <<>>]

Normal(tracker) ==
    [NoResult EXCEPT !.kind = "normal", !.file = tracker.file, !.ref = tracker.ref, !.loc = tracker.loc]

(* The import is a property of a namespace object, and of the export found *)
(* so far, if one was.                                                     *)
InNamespace(result, namespace, alias) ==
    IF result.kind = "normal"
    THEN [result EXCEPT !.kind = "normal_and_namespace", !.namespace = namespace, !.alias = alias]
    ELSE [NoResult EXCEPT !.kind = "namespace", !.namespace = namespace, !.alias = alias]

NamespaceRef(f, i) == LocalRef(f, "ns" \o ToString(i))

(* What CommonJS and external files give.                                  *)
AtRunTime(result, tracker, step) ==
    LET s == StatementOf(tracker.file, tracker.ref.import)
        named == s.form \notin {"namespace", "starAs"}
        r == IF named /\ (step.status # "external" \/ ~KeepsEsmSyntax)
             THEN InNamespace(result, NamespaceRef(tracker.file, tracker.ref.import), s.name)
             ELSE result
    IN  IF step.status = "commonjs_without_exports"
        THEN [r EXCEPT !.missing = TRUE, !.file = step.tracker.file]
        ELSE r

Ambiguous(result, rival) ==
    [NoResult EXCEPT !.kind = "ambiguous",
                     !.other = IF result.kind = "normal" /\ rival.kind = "normal"
                                  /\ result.loc # 0 /\ rival.loc # 0
                               THEN <<result.file, result.loc, rival.file, rival.loc>>
                               ELSE <<>>]

(* The other exports of the same name must be the same one.                *)
Settle(result, rivals) ==
    LET differing == SelectSeq(rivals, LAMBDA rival : rival # result)
    IN  IF differing = <<>> THEN result ELSE Ambiguous(result, Head(differing))

RECURSIVE MatchImport(_, _, _, _)
MatchImport(tracker, seen, result, rivals) ==
    LET step == AdvanceImportTracker(tracker)
        s == StatementOf(tracker.file, tracker.ref.import)
        below == seen \cup {tracker}
        Rival(a) == IF IsImportRef(a.ref)
                    THEN MatchImport(Tracker(a.file, a.ref, 0), below, NoResult, <<>>)
                    ELSE Normal(a)
        more == rivals \o [n \in DOMAIN step.ambiguous |-> Rival(step.ambiguous[n])]
    IN  IF tracker \in seen THEN Settle([result EXCEPT !.kind = "cycle"], rivals)
        ELSE CASE step.status \in {"external", "commonjs", "commonjs_without_exports"} ->
                    Settle(AtRunTime(result, tracker, step), rivals)
               [] step.status = "dynamic_fallback" ->
                    Settle(InNamespace(result, step.tracker.ref, s.name), rivals)
               [] step.status = "no_match" ->
                    Settle([NoResult EXCEPT !.kind = "no_match", !.file = step.tracker.file,
                                            !.other = <<tracker.file, tracker.ref.import>>], rivals)
               [] step.status = "found" ->
                    IF IsImportRef(step.tracker.ref)
                    THEN MatchImport(step.tracker, below, Normal(step.tracker), more)
                    ELSE Settle(Normal(step.tracker), more)

MatchOf(f, i) == MatchImport(Tracker(f, ImportRef(f, i), 0), {}, NoResult, <<>>)

LinkedImports == UNION {{<<f, i>> : i \in NamedImports(f)} : f \in LinkedJs}

(* bind_imports_to_exports_for_file, for every linked file                 *)
BindImportsToExports ==
    LET match == [import \in LinkedImports |-> MatchOf(import[1], import[2])]
        normal == {import \in LinkedImports :
                     match[import].kind \in {"normal", "normal_and_namespace"}}
        key(import) == <<import[1], ImportRef(import[1], import[2])>>
    IN  /\ phase = "bind"
        /\ phase' = "aliases"
        /\ issues' = {import \in LinkedImports :
                        match[import].missing \/ match[import].kind \in {"no_match", "cycle", "ambiguous"}}
        /\ bound' = [k \in {key(import) : import \in normal} |->
                        LET r == match[<<k[1], k[2].import>>]
                        IN  [file |-> r.file, ref |-> r.ref, loc |-> 0]] @@ bound
        /\ UNCHANGED <<wrapVars, resolved, aliases>>
        /\ UNCHANGED scannedVars

-----------------------------------------------------------------------------
(* The names a namespace object has (sort_and_filter_export_aliases)       *)

(* Mutant: the exports are compared before they are bound.                 *)
BoundRef_Unbound(export) == export.ref

BoundRef(export) ==
    LET key == <<export.file, export.ref>>
    IN  IF key \in DOMAIN bound THEN bound[key].ref ELSE export.ref

IsAmbiguousExport(data) ==
    \E n \in DOMAIN data.ambiguous : BoundRef(data.ambiguous[n]) # BoundRef(data.export)

SortAndFilterExportAliases ==
    /\ phase = "aliases"
    /\ phase' = "linked"
    /\ aliases' = [f \in LinkedJs |->
                     {a \in DOMAIN resolved[f] : ~IsAmbiguousExport(resolved[f][a])}]
    /\ UNCHANGED <<wrapVars, resolved, bound, issues>>
    /\ UNCHANGED scannedVars

ExportInit == resolved = <<>> /\ bound = <<>> /\ issues = {} /\ aliases = <<>>

ExportNext == ResolveExportStars \/ BindImportsToExports \/ SortAndFilterExportAliases
-----------------------------------------------------------------------------
(* The language's own definition (ECMAScript, ResolveExport and            *)
(* GetExportedNames of a source text module).  "seen" is its resolveSet;   *)
(* "circle" says that the search came back to a name it was looking for.   *)

Unresolved == <<"null">>
Clash == <<"ambiguous">>
Binding(f, name) == <<f, name>>

RECURSIVE ResolveExport(_, _, _)
ResolveExport(f, alias, r) ==
    LET below == [r EXCEPT !.seen = @ \cup {<<f, alias>>}, !.value = Unresolved]
        s == StatementOf(f, ExportOf(f, alias))
        t == TargetOf(f, ExportOf(f, alias))
        Star(acc, i) ==
            LET next == ResolveExport(TargetOf(f, i), alias, acc)
            IN  IF acc.value = Clash \/ next.value = Unresolved THEN [next EXCEPT !.value = acc.value]
                ELSE IF acc.value \notin {Unresolved, next.value} THEN [next EXCEPT !.value = Clash]
                ELSE next
    IN  IF <<f, alias>> \in r.seen THEN [r EXCEPT !.value = Unresolved, !.circle = TRUE]
        ELSE IF alias \in ExportedAliases(f)
        THEN CASE s.form = "local" -> [below EXCEPT !.value = Binding(f, s.name)]
               [] s.form = "starAs" -> [below EXCEPT !.value = Binding(t, "*")]
               [] s.form = "reexport" -> ResolveExport(t, s.name, below)
        ELSE IF alias = "default" THEN below
        ELSE FoldLeft(Star, below, Stars(f))

RECURSIVE ExportedNames(_, _)
ExportedNames(f, seen) ==
    IF f \in seen THEN {}
    ELSE ExportedAliases(f) \cup
         UNION {ExportedNames(t, seen \cup {f}) \ {"default"} : t \in StarTargets(f)}

Resolution(f, alias) ==
    ResolveExport(f, alias, [value |-> Unresolved, seen |-> {}, circle |-> FALSE])

(* What the language binds an import to.                                   *)
Meaning(f, i) ==
    IF StatementOf(f, i).form \in {"namespace", "starAs"}
    THEN [value |-> Binding(TargetOf(f, i), "*"), seen |-> {}, circle |-> FALSE]
    ELSE Resolution(TargetOf(f, i), StatementOf(f, i).name)

(* A program of ES modules only.                                           *)
IsEsmProgram ==
    \A f \in LinkedJs :
        /\ file[f].exportKeyword
        /\ \A i \in RecordsOf(f) : KindOf(f, i) = "stmt" /\ TargetOf(f, i) # NoPath

(* No variable is exported by one file under two names (see the README).   *)
OneNamePerVariable ==
    \A f \in LinkedJs : \A i, j \in NamedExports(f) :
        /\ StatementOf(f, i).form = "local" /\ StatementOf(f, j).form = "local"
        /\ StatementOf(f, i).name = StatementOf(f, j).name
        => i = j

BoundTo(import) ==
    LET b == bound[<<import[1], ImportRef(import[1], import[2])>>]
    IN  Binding(b.file, b.ref.local)

(* Through chains of re-exports, names hidden by nearer ones and names     *)
(* that several "export *" give: a program the linker accepts is one the   *)
(* language accepts, with each import bound to the same variable, and a    *)
(* program it reports is one the language refuses, or one in which the     *)
(* search for a name comes back to that name (see the README).             *)
ImportsBindAsTheLanguageSays ==
    phase = "aliases" /\ IsEsmProgram /\ OneNamePerVariable =>
        LET meaning == [import \in LinkedImports |-> Meaning(import[1], import[2])]
            refused == {import \in LinkedImports : meaning[import].value \in {Unresolved, Clash}}
            circles == {import \in LinkedImports : meaning[import].circle}
        IN  IF issues = {}
            THEN \A import \in LinkedImports :
                     import \notin refused /\ BoundTo(import) = meaning[import].value
            ELSE refused \cup circles # {}

(* A namespace object has exactly the names an import could take from the  *)
(* file, although the linker decides the two in different ways: a name two *)
(* "export *" give is left out only if they give different variables.      *)
NamespacesMatchImports ==
    phase = "linked" /\ IsEsmProgram /\ issues = {} =>
        \A f \in LinkedJs :
            aliases[f] = {a \in ExportedNames(f, {}) :
                             Resolution(f, a).value \notin {Unresolved, Clash}}
==============================================================================
