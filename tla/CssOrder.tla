------------------------------- MODULE CssOrder -------------------------------
(***************************************************************************)
(* The order in which the style sheets of an entry point are printed       *)
(* (find_imported_css_files_in_js_order, find_imported_files_in_css_order  *)
(* and optimize_css_import_order, src/internal/linker/mod.rs).  A sheet    *)
(* that is imported many times is printed where its last import is, and    *)
(* what is left of the others are the cascade layers they declare.         *)
(***************************************************************************)
EXTENDS ExportResolution

VARIABLES
    sheets,     \* the entries in evaluation order, external ones in front
    printed     \* the entries the optimisation leaves

cssVars == <<sheets, printed>>

AppendNew(s, x) == IF Contains(s, x) THEN s ELSE Append(s, x)

(* The conditions of one import: "layer" is "" (none), "anonymous" or a    *)
(* name, "media" is "" or a query ("supports" behaves like it).            *)
Condition(layer, media) == [layer |-> layer, media |-> media]

Entry(type, source, layers, conditions) ==
    [type |-> type, source |-> source, layers |-> layers, conditions |-> conditions]

-----------------------------------------------------------------------------
(* The sheets behind JavaScript files                                      *)

RECURSIVE VisitJs(_, _)
VisitJs(m, f) ==
    LET entered == [m EXCEPT !.visited = @ \cup {f}]
        below == FoldLeft(VisitJs, entered, Targets(f))
    IN  IF f \in m.visited THEN m
        ELSE IF file[f].css = NoPath THEN below
        ELSE [below EXCEPT !.order = Append(@, file[f].css)]

FindCssInJsOrder(entry) == VisitJs([visited |-> {}, order |-> <<>>], entry).order

-----------------------------------------------------------------------------
(* Every import of every sheet, in evaluation order.  For "@import" the    *)
(* statement's "name" is its conditions, a sequence of none or one, and    *)
(* "alias" the URL of an external sheet.                                   *)

RECURSIVE VisitCss(_, _, _, _)
VisitCss(order, f, above, conditions) ==
    LET below == Append(above, f)
        pre == IF file[f].pre = <<>> THEN <<>> ELSE <<Entry("layers", NoPath, file[f].pre, conditions)>>
        Import(acc, i) ==
            LET s == StatementOf(f, i)
                nested == conditions \o s.name
                to == NamedFile(s)
            IN  CASE s.form # "at" -> acc
                  [] s.form = "at" /\ TargetOf(f, i) # NoPath ->
                        VisitCss(acc, TargetOf(f, i), below, nested)
                  [] s.form = "at" /\ TargetOf(f, i) = NoPath ->
                        IF IsJs(to) THEN acc
                        ELSE Append(acc, Entry("external", IF to = NoPath THEN s.alias ELSE to,
                                               <<>>, nested))
    IN  IF Contains(above, f) THEN order
        ELSE Append(FoldLeft(Import, order \o pre, Places(file[f].statements)),
                    Entry("sheet", f, <<>>, conditions))

(* External imports must come first; the layers declared before anything   *)
(* else stay in front of them.                                             *)
HoistExternal(order) ==
    LET prefix == {n \in DOMAIN order : \A k \in 1..n : order[k].type = "layers"}
        first == {n \in DOMAIN order : n \in prefix \/ order[n].type = "external"}
        At(ns) == LET places == SelectSeq(Places(order), LAMBDA n : n \in ns)
                  IN  [k \in DOMAIN places |-> order[places[k]]]
    IN  IF \E n \in DOMAIN order : order[n].type = "external"
        THEN At(first) \o At(DOMAIN order \ first) ELSE order

FindFilesInCssOrder(entries) ==
    HoistExternal(FoldLeft(LAMBDA acc, f : VisitCss(acc, f, <<>>, <<>>), <<>>, entries))

-----------------------------------------------------------------------------
(* Optimisation                                                            *)

(* Mutant: a later import under a media query hides an earlier one without.*)
IsRedundant_AnyMedia(earlier, later) ==
    /\ Len(later) <= Len(earlier)
    /\ \A n \in DOMAIN later : earlier[n].layer = later[n].layer

(* is_conditional_import_redundant: wherever the one applies, so does the  *)
(* other, in the same layer or around it.                                  *)
IsRedundant(earlier, later) ==
    /\ Len(later) <= Len(earlier)
    /\ \A n \in DOMAIN later :
           /\ earlier[n].layer = later[n].layer
           /\ later[n].media \in {"", earlier[n].media}

(* Backwards: an import that a later one of the same sheet hides leaves    *)
(* only the layers of the sheet.                                           *)
DropHidden(order) ==
    LET Hidden(kept, n) ==
            \E k \in kept : /\ order[k].type = order[n].type /\ order[k].source = order[n].source
                            /\ IsRedundant(order[n].conditions, order[k].conditions)
        Keep(kept, n) == IF order[n].type = "layers" \/ Hidden(kept, n) THEN kept ELSE kept \cup {n}
        kept == FoldLeft(Keep, {}, Reverse(Places(order)))
    IN  [n \in DOMAIN order |->
            IF n \in kept \/ order[n].type = "layers" THEN order[n]
            ELSE [order[n] EXCEPT !.type = "layers",
                                  !.layers = IF order[n].type = "sheet" THEN file[order[n].source].post
                                             ELSE <<>>]]

(* What is left of an entry that only declares layers: nothing inside an   *)
(* anonymous layer has a name, and a query around nothing does nothing.    *)
TrimLayers(entry) ==
    LET anonymous == {n \in DOMAIN entry.conditions : entry.conditions[n].layer = "anonymous"}
        outside == IF anonymous = {} THEN entry
                   ELSE [entry EXCEPT !.layers = <<>>,
                            !.conditions = SubSeq(@, 1, Min(anonymous) - 1)]
        layered == {n \in DOMAIN outside.conditions : outside.conditions[n].layer # ""}
        last == Max(layered \cup {0})
    IN  IF outside.layers = <<>> THEN [outside EXCEPT !.conditions = SubSeq(@, 1, last)] ELSE outside

LayersKey(entry) == IF entry.type = "sheet" THEN file[entry.source].post ELSE entry.layers

(* The entry declares nothing that one before it has not.                  *)
Covers(done, entry) ==
    LayersKey(done.entry) = LayersKey(entry) /\ IsRedundant(entry.conditions, done.entry.conditions)

(* Forwards: "out" is what is printed, each with whether it is one of the  *)
(* indices kept as a declaration of its layers.                            *)
DropDeclared(out, entry) ==
    LET covering == {n \in DOMAIN out : out[n].first /\ Covers(out[n], entry)}
        nearest == Max(covering)
        replaces == /\ nearest = Len(out) /\ out[nearest].entry.type = "layers"
                    /\ out[nearest].entry.conditions = entry.conditions
    IN  IF covering = {} THEN Append(out, [entry |-> entry, first |-> TRUE])
        ELSE IF entry.type = "layers" THEN out
        ELSE IF replaces THEN Append(Front(out), [entry |-> entry, first |-> TRUE])
        ELSE Append(out, [entry |-> entry, first |-> FALSE])

(* Declarations next to each other under the same conditions become one.   *)
MergeLayers(out, entry) ==
    IF /\ out # <<>> /\ entry.type = "layers" /\ Last(out).type = "layers"
       /\ Last(out).conditions = entry.conditions
    THEN Append(Front(out), [Last(out) EXCEPT !.layers = @ \o entry.layers])
    ELSE Append(out, entry)

(* The entries that are not hidden, and the layers the others declare.     *)
Visible(order) ==
    LET hidden == DropHidden(order)
        trimmed == [n \in DOMAIN hidden |->
                      IF hidden[n].type = "layers" THEN TrimLayers(hidden[n]) ELSE hidden[n]]
    IN  SelectSeq(trimmed,
                  LAMBDA e : ~(e.type = "layers" /\ e.layers = <<>> /\ e.conditions = <<>>))

Optimize(order) ==
    LET out == FoldLeft(DropDeclared, <<>>, Visible(order))
    IN  FoldLeft(MergeLayers, <<>>, [n \in DOMAIN out |-> out[n].entry])

(* The style sheets of the chunk of the entry point (compute_chunks).      *)
ComputeCssOrder ==
    LET order == FindFilesInCssOrder(IF IsCss(EntryPoint) THEN <<EntryPoint>>
                                     ELSE FindCssInJsOrder(EntryPoint))
    IN  /\ phase = "linked"
        /\ phase' = "chunked"
        /\ sheets' = order
        /\ printed' = Optimize(order)
        /\ UNCHANGED <<wrapVars, exportVars>>
        /\ UNCHANGED scannedVars

CssInit == sheets = <<>> /\ printed = <<>>

-----------------------------------------------------------------------------
(* What a list of entries means to the browser                             *)

Applies(entry, media) ==
    \A n \in DOMAIN entry.conditions : entry.conditions[n].media \in media \cup {""}

(* The layer the n-th entry's rules are in: each anonymous layer is its    *)
(* own.                                                                    *)
LayerPath(entry, n) ==
    LET named == SelectSeq(entry.conditions, LAMBDA c : c.layer # "")
    IN  [k \in DOMAIN named |-> IF named[k].layer = "anonymous" THEN <<n, k>> ELSE <<named[k].layer>>]

OuterLayers(path) == [k \in DOMAIN path |-> SubSeq(path, 1, k)]

(* The layers an entry's statements name, in order.                        *)
Declares(entry, n) ==
    LET path == LayerPath(entry, n)
        Inner(acc, name) == Append(acc, Append(path, <<name>>))
    IN  FoldLeft(Inner, OuterLayers(path), LayersKey(entry))

(* The layers in the order of their first mention.                         *)
LayerOrder(order, media) ==
    LET Mention(acc, n) == IF Applies(order[n], media)
                           THEN FoldLeft(AppendNew, acc, Declares(order[n], n)) ELSE acc
    IN  FoldLeft(Mention, <<>>, Places(order))

(* The rules of a sheet, in each of its own layers and in none.            *)
RulesOf(order, media) ==
    UNION {{[source |-> order[n].source, inner |-> inner, at |-> n,
             path |-> LayerPath(order[n], n) \o inner] :
                inner \in {<<>>} \cup {<<<<l>>>> : l \in Range(LayersKey(order[n]))}} :
           n \in {k \in DOMAIN order : order[k].type # "layers" /\ Applies(order[k], media)}}

(* a loses to b: an outer layer wins over those in it, a later layer over  *)
(* an earlier one, and in one layer the later rule.                        *)
Loses(a, b, layers) ==
    LET shared == {k \in DOMAIN a.path : /\ k <= Len(b.path)
                                         /\ SubSeq(a.path, 1, k) = SubSeq(b.path, 1, k)}
        k == Cardinality(shared) + 1
        Place(path) == CHOOSE n \in DOMAIN layers : layers[n] = SubSeq(path, 1, k)
    IN  IF a.path = b.path THEN a.at < b.at
        ELSE IF k > Len(a.path) THEN FALSE
        ELSE IF k > Len(b.path) THEN TRUE
        ELSE Place(a.path) < Place(b.path)

(* Of the same rules printed twice the winner counts: the cascade is the   *)
(* order of the winners.                                                   *)
Cascade(order, media) ==
    LET layers == LayerOrder(order, media)
        rules == RulesOf(order, media)
        Same(a, b) == a.source = b.source /\ a.inner = b.inner
        winners == {a \in rules : \A b \in rules : Same(a, b) => a = b \/ Loses(b, a, layers)}
        Name(a) == <<a.source, a.inner>>
    IN  [rules |-> {Name(a) : a \in winners},
         order |-> {<<Name(p[1]), Name(p[2])>> :
                      p \in {q \in winners \X winners : Loses(q[1], q[2], layers)}}]

Media == {"print"}

(* Layers declared inside a layer pass for declared because the same names *)
(* were declared outside of it: the code then drops their declaration, and *)
(* the order of the layers changes (see the README).                       *)
MistakesALayer(order) ==
    LET left == Visible(order)
    IN  \E n, k \in DOMAIN left :
            /\ n < k /\ left[k].type = "layers"
            /\ Covers([entry |-> left[n]], left[k])
            /\ \E d \in DOMAIN left[k].conditions :
                   d > Len(left[n].conditions) /\ left[k].conditions[d].layer # ""

(* Dropping all but one import of a sheet changes nothing on the page,     *)
(* whichever media queries match: the sheets that apply are the same, and  *)
(* so is which of any two wins, through nested layers, anonymous ones and  *)
(* circles of imports.                                                     *)
PrintedCascadeIsTheSame ==
    phase = "chunked" /\ ~MistakesALayer(sheets) =>
        \A media \in SUBSET Media : Cascade(printed, media) = Cascade(sheets, media)
==============================================================================
