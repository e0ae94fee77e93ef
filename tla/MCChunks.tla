------------------------------ MODULE MCChunks ------------------------------
(* Small scanned graphs: the runtime (0), an entry point (1), two files    *)
(* that import anything (2) and at most one other (3), and a CSS file (4). *)
EXTENDS Chunks, TLC

Js == {1, 2, 3}
Exports == 1    \* NS_EXPORT_PART_INDEX

(* A link is "no", "bare" (import "x"), "used" (import {a} from "x") or    *)
(* "dyn" (import("x")).  A shape says whether the file's own statement can *)
(* be removed, whether its side effects count and how it is wrapped.       *)
Links(f, to2, to3, to1) == [g \in Js |-> CASE g = f -> "no" [] g = 1 -> to1
                                           [] g = 2 -> to2 [] g = 3 -> to3]

Shape(removable, impure, wrap) == [removable |-> removable, impure |-> impure, wrap |-> wrap]

Others(f) == SetToSortSeq(Js \ {f}, <)

(* The record of every link of a file, in the order of their targets.      *)
LinksRecords(f, links) ==
    LET linked == SelectSeq(Others(f), LAMBDA g : links[g] # "no")
    IN  [i \in 1..Len(linked) |->
            [kind |-> IF links[linked[i]] = "dyn" THEN "dynamic" ELSE "stmt",
             target |-> linked[i], pure |-> FALSE]]

Used(g, p) == [file |-> g, part |-> p]

(* Part 1 names the exports; the import statements come next, before what  *)
(* the file does (convert_statements_into_parts moves them there); then    *)
(* the wrapper and the part of an entry point, which are never removed.    *)
Statics(links) == Cardinality({g \in Js : links[g] \in {"bare", "used"}})
Body(links) == 2 + Statics(links)
WrapperPart(links) == 3 + Statics(links)
SymbolOf(links, shape) == IF shape.wrap = "none" THEN Body(links) ELSE WrapperPart(links)

NewPart(removable, import, records, dependencies) ==
    [removable |-> removable, forced |-> FALSE, import |-> import,
     records |-> records, dependencies |-> dependencies]

(* create_exports_for_file: only what uses the exports object keeps it, as *)
(* those do who use file 2 when its own statement can be removed.          *)
ExportsPart(dependencies) ==
    [removable |-> TRUE, forced |-> TRUE, import |-> 0,
     records |-> <<>>, dependencies |-> dependencies]

(* A file has exports when another uses them, or imports it dynamically.   *)
HasExports(f, all, shapes) ==
    shapes[f].wrap = "none" /\ \E g \in Js : all[g][f] \in {"used", "dyn"}

JsFile(f, all, shapes, isEntry, css) ==
    LET links == all[f]
        records == LinksRecords(f, links)
        wrapped(g) == shapes[g].wrap # "none"
        symbol(g) == Used(g, IF g = 2 /\ f # 2 /\ shapes[2].removable THEN Exports
                             ELSE SymbolOf(all[g], shapes[g]))
        to(kind) == SelectSeq([r \in 1..Len(records) |-> r], LAMBDA r : records[r].kind = kind)
        uses == SelectSeq(Others(f), LAMBDA g : links[g] = "used")
        imports_(r) == NewPart(TRUE, r, <<r>>,
                IF wrapped(records[r].target) THEN <<symbol(records[r].target)>> ELSE <<>>)
    IN  [kind |-> "js", css |-> css, impure |-> shapes[f].impure, wrap |-> shapes[f].wrap,
         wrapper |-> IF wrapped(f) THEN WrapperPart(links) ELSE 0,
         records |-> records,
         parts |->
            <<ExportsPart(IF HasExports(f, all, shapes)
                          THEN <<Used(f, Body(links)), Used(0, 2)>> ELSE <<>>)>>
            \o [i \in 1..Len(to("stmt")) |-> imports_(to("stmt")[i])]
            \o <<NewPart(shapes[f].removable, 0, to("dynamic"),
                         [i \in 1..Len(uses) |-> symbol(uses[i])])>>
            \o (IF wrapped(f) THEN <<NewPart(FALSE, 0, <<>>, <<Used(0, 2)>>)>> ELSE <<>>)
            \o (IF isEntry THEN <<NewPart(FALSE, 0, <<>>, IF wrapped(f) \/ HasExports(f, all, shapes)
                                                         THEN <<symbol(f)>> ELSE <<>>)>> ELSE <<>>)]

RuntimeFile ==
    [kind |-> "js", css |-> NoFile, impure |-> FALSE, wrap |-> "none", wrapper |-> 0,
     records |-> <<>>, parts |-> <<NewPart(TRUE, 0, <<>>, <<>>), NewPart(TRUE, 0, <<>>, <<>>)>>]

CssFile ==
    [kind |-> "css", css |-> NoFile, impure |-> TRUE, wrap |-> "none", wrapper |-> 0,
     records |-> <<>>, parts |-> <<>>]

Graph(links, shapes, user) ==
    LET targets == {g \in Js : \E f \in Js : links[f][g] = "dyn"}
        isEntry(f) == f \in targets \cup ElementsOf(user)
    IN  [file |-> [f \in 0..4 |->
             CASE f = 0 -> RuntimeFile [] f = 4 -> CssFile
               [] f \in Js -> JsFile(f, links, shapes, isEntry(f),
                                     IF f = 2 /\ shapes[2].removable THEN 4 ELSE NoFile)],
         exports |-> [f \in 0..4 |-> IF f \in Js /\ HasExports(f, links, shapes)
                                   THEN {<<f, Body(links[f])>>} ELSE {}],
         entries |-> user, stable |-> [f \in 0..4 |-> IF f = 0 THEN 0 ELSE 5 - f],
         codeSplitting |-> TRUE, treeShaking |-> shapes[3].impure, ignoreAnnotations |-> FALSE]

(* Every file is one the scanner reached from the entry points.            *)
AllReached(links, user) ==
    LET next(S) == S \cup {g \in Js : \E f \in S : links[f][g] # "no"}
    IN  next(next(ElementsOf(user))) = Js

Every == {"no", "bare", "used", "dyn"}
LinksOf1 == Every \X {"no", "used", "dyn"}
LinksOf2 == Every \X {"no", "used", "dyn"}
LinksOf3 == {<<"no", "no">>, <<"used", "no">>, <<"dyn", "no">>, <<"no", "used">>}
Shapes2 == {Shape(FALSE, TRUE, "none"), Shape(TRUE, FALSE, "none")}
Shapes3 == {Shape(FALSE, TRUE, "cjs"), Shape(TRUE, TRUE, "none"), Shape(FALSE, FALSE, "none")}
UserEntries == {<<1>>, <<1, 2>>}

SmallGraphs ==
    {Graph(x[1], x[2], x[3]) : x \in
        {y \in {<<Links(1, a[1], a[2], "no"), Links(2, "no", b[1], b[2]), Links(3, c[1], "no", c[2])>> :
                   a \in LinksOf1, b \in LinksOf2, c \in LinksOf3}
              \X {<<Shape(FALSE, TRUE, "none"), s, t>> : s \in Shapes2, t \in Shapes3}
              \X UserEntries :
            AllReached(y[1], y[3])}}
=============================================================================
