------------------------------- MODULE MCBundle -------------------------------
(***************************************************************************)
(* The programs TLC builds: all of each corpus below.  A is the entry      *)
(* point; B and C have the same part in every corpus that has them, so     *)
(* they may be exchanged.                                                  *)
(***************************************************************************)
EXTENDS Bundle, TLC

CONSTANTS A, B, C, X, Y, P, Z, NoFile

Symmetry == Permutations({B, C})

Others(p) == {A, B, C} \ {p}

AtMostOne(statements) == {<<>>} \cup {<<s>> : s \in statements}
AtMostTwo(statements) == AtMostOne(statements) \cup (statements \X statements)

(* At most two, of different files.                                        *)
Apart(statements) == {s \in AtMostTwo(statements) : Len(s) = 2 => s[1].to # s[2].to}

To(form, targets) == {Statement(form, t, "x", "x") : t \in targets}
At(targets) == {Statement("at", t, <<>>, "") : t \in targets}
Js(statements) == Content("js", statements)
Mentions(c) == {c, [c EXCEPT !.mentions = TRUE]}

Formats == [bundled |-> [format |-> "cjs", splitting |-> FALSE, stdout |-> FALSE, minify |-> FALSE],
            script  |-> [format |-> "iife", splitting |-> FALSE, stdout |-> FALSE, minify |-> FALSE],
            module  |-> [format |-> "esm", splitting |-> FALSE, stdout |-> FALSE, minify |-> FALSE],
            split   |-> [format |-> "esm", splitting |-> TRUE, stdout |-> FALSE, minify |-> FALSE]]

MCMain == P :> Z

(* Every kind of file wherever a file can be named, and a package, P, with *)
(* a "main" file, Z.                                                       *)
Leaves == {Content(loader, <<>>) : loader \in {"js", "css", "copy", "json", "empty", "broken"}}

ScanCorpus ==
    [entry |-> A,
     contents |-> [p \in {A, X, P, Z} |->
        CASE p = A -> {Js(s) : s \in AtMostTwo(To("bare", {X, P}) \cup To("require", {X, P})
                                                 \cup To("dynamic", {X}))}
                      \cup {Content("css", s) : s \in AtMostTwo(At({X}) \cup To("url", {X}))}
          [] p = X -> Leaves \cup {Js(s) : s \in AtMostTwo(To("bare", {A, P}) \cup To("require", {P}))}
                      \cup {Content("css", s) : s \in AtMostOne(At({A, P}) \cup To("url", {A, P}))}
          [] p = P -> Leaves \cup {Js(s) : s \in AtMostOne(To("require", {P}) \cup To("bare", {A, P}))}
          [] p = Z -> {Js(<<>>), Content("css", <<>>), Content("broken", <<>>)}],
     known |-> {<<>>, <<Z, P, X>>},
     options |-> {Formats.script, [Formats.script EXCEPT !.stdout = TRUE]}]

(* Circles of imports and calls of require around an await, with the files *)
(* numbered by earlier builds in another order or not at all.              *)
AwaitCorpus ==
    [entry |-> A,
     contents |-> [p \in {A, B, C, X} |->
        IF p = X THEN {[Js(<<>>) EXCEPT !.awaits = TRUE]}
        ELSE {Js(s) : s \in Apart(To("bare", Others(p) \cup {X}) \cup To("require", Others(p) \cup {X}))}],
     known |-> {<<>>, <<B, C>>, <<C, B>>},
     options |-> {Formats.split}]

(* Every mixture of the two module systems, in every format.               *)
WrapCorpus ==
    LET Some(p) == UNION {To(form, Others(p)) : form \in {"import", "namespace", "star", "require", "dynamic"}}
                   \cup To("star", {NoFile})
    IN  [entry |-> A,
         contents |-> [p \in {A, B, C} |->
            UNION {Mentions(Js(s)) : s \in AtMostOne(Some(p))}
            \cup IF p = A THEN {Js(s) : s \in Apart(Some(p))} ELSE {}],
         known |-> {<<>>},
         options |-> {Formats.bundled, Formats.script, Formats.split}]

(* ES modules that re-export from each other; the order of two statements  *)
(* matters for "export *" only.                                            *)
ExportCorpus ==
    LET Local == {Statement("local", NoFile, n[1], n[2]) : n \in {<<"x", "x">>, <<"y", "y">>, <<"x", "y">>}}
        Again(p) == {Statement("reexport", t, n[1], n[2]) :
                        t \in Others(p), n \in {<<"x", "x">>, <<"y", "x">>}}
        Some(p) == Local \cup Again(p) \cup To("star", Others(p)) \cup To("starAs", Others(p))
        Rank == [local |-> 1, reexport |-> 2, starAs |-> 3, star |-> 4]
    IN  [entry |-> A,
         contents |-> [p \in {A, B, C} |->
            {c \in {Js(s) : s \in AtMostTwo(Some(p)) \ {<<>>}} :
                /\ ExportsOnce(c)
                /\ Len(c.statements) = 2 =>
                    /\ Rank[c.statements[1].form] <= Rank[c.statements[2].form]
                    /\ c.statements[1] # c.statements[2]}],
         known |-> {<<>>},
         options |-> {Formats.module}]

(* Style sheets that import each other, in layers and under a query.       *)
StyleCorpus ==
    LET Conditions == {<<>>, <<Condition("", "print")>>, <<Condition("anonymous", "")>>,
                       <<Condition("theme", "")>>, <<Condition("theme", "print")>>}
        Back == {<<>>, <<Condition("theme", "")>>}
        AtIf(t, url) == {Statement("at", t, c, url) : c \in Conditions}
        Sheet(s, pre, post) == [Content("css", s) EXCEPT !.pre = pre, !.post = post]
    IN  [entry |-> A,
         contents |-> [p \in {A, X, Y} |->
            CASE p = A -> {Sheet(s, <<>>, <<>>) : s \in
                             AtMostTwo(AtIf(X, "") \cup AtIf(Y, "") \cup AtIf(NoFile, "u"))}
              [] p = X -> {Sheet(s, pre, post) : s \in AtMostOne(AtIf(Y, "")),
                                                 pre \in {<<>>, <<"base">>}, post \in {<<>>, <<"base">>}}
              [] p = Y -> {Sheet(s, <<>>, post) :
                              s \in AtMostOne({st \in AtIf(X, "") : st.name \in Back}),
                              post \in {<<>>, <<"base">>}}],
         known |-> {<<>>},
         options |-> {Formats.script}]

(* Two files that call their variables, and those of their functions, by   *)
(* the same names.                                                         *)
NameCorpus ==
    LET Variables(vs) == [n \in DOMAIN vs |-> Statement("variable", NoFile, vs[n], "")]
        Import == <<Statement("import", X, "x", "x")>>
        Export == <<Statement("local", NoFile, "x", "x")>>
        Named(s, scopes, uses) == [Js(s) EXCEPT !.scopes = scopes, !.uses = uses]
        Nested(d, e, uses) == <<Scope(d, uses, <<Scope(e, uses, <<>>)>>)>>
        Some == {<<>>, <<"x">>, <<"x2">>}
    IN  [entry |-> A,
         contents |-> [p \in {A, X} |->
            IF p = A
            THEN {Named(s, Nested(d, e, uses), uses) :
                    s \in {Import, Import \o Variables(<<"x2">>)} \cup
                          {<<Statement(form, X, "", "")>> \o Variables(vs) :
                             form \in {"bare", "require"}, vs \in Some \cup {<<"x", "x2">>}},
                    d \in Some, e \in Some \cup {<<"wrapper">>},
                    uses \in {{"x"}, {"x", "x2"}}}
            ELSE UNION {Mentions(Named(s, scopes, uses)) :
                    s \in {Export, Export \o Variables(<<"x2">>)} \cup {Variables(vs) : vs \in Some},
                    scopes \in {<<>>, <<Scope(<<"x">>, {"x"}, <<>>)>>}, uses \in {{}, {"x"}}}],
         known |-> {<<>>},
         options |-> {Formats.script, [Formats.script EXCEPT !.minify = TRUE]}]

MCCorpora == [scan |-> ScanCorpus, await |-> AwaitCorpus, wrap |-> WrapCorpus,
              exports |-> ExportCorpus, styles |-> StyleCorpus, names |-> NameCorpus]
==============================================================================
