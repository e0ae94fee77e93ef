------------------------------- MODULE Renaming -------------------------------
(***************************************************************************)
(* The names that the symbols of a chunk get when its files are put into   *)
(* one scope (rename_symbols_in_chunk, src/internal/linker/mod.rs, and     *)
(* src/internal/renamer/mod.rs): the original ones, with a number where    *)
(* they are taken, or short ones.  Of a build without code splitting: one  *)
(* chunk has all files.  Labels, private names, JSX and direct eval are    *)
(* left out.                                                               *)
(***************************************************************************)
EXTENDS CssOrder

CONSTANT MaxTries   \* bound: the numbers put behind a name

VARIABLE names      \* the printed name of each symbol, by its canonical reference

(* A name is its text and the number at its end (1: none).                 *)
Spelling(name) == IF name = "x2" THEN <<"x", 2>> ELSE <<name, 1>>
Numbered(name, n) == <<name[1], IF name[2] = 1 THEN n ELSE 10 * name[2] + n>>

(* The minifier's names are in the order of the characters' frequency, so  *)
(* a name of the program may be among them.                                *)
ShortName(n) == IF n = 1 THEN Spelling("x") ELSE <<"short", n>>

-----------------------------------------------------------------------------
(* Scopes and symbols.  A scope is known by its path in the file, <<>> is  *)
(* the module scope.                                                       *)

NestedRef(f, path, name) == [file |-> f, path |-> path, local |-> name]
WrapperRef(f) == LocalRef(f, "wrapper")

DeclaringForms == {"local", "variable", "import"}
DeclaredRef(f, i) ==
    IF StatementOf(f, i).form = "import" THEN ImportRef(f, i) ELSE LocalRef(f, StatementOf(f, i).name)

(* The symbols of the module scope, in order.                              *)
TopLevel(f) ==
    LET declaring == SelectSeq(Places(file[f].statements),
                               LAMBDA i : StatementOf(f, i).form \in DeclaringForms)
    IN  FoldLeft(AppendNew, <<>>, [n \in DOMAIN declaring |-> DeclaredRef(f, declaring[n])])

OriginalName(ref) ==
    Spelling(IF "import" \in DOMAIN ref /\ IsImportRef(ref)
             THEN StatementOf(ref.file, ref.import).name ELSE ref.local)

(* The symbol that a symbol was merged into when its import was bound.     *)
Canonical(ref) ==
    IF "import" \in DOMAIN ref /\ <<ref.file, ref>> \in DOMAIN bound
    THEN bound[<<ref.file, ref>>].ref ELSE ref

RECURSIVE ScopeAt(_, _)
ScopeAt(scope, path) == IF path = <<>> THEN scope ELSE ScopeAt(scope.inner[Head(path)], Tail(path))

ModuleScope(f) == Scope(<<>>, file[f].uses, file[f].scopes)

RECURSIVE PathsBelow(_, _)
PathsBelow(scope, path) ==
    {path} \cup UNION {PathsBelow(scope.inner[n], Append(path, n)) : n \in DOMAIN scope.inner}

PathsOf(f) == PathsBelow(ModuleScope(f), <<>>)
NestedIn(f, path) ==
    LET declares == ScopeAt(ModuleScope(f), path).declares
    IN  [n \in DOMAIN declares |-> NestedRef(f, path, declares[n])]

ScopesAround(path) == {SubSeq(path, 1, n) : n \in 0..Len(path)}

(* What a name means where the program uses it: <<>> if nothing in the     *)
(* file declares it.                                                       *)
SymbolOf(f, path, name) ==
    LET around == {p \in ScopesAround(path) \ {<<>>} :
                      name \in Range(ScopeAt(ModuleScope(f), p).declares)}
        nearest == CHOOSE p \in around : \A q \in around : Len(q) <= Len(p)
        top == {r \in Range(TopLevel(f)) : OriginalName(r) = Spelling(name)}
    IN  IF around # {} THEN <<NestedRef(f, nearest, name)>>
        ELSE IF top # {} THEN <<Canonical(CHOOSE r \in top : TRUE)>> ELSE <<>>

UsesIn(f) ==
    UNION {{<<path, name>> : name \in ScopeAt(ModuleScope(f), path).uses} : path \in PathsOf(f)}

Unbound(f) == {u[2] : u \in {v \in UsesIn(f) : SymbolOf(f, v[1], v[2]) = <<>>}}

ChunkFiles == SelectSeq(reachable, IsJs)

(* compute_reserved_names: the names that no file declares.                *)
ReservedNames == {Spelling(name) : name \in UNION {Unbound(f) : f \in Range(ChunkFiles)}}

-----------------------------------------------------------------------------
(* Names with numbers: "scopes" has the parent of each scope, 0 for the    *)
(* chunk's own, and how often each name was tried in it.                   *)

RECURSIVE ScopeChain(_, _)
ScopeChain(scopes, at) == IF at = 0 THEN {} ELSE {at} \cup ScopeChain(scopes, scopes[at].parent)

(* Mutant: only the scope that declares the name is looked at.             *)
IsTaken_Here(scopes, at, name) == name \in DOMAIN scopes[at].counts

(* find_name_use, here and in the scopes around                            *)
IsTaken(scopes, at, name) == \E s \in ScopeChain(scopes, at) : name \in DOMAIN scopes[s].counts

(* find_unused_name                                                        *)
UnusedName(scopes, at, name) ==
    LET here == name \in DOMAIN scopes[at].counts
        tried == IF here THEN scopes[at].counts[name] ELSE 1
        free == {n \in tried + 1 .. MaxTries : ~IsTaken(scopes, at, Numbered(name, n))}
        n == Min(free)
    IN  IF ~IsTaken(scopes, at, name)
        THEN [name |-> name, counts |-> (name :> 1) @@ scopes[at].counts]
        ELSE [name |-> Numbered(name, n),
              counts |-> (Numbered(name, n) :> 1) @@ (IF here THEN name :> n ELSE <<>>) @@ scopes[at].counts]

AssignName(r, at, ref) ==
    LET symbol == Canonical(ref)
        found == UnusedName(r.scopes, at, OriginalName(symbol))
    IN  IF symbol \in DOMAIN r.names THEN r
        ELSE [names |-> (symbol :> found.name) @@ r.names,
              scopes |-> [r.scopes EXCEPT ![at].counts = found.counts]]

AssignNames(r, at, refs) == FoldLeft(LAMBDA acc, ref : AssignName(acc, at, ref), r, refs)

(* assign_names_in_nested_scopes: a scope before those in it; one that     *)
(* declares nothing is passed over.                                        *)
RECURSIVE AssignNamesInScope(_, _, _, _)
AssignNamesInScope(r, parent, f, path) ==
    LET refs == IF path = <<>> THEN TopLevel(f) ELSE NestedIn(f, path)
        entered == IF refs = <<>> THEN r
                   ELSE AssignNames([r EXCEPT !.scopes = Append(@, [parent |-> parent, counts |-> <<>>])],
                                    Len(r.scopes) + 1, refs)
        at == IF refs = <<>> THEN parent ELSE Len(entered.scopes)
        Inner(acc, n) == AssignNamesInScope(acc, at, f, Append(path, n))
    IN  FoldLeft(Inner, entered, Places(ScopeAt(ModuleScope(f), path).inner))

(* The chunk's scope gets the wrapper, and of a file without a closure of  *)
(* its own all top-level symbols too.                                      *)
TopLevelOfChunk(f) ==
    (IF wrap[f] = "none" THEN <<>> ELSE <<WrapperRef(f)>>) \o
    (IF wrap[f] = "cjs" THEN <<>> ELSE TopLevel(f))

NumberedNames ==
    LET start == [names |-> <<>>,
                  scopes |-> <<[parent |-> 0, counts |-> [name \in ReservedNames |-> 1]]>>]
        top == FoldLeft(LAMBDA acc, f : AssignNames(acc, 1, TopLevelOfChunk(f)), start, ChunkFiles)
        Nested(acc, f) ==
            IF f \notin Range(ChunkFiles) THEN acc
            ELSE IF wrap[f] = "cjs" THEN AssignNamesInScope(acc, 1, f, <<>>)
            ELSE FoldLeft(LAMBDA m, n : AssignNamesInScope(m, 1, f, <<n>>), acc, Places(file[f].scopes))
    IN  FoldLeft(Nested, top, known).names

-----------------------------------------------------------------------------
(* Short names: symbols that are never visible together share a slot.      *)

(* assign_nested_scope_slots: a scope's slots follow those of the scopes   *)
(* around it.                                                              *)
SlotsAround(f, path) ==
    MapThenSumSet(LAMBDA p : Len(NestedIn(f, p)), ScopesAround(path) \ {path, <<>>})

NestedSlots ==
    UNION {UNION {{<<NestedIn(f, path)[n], SlotsAround(f, path) + n>> : n \in DOMAIN NestedIn(f, path)} :
                  path \in PathsOf(f) \ {<<>>}} : f \in Range(ChunkFiles)}

(* allocate_top_level_symbol_slots: behind all nested ones, one for each.  *)
TopLevelSlots ==
    LET first == Max({s[2] : s \in NestedSlots} \cup {0})
        All(f) == (IF wrap[f] = "none" THEN <<>> ELSE <<WrapperRef(f)>>) \o TopLevel(f)
        Add(acc, ref) == AppendNew(acc, Canonical(ref))
        symbols == FoldLeft(LAMBDA acc, f : FoldLeft(Add, acc, All(f)), <<>>, ChunkFiles)
    IN  {<<symbols[n], first + n>> : n \in DOMAIN symbols}

(* assign_names_by_frequency; how often a symbol is used decides only      *)
(* which of them get the shorter names.                                    *)
ShortNames ==
    LET slots == NestedSlots \cup TopLevelSlots
        free == SelectSeq([n \in 1 .. Cardinality(slots) + Cardinality(ReservedNames) |-> ShortName(n)],
                          LAMBDA name : name \notin ReservedNames)
    IN  [ref \in {s[1] : s \in slots} |-> free[(CHOOSE s \in slots : s[1] = ref)[2]]]

RenameSymbols ==
    /\ phase = "chunked" /\ ~options.splitting
    /\ phase' = "named"
    /\ names' = IF options.minify THEN ShortNames ELSE NumberedNames
    /\ UNCHANGED <<wrapVars, exportVars, cssVars>>
    /\ UNCHANGED scannedVars

RenameInit == names = <<>>
-----------------------------------------------------------------------------
(* Properties *)

(* The symbols of the scopes around a place in the printed chunk, from the *)
(* inside: nested scopes, the closure of a CommonJS file, the chunk.       *)
PrintedScopes(f, path) ==
    LET nested == [n \in 1..Len(path) |-> Range(NestedIn(f, SubSeq(path, 1, Len(path) + 1 - n)))]
        own == IF wrap[f] = "cjs"
               THEN <<{r \in Range(TopLevel(f)) : Canonical(r) = r}>>
               ELSE <<>>
        chunk == UNION {{Canonical(r) : r \in Range(TopLevelOfChunk(g))} : g \in Range(ChunkFiles)}
    IN  nested \o own \o <<chunk>>

(* What a printed name means in a list of scopes.                          *)
PrintedMeaning(scopes, name) ==
    LET having == {n \in DOMAIN scopes : \E r \in scopes[n] : names[r] = name}
    IN  IF having = {} THEN {} ELSE {r \in scopes[Min(having)] : names[r] = name}

(* Whatever the files and their nested scopes called their symbols, each   *)
(* use still means the symbol it meant: no two symbols of one scope have   *)
(* one name, no local variable hides another file's symbol where that is   *)
(* used, a global variable is not hidden by anything, and a call of        *)
(* require reaches the wrapper of its file wherever it stands.             *)
NamesKeepTheirMeaning ==
    phase = "named" /\ issues = {} =>
        \A f \in Range(ChunkFiles) :
            /\ \A use \in UsesIn(f) :
                  LET symbol == SymbolOf(f, use[1], use[2])
                      scopes == PrintedScopes(f, use[1])
                  IN  IF symbol = <<>> THEN PrintedMeaning(scopes, Spelling(use[2])) = {}
                      ELSE PrintedMeaning(scopes, names[symbol[1]]) = Range(symbol)
            /\ \A i \in LinkedRecords(f) : KindOf(f, i) = "require" =>
                  LET wrapper == WrapperRef(TargetOf(f, i))
                  IN  \A path \in PathsOf(f) :
                          PrintedMeaning(PrintedScopes(f, path), names[wrapper]) = {wrapper}
==============================================================================
