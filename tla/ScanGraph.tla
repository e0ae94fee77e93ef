------------------------------ MODULE ScanGraph ------------------------------
(***************************************************************************)
(* The scan of a bundle (scan_bundle, src/internal/bundler/mod.rs): from   *)
(* the entry point every file that a read file names is read once, in the  *)
(* order of a queue; then the import records get their final targets, the  *)
(* files that wait for a top-level await are marked (TopLevelAwait), and,  *)
(* when nothing was reported, the linker gets the files in the order of a  *)
(* walk.  The walk's recursive calls are modelled by their call stack.     *)
(*                                                                         *)
(* What a file holds is chosen when the scan reads it, from the contents   *)
(* its corpus allows, so the runs go through all programs of a corpus.     *)
(***************************************************************************)
EXTENDS SourceFiles

CONSTANTS
    Corpora,    \* by name: the entry point, the contents a path may have, the
                \* paths earlier builds have numbered, the build options
    Main        \* the "main" file of the packages that have a "module" file
                \* too, by the path of that

(* The paths of the files a program may have.                              *)
Disk(k) == DOMAIN Corpora[k].contents
ContentsOf(k, p) == Corpora[k].contents[p]

(* What the parser makes of a file: at rules and urls in style sheets,     *)
(* imports and calls in JavaScript, nothing that is linked in other files; *)
(* every statement with a record names a path or is external.              *)
IsParsed(c, paths) ==
    /\ c.loader \in DOMAIN Representation \cup {"broken"}
    /\ DOMAIN c.statements = 1..Len(c.statements) /\ Len(c.statements) \in Nat
    /\ c.loader \notin {"js", "css"} => c.statements = <<>>
    /\ \A i \in DOMAIN c.statements :
           LET s == c.statements[i]
           IN  /\ s.form \in DOMAIN RecordKind
               /\ s.form \in {"at", "url"} <=> c.loader = "css"
               /\ s.to \in paths \cup {NoPath}
               /\ RecordKind[s.form] = "none" => s.to = NoPath

(* The key JsStubForCss of a CSS file.                                     *)
StubOf(css) == <<"stub", css>>

ASSUME CorporaAssumption ==
    \A k \in DOMAIN Corpora :
        /\ Corpora[k].entry \in Disk(k)
        /\ \A p \in Disk(k) : \A c \in ContentsOf(k, p) : IsParsed(c, Disk(k))
        /\ NoPath \notin Disk(k)
        /\ \A p \in Disk(k) : StubOf(p) \notin Disk(k) \cup {NoPath}
        /\ \A numbered \in Corpora[k].known : numbered \in Seq(Range(numbered))

(* A package is known by the path of its "module" file, and has one "main" *)
(* file; an entry point is a file, not a package.                          *)
ASSUME MainAssumption ==
    /\ NoPath \notin DOMAIN Main
    /\ \A p \in DOMAIN Main : Main[p] \notin DOMAIN Main
    /\ \A k \in DOMAIN Corpora :
           /\ Corpora[k].entry \notin DOMAIN Main
           /\ \A p \in Disk(k) : StubOf(p) \notin DOMAIN Main
           /\ \A p \in DOMAIN Main \cap Disk(k) : Main[p] \in Disk(k)

VARIABLES
    corpus,     \* the program is one of this corpus
    options,    \* [format, splitting, stdout, minify]
    phase,      \* what the build does next
    known,      \* the source index cache: its keys in the order of their numbers
    pending,    \* the files queued for the scan; "queued" holds the same files
    cursor,     \* the next of them to read
    file,       \* the files read, with their representation
    errors,     \* the errors in the log
    async,      \* is_async_or_has_async_dependency
    visiting,   \* the calls of visit() in find_reachable_files, the last on top
    reachable   \* the files the linker is given, in its order

scanVars ==
    <<corpus, options, phase, known, pending, cursor, file, errors, async, visiting, reachable>>

(* The entry point is the first file queued.                               *)
EntryPoint == pending[1]

Files == DOMAIN file
IsJs(f) == f \in Files /\ file[f].repr = "js"
IsCss(f) == f \in Files /\ file[f].repr = "css"
IsCopy(f) == f \in Files /\ file[f].repr = "copy"

RecordsOf(f) == {i \in DOMAIN file[f].statements : RecordKind[file[f].statements[i].form] # "none"}
KindOf(f, i) == RecordKind[file[f].statements[i].form]
TargetOf(f, i) == file[f].target[i]
LinkedRecords(f) == {i \in RecordsOf(f) : TargetOf(f, i) # NoPath}

Places(s) == [i \in 1..Len(s) |-> i]

(* s with the members of "new" it does not hold yet behind it, in this     *)
(* order: how indices are given out, and how files are queued.             *)
Appended(s, new, order) ==
    LET rest == new \ Range(s)
    IN  {s \o t : t \in {t \in [1..Cardinality(rest) -> rest] :
            /\ Range(t) = rest
            /\ \A i, j \in DOMAIN t : i < j => <<t[i], t[j]>> \in order}}

-----------------------------------------------------------------------------
(* Reading the files                                                       *)

HasMain(p) == p \in DOMAIN Main

(* The resolver: a package with both fields gives its "main" file to a     *)
(* call of require, to the others its "module" file with "main" behind it. *)
Primary(s) == IF s.form = "require" /\ HasMain(s.to) THEN Main[s.to] ELSE s.to
Secondary(s) == IF s.form # "require" /\ HasMain(s.to) THEN Main[s.to] ELSE NoPath

Parsed(c) ==
    [repr |-> Representation[c.loader], loader |-> c.loader, kind |-> ExportsKind(c),
     mentions |-> c.mentions, exportKeyword |-> HasExportKeyword(c), awaits |-> c.awaits,
     css |-> NoPath, pre |-> c.pre, post |-> c.post, uses |-> c.uses, scopes |-> c.scopes,
     statements |-> c.statements,
     target |-> [i \in DOMAIN c.statements |-> Primary(c.statements[i])],
     copy |-> [i \in DOMAIN c.statements |-> NoPath]]

(* Internal files the statements name.                                     *)
Dependencies(c) == {Primary(c.statements[i]) : i \in DOMAIN c.statements} \ {NoPath}

NamedInOrder(c) ==
    {e \in Dependencies(c) \X Dependencies(c) :
        \E i \in DOMAIN c.statements :
            /\ Primary(c.statements[i]) = e[1]
            /\ \A j \in DOMAIN c.statements : Primary(c.statements[j]) = e[2] => i < j}

(* One turn of the loop: the file is read and parsed, its records get      *)
(* their indices and what they name is queued.  A file that cannot be read *)
(* or parsed names nothing and stays without a representation.             *)
ScanFile(c) ==
    /\ cursor' = cursor + 1
    /\ IF c.loader = "broken"
       THEN /\ errors' = errors \cup {[why |-> "load", file |-> pending[cursor], at |-> 0]}
            /\ UNCHANGED <<file, known, pending>>
       ELSE /\ file' = [f \in Files \cup {pending[cursor]} |->
                          IF f = pending[cursor] THEN Parsed(c) ELSE file[f]]
            /\ known' \in Appended(known, Dependencies(c), NamedInOrder(c))
            /\ pending' \in Appended(pending, Dependencies(c), NamedInOrder(c))
            /\ UNCHANGED errors
    /\ UNCHANGED <<corpus, options, phase, async, visiting, reachable>>

-----------------------------------------------------------------------------
(* The final targets of the records (finalize_scan_import_records)         *)

(* Mutant: the "main" file is taken only where "module" was not read.      *)
Redirected_Unread(f, i) ==
    LET s == Secondary(file[f].statements[i])
    IN  IF s \in Files /\ TargetOf(f, i) \notin Files THEN s ELSE TargetOf(f, i)

(* A record whose package was also read as "main" uses that file too.      *)
Redirected(f, i) ==
    LET s == Secondary(file[f].statements[i])
    IN  IF s \in Files THEN s ELSE TargetOf(f, i)

(* A file with the copy loader is no target: its record keeps a URL.       *)
Retargeted(f) ==
    LET to == [i \in DOMAIN file[f].target |-> Redirected(f, i)]
    IN  [file[f] EXCEPT !.target = [i \in DOMAIN to |-> IF IsCopy(to[i]) THEN NoPath ELSE to[i]],
                        !.copy = [i \in DOMAIN to |-> IF IsCopy(to[i]) THEN to[i] ELSE NoPath]]

(* validate_scan_imports: "@import" takes CSS only, "url()" takes what has *)
(* a URL; a file with the empty loader does for both.                      *)
IsRejected(files, f, i) ==
    LET to == files[f].target[i]
        form == files[f].statements[i].form
    IN  /\ to \in DOMAIN files
        /\ \/ form = "at" /\ files[to].repr = "js" /\ files[to].loader # "empty"
           \/ form = "url" /\ files[to].repr = "css"
           \/ form = "url" /\ files[to].repr = "js" /\ files[to].loader # "empty"

ImportErrors(files) ==
    UNION {{[why |-> "import", file |-> f, at |-> i] :
               i \in {j \in DOMAIN files[f].statements : IsRejected(files, f, j)}} : f \in DOMAIN files}

(* The records of JavaScript files that name CSS files.                    *)
CssEdges(files) ==
    UNION {{<<f, i>> : i \in {j \in DOMAIN files[f].target :
                               /\ files[f].repr = "js"
                               /\ files[f].target[j] \in DOMAIN files
                               /\ files[files[f].target[j]].repr = "css"}} : f \in DOMAIN files}

(* The JavaScript file that stands for a CSS file where JavaScript imports *)
(* it: a lazy export with the CSS file behind it.                          *)
Stub(css) ==
    [repr |-> "js", loader |-> "json", kind |-> "none", mentions |-> FALSE,
     exportKeyword |-> FALSE, awaits |-> FALSE, css |-> css,
     pre |-> <<>>, post |-> <<>>, uses |-> {}, scopes |-> <<>>,
     statements |-> <<>>, target |-> <<>>, copy |-> <<>>]

(* Mutant: only import statements get the stub.                            *)
StubEdges_Statements(files) ==
    {e \in CssEdges(files) : RecordKind[files[e[1]].statements[e[2]].form] = "stmt"}

StubEdges(files) == CssEdges(files)

(* The edges are followed in the order of the files' indices.              *)
Index(f) == CHOOSE n \in DOMAIN known : known[n] = f

EdgeBefore(d, e) == Index(d[1]) < Index(e[1]) \/ (d[1] = e[1] /\ d[2] < e[2])

FinalizeImportRecords ==
    LET retargeted == [f \in Files |-> Retargeted(f)]
        edges == StubEdges(retargeted)
        stub(e) == StubOf(retargeted[e[1]].target[e[2]])
        new(e) == IF options.stdout THEN NoPath ELSE stub(e)
        linked == [f \in Files |->
                     [retargeted[f] EXCEPT !.target =
                        [i \in DOMAIN @ |-> IF <<f, i>> \in edges THEN new(<<f, i>>) ELSE @[i]]]]
        stubs == {stub(e) : e \in edges}
        order == {e \in stubs \X stubs :
                     \E b \in edges : /\ stub(b) = e[1]
                                      /\ \A c \in edges : stub(c) = e[2] => EdgeBefore(b, c)}
    IN  /\ phase = "scan" /\ cursor > Len(pending)
        /\ phase' = "await"
        /\ IF options.stdout
           THEN /\ errors' = errors \cup ImportErrors(retargeted) \cup
                                {[why |-> "stdout", file |-> e[1], at |-> e[2]] : e \in edges}
                /\ file' = linked
                /\ UNCHANGED known
           ELSE /\ errors' = errors \cup ImportErrors(retargeted)
                /\ file' = [f \in Files \cup stubs |-> IF f \in stubs THEN Stub(f[2]) ELSE linked[f]]
                /\ known' \in Appended(known, stubs, order)
        /\ UNCHANGED <<corpus, options, pending, cursor, async, visiting, reachable>>

-----------------------------------------------------------------------------
(* What the linker gets                                                    *)

(* The linker runs only when nothing was reported.                         *)
StartLinking ==
    /\ phase = "reach"
    /\ IF errors = {}
       THEN phase' = "link" /\ visiting' = <<EntryPoint>>
       ELSE phase' = "failed" /\ UNCHANGED visiting
    /\ UNCHANGED <<corpus, options, known, pending, cursor, file, errors, async, reachable>>

(* find_reachable_files marks a file when it enters it and lists it when   *)
(* it leaves it.                                                           *)
Visited == Range(visiting) \cup Range(reachable)

(* The recursive calls of a visit: the CSS file of a stub first, then what *)
(* the records name.                                                       *)
Visits(f) == IF f \in Files THEN {0} \cup DOMAIN file[f].target ELSE {}

VisitedBy(f, i) ==
    IF i = 0 THEN file[f].css
    ELSE IF TargetOf(f, i) # NoPath THEN TargetOf(f, i) ELSE file[f].copy[i]

(* A call for a visited file returns at once, so the next one entered is   *)
(* the first that is not visited.                                          *)
Unvisited(f) == {i \in Visits(f) : VisitedBy(f, i) \notin Visited \cup {NoPath}}

VisitFile ==
    /\ phase = "link" /\ visiting # <<>>
    /\ \E i \in Unvisited(Last(visiting)) :
          /\ \A j \in Unvisited(Last(visiting)) : i <= j
          /\ visiting' = Append(visiting, VisitedBy(Last(visiting), i))
    /\ UNCHANGED <<corpus, options, phase, known, pending, cursor, file, errors, async, reachable>>

LeaveFile ==
    /\ phase = "link" /\ visiting # <<>>
    /\ Unvisited(Last(visiting)) = {}
    /\ reachable' = Append(reachable, Last(visiting))
    /\ visiting' = Front(visiting)
    /\ UNCHANGED <<corpus, options, phase, known, pending, cursor, file, errors, async>>

(* inline_linked_assets: a CSS record that names a JavaScript file or a    *)
(* copied one keeps its URL, and names a file no more.                     *)
Inlined(f) ==
    [file[f] EXCEPT !.target = [i \in DOMAIN @ |-> IF IsCss(f) /\ IsJs(@[i]) THEN NoPath ELSE @[i]],
                    !.copy = [i \in DOMAIN @ |-> NoPath]]

InlineLinkedAssets ==
    /\ phase = "link" /\ visiting = <<>>
    /\ phase' = "wrap"
    /\ file' = [f \in Files |-> Inlined(f)]
    /\ UNCHANGED <<corpus, options, known, pending, cursor, errors, async, visiting, reachable>>

ScanInit ==
    /\ corpus \in DOMAIN Corpora
    /\ options \in Corpora[corpus].options
    /\ phase = "scan"
    /\ \E k \in Corpora[corpus].known :
          known \in Appended(k, {Corpora[corpus].entry}, {})
    /\ pending = <<Corpora[corpus].entry>>
    /\ cursor = 1
    /\ file = <<>>
    /\ errors = {} /\ async = {} /\ visiting = <<>> /\ reachable = <<>>

(* The files before and after the check of top-level awaits.               *)
ScanNext ==
    \/ /\ phase = "scan" /\ cursor <= Len(pending)
       /\ \E c \in ContentsOf(corpus, pending[cursor]) : ScanFile(c)
    \/ FinalizeImportRecords
    \/ StartLinking
    \/ VisitFile
    \/ LeaveFile
    \/ InlineLinkedAssets
-----------------------------------------------------------------------------
(* Properties *)

NamedFile(s) == IF Secondary(s) \in Files THEN Secondary(s) ELSE Primary(s)

(* The linker indexes files by the records and panics on a file without a  *)
(* representation or with one of the wrong kind.  When nothing was         *)
(* reported, the files it is given are all read, JavaScript records lead   *)
(* to JavaScript and "@import" to CSS, and a statement that leads nowhere  *)
(* names an external file or one whose URL takes its place.                *)
LinkerInputIsSound ==
    phase = "wrap" => \A f \in Range(reachable) :
        /\ f \in Files
        /\ \A i \in LinkedRecords(f) : TargetOf(f, i) \in Range(reachable)
        /\ IsJs(f) => \A i \in LinkedRecords(f) : IsJs(TargetOf(f, i))
        /\ IsCss(f) => \A i \in LinkedRecords(f) : KindOf(f, i) = "at" /\ IsCss(TargetOf(f, i))
        /\ \A i \in RecordsOf(f) \ LinkedRecords(f) :
               LET to == NamedFile(file[f].statements[i])
               IN  to = NoPath \/ IsCopy(to) \/ (IsCss(f) /\ file[to].loader = "empty")

(* Of a package that has both an ES and a CommonJS file only one gets into *)
(* the bundle, in whichever ways it is imported by name and whichever was  *)
(* met first: two would have a state each.  (An import of one of its files *)
(* by a path is not modelled.)                                             *)
OneCopyOfAPackage ==
    phase = "wrap" => \A p \in DOMAIN Main :
                   ~({p, Main[p]} \subseteq Range(reachable))
==============================================================================
