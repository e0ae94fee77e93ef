----------------------------- MODULE SourceFiles -----------------------------
(***************************************************************************)
(* What the scanner and the linker read of a parsed source file: its       *)
(* statements that import or export, in source order, and what the parser  *)
(* derives from them (src/internal/js_parser/parser.rs).  Every statement  *)
(* that names another file has an import record, so a record is known by   *)
(* the place of its statement; the parser itself is not modelled.          *)
(***************************************************************************)
EXTENDS Integers, Sequences, FiniteSets, SequencesExt

CONSTANT
    NoPath      \* an invalid Index32, and the target of an external import

(* form       source text                     form       source text       *)
(* "bare"       import 'to'                   "local"      let name;       *)
(* "import"     import {name} from 'to'                    export {name as alias} *)
(* "namespace"  import * as ns from 'to'      "require"    require('to')   *)
(* "reexport"   export {name as alias} from   "dynamic"    import('to')    *)
(* "star"       export * from 'to'            "at"         @import 'to' name *)
(* "starAs"     export * as alias from 'to'   "url"        url('to')       *)
(* "variable"   let name;                                                  *)
Statement(form, to, name, alias) == [form |-> form, to |-> to, name |-> name, alias |-> alias]

(* The kind of the statement's import record ("none": it has none).        *)
ImportStatements == {"bare", "import", "namespace", "reexport", "star", "starAs"}

RecordKind ==
    [form \in ImportStatements \cup {"require", "dynamic", "at", "url", "local", "variable"} |->
        IF form \in ImportStatements THEN "stmt"
        ELSE IF form \in {"local", "variable"} THEN "none" ELSE form]

ExportForms == {"local", "reexport", "star", "starAs"}
ImportForms == {"bare", "import", "namespace"}

(* The names a named import binds: named_imports, by record, and the       *)
(* exports by alias: named_exports.                                        *)
NamedImportForms == {"import", "namespace", "reexport", "starAs"}
NamedExportForms == {"local", "reexport", "starAs"}

(* CONTAINS_IMPORT_STAR and CONTAINS_DEFAULT_ALIAS                         *)
ContainsStarOrDefault(s) ==
    \/ s.form \in {"namespace", "starAs"}
    \/ s.form \in {"import", "reexport"} /\ s.name = "default"

(* Calls get their records when the file is visited, after all statements. *)
InRecordOrder(statements) ==
    SelectSeq(statements, LAMBDA s : s.form \notin {"require", "dynamic"}) \o
    SelectSeq(statements, LAMBDA s : s.form \in {"require", "dynamic"})

(* A function or block: the names it declares, those its own code uses,    *)
(* and the scopes in it.                                                   *)
Scope(declares, uses, inner) == [declares |-> declares, uses |-> uses, inner |-> inner]

(* A file on disk.  "mentions": it refers to "exports" or "module";        *)
(* "awaits": it has a live await at its top level; "pre" and "post": the   *)
(* cascade layers a style sheet declares before its imports and after;     *)
(* "uses" and "scopes": the names its top level uses and the scopes in it. *)
Content(loader, statements) ==
    [loader |-> loader, mentions |-> FALSE, awaits |-> FALSE, pre |-> <<>>, post |-> <<>>,
     uses |-> {}, scopes |-> <<>>, statements |-> InRecordOrder(statements)]

HasForm(c, forms) == \E i \in DOMAIN c.statements : c.statements[i].form \in forms

HasExportKeyword(c) == HasForm(c, ExportForms)

ExportsKind(c) ==
    IF HasExportKeyword(c) \/ c.awaits THEN "esm"
    ELSE IF c.mentions THEN "cjs"
    ELSE IF HasForm(c, ImportForms) THEN "esm" ELSE "none"

(* Two exports of one file under one alias are an error of the parser.     *)
ExportsOnce(c) ==
    \A i, j \in DOMAIN c.statements :
        /\ c.statements[i].form \in NamedExportForms
        /\ c.statements[j].form \in NamedExportForms
        /\ c.statements[i].alias = c.statements[j].alias
        => i = j

(* What a file becomes when it is parsed.                                  *)
Representation ==
    [loader \in {"js", "json", "empty", "css", "copy"} |->
        IF loader \in {"css", "copy"} THEN loader ELSE "js"]
==============================================================================
