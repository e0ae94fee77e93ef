---------------------------- MODULE TopLevelAwait ----------------------------
(***************************************************************************)
(* The files that wait for a top-level await, and the calls of require     *)
(* that may not name them (validate_top_level_await,                       *)
(* src/internal/bundler/mod.rs).  The recursive function is modelled by    *)
(* its call stack, and so is the search for the await an error tells of.   *)
(***************************************************************************)
EXTENDS ScanGraph

VARIABLES
    checks,     \* the TlaCheck of every file visited: how far behind an await
                \* it is, and the next file on the way there
    calls,      \* the calls of visit(): the file, and the record it is at
    culprit     \* the file an error is being traced to, NoPath if none

awaitVars == <<checks, calls, culprit>>

(* What the linker leaves alone.                                           *)
scannedVars ==
    <<corpus, options, known, pending, cursor, file, errors, async, visiting, reachable, awaitVars>>

IsFollowed(f, i) ==
    /\ i \in LinkedRecords(f)
    /\ KindOf(f, i) \in {"stmt", "require"}
    /\ TargetOf(f, i) \in Files

Caller == Last(calls).file
RecordAt == Last(calls).at
Unchecked == Files \ DOMAIN checks

(* A file is marked when it is entered; only JavaScript has records to     *)
(* follow.                                                                 *)
Visit(f) ==
    /\ checks' = [g \in DOMAIN checks \cup {f} |->
                    IF g = f THEN [depth |-> 1,
                                   parent |-> IF IsJs(f) /\ file[f].awaits THEN f ELSE NoPath]
                    ELSE checks[g]]
    /\ calls' = IF IsJs(f) THEN Append(calls, [file |-> f, at |-> 1]) ELSE calls
    /\ UNCHANGED <<culprit, scanVars>>

(* Every file, in the order of the indices.                                *)
VisitFirst ==
    /\ phase = "await" /\ calls = <<>>
    /\ \E n \in DOMAIN known :
          /\ known[n] \in Unchecked
          /\ \A m \in 1..(n - 1) : known[m] \notin Unchecked
          /\ Visit(known[n])

VisitTarget ==
    /\ phase = "await" /\ calls # <<>> /\ RecordAt \in DOMAIN file[Caller].statements
    /\ IsFollowed(Caller, RecordAt) /\ TargetOf(Caller, RecordAt) \in Unchecked
    /\ Visit(TargetOf(Caller, RecordAt))

AdvancedCalls == [calls EXCEPT ![Len(calls)].at = @ + 1]

IsBehindAwait(f, i) == IsFollowed(f, i) /\ checks[TargetOf(f, i)].parent # NoPath

(* An import brings the file behind the await, if by a shorter way.        *)
Shortens(f, i) ==
    /\ IsBehindAwait(f, i) /\ KindOf(f, i) = "stmt"
    /\ \/ checks[f].parent = NoPath
       \/ checks[TargetOf(f, i)].depth < checks[f].depth

(* Mutant: only a call of require for a file that awaits itself is found.  *)
IsForbidden_Direct(f, i) ==
    /\ IsBehindAwait(f, i) /\ KindOf(f, i) = "require"
    /\ checks[TargetOf(f, i)].parent = TargetOf(f, i)

IsForbidden(f, i) == IsBehindAwait(f, i) /\ KindOf(f, i) = "require"

(* What the loop does with a record after the visit of its target.         *)
FollowImport ==
    /\ phase = "await" /\ calls # <<>> /\ RecordAt \in DOMAIN file[Caller].statements
    /\ ~(IsFollowed(Caller, RecordAt) /\ TargetOf(Caller, RecordAt) \in Unchecked)
    /\ culprit = NoPath
    /\ checks' = IF Shortens(Caller, RecordAt)
                 THEN [checks EXCEPT ![Caller] =
                         [depth |-> checks[TargetOf(Caller, RecordAt)].depth + 1,
                          parent |-> TargetOf(Caller, RecordAt)]]
                 ELSE checks
    /\ IF IsForbidden(Caller, RecordAt)
       THEN culprit' = TargetOf(Caller, RecordAt) /\ UNCHANGED calls
       ELSE calls' = AdvancedCalls /\ UNCHANGED culprit
    /\ UNCHANGED scanVars

(* Follows the parents to the await the error tells of, and reports it.    *)
FindAwait ==
    /\ phase = "await" /\ culprit # NoPath
    /\ IF IsJs(culprit) /\ ~file[culprit].awaits /\ checks[culprit].parent # NoPath
       THEN culprit' = checks[culprit].parent /\ UNCHANGED <<errors, calls>>
       ELSE /\ errors' = errors \cup
                 {[why |-> "await", file |-> Caller, at |-> RecordAt,
                   culprit |-> IF IsJs(culprit) /\ file[culprit].awaits THEN culprit ELSE NoPath]}
            /\ culprit' = NoPath
            /\ calls' = AdvancedCalls
    /\ UNCHANGED <<checks, corpus, options, phase, known, pending, cursor, file, async, visiting,
                   reachable>>

Return ==
    /\ phase = "await" /\ calls # <<>> /\ RecordAt \notin DOMAIN file[Caller].statements
    /\ calls' = Front(calls)
    /\ UNCHANGED <<checks, culprit, scanVars>>

MarkAsync ==
    /\ phase = "await" /\ calls = <<>> /\ Range(known) \cap Unchecked = {}
    /\ phase' = "reach"
    /\ async' = {f \in DOMAIN checks : checks[f].parent # NoPath}
    /\ checks' = <<>>
    /\ UNCHANGED <<calls, culprit, corpus, options, known, pending, cursor, file, errors, visiting,
                   reachable>>

AwaitInit == checks = <<>> /\ calls = <<>> /\ culprit = NoPath

ValidateTopLevelAwait ==
    VisitFirst \/ VisitTarget \/ FollowImport \/ FindAwait \/ Return \/ MarkAsync

BundleInit == ScanInit /\ AwaitInit

BundleNext ==
    \/ ScanNext /\ UNCHANGED awaitVars
    \/ ValidateTopLevelAwait

BundleSpec == BundleInit /\ [][BundleNext]_<<scanVars, awaitVars>>

-----------------------------------------------------------------------------
(* Properties *)

(* The files that records of these kinds lead to.                          *)
LedTo(f, kinds) ==
    IF IsJs(f) THEN {TargetOf(f, i) : i \in {j \in LinkedRecords(f) : KindOf(f, j) \in kinds}} \cap Files
    ELSE {}

(* In any number of steps: the least set that has them and all they lead to. *)
Closure(found, kinds) ==
    LET closed == {S \in SUBSET Files : \A f \in S : LedTo(f, kinds) \subseteq S}
    IN  {g \in Files : \A S \in closed : found \cap Files \subseteq S => g \in S}

WaitsFor(f) == {g \in Closure({f}, {"stmt"}) : IsJs(g) /\ file[g].awaits}

(* No circle of imports can be met below the file.                         *)
BelowNoCircle(f) ==
    LET evaluated == {"stmt", "require"}
    IN  \A g \in Closure({f}, evaluated) : g \notin Closure(LedTo(g, evaluated), evaluated)

(* A file is made async only if an import chain of it ends at an await;    *)
(* every error about require() tells of such an await; and where imports   *)
(* make no circle nothing is missed, in whatever order earlier builds      *)
(* numbered the files: who imports an await is async, who requires one     *)
(* gets the error (validate_top_level_await).                              *)
AwaitsAreFound ==
    phase = "reach" =>
        /\ \A f \in async : WaitsFor(f) # {}
        /\ \A e \in errors : e.why = "await" =>
               e.culprit \in WaitsFor(TargetOf(e.file, e.at))
        /\ \A f \in Files : IsJs(f) /\ BelowNoCircle(f) =>
               /\ WaitsFor(f) # {} => f \in async
               /\ \A i \in LinkedRecords(f) :
                      KindOf(f, i) = "require" /\ WaitsFor(TargetOf(f, i)) # {} =>
                          \E e \in errors : e.why = "await" /\ e.file = f /\ e.at = i
==============================================================================
