---------------------------- MODULE BuildContext ----------------------------
(***************************************************************************)
(* The native build context of api/mod.rs (BuildContext): rebuilds that    *)
(* coalesce into one build in flight, cancellation, disposal, and watch    *)
(* mode with its polling worker and its initial build thread.              *)
(*                                                                         *)
(* A client is a thread that calls the public methods.  A method is cut    *)
(* where the code releases the state mutex or blocks, so every action is   *)
(* one critical section, or one stretch of a build that no other thread    *)
(* can tell from a single step.  The program under build is one source     *)
(* file with a version; a complete build emits one output file named after *)
(* the version it read, as a content hash in the file name does.  The      *)
(* context writes to a directory ("write" is set, output does not go to    *)
(* stdout) that holds no input file.                                       *)
(***************************************************************************)
EXTENDS Naturals

CONSTANTS
    Clients,    \* threads that call rebuild, cancel, watch and dispose
    Worker,     \* the watcher's polling thread
    Initial,    \* the thread "watch" spawns for the first build
    Flights,    \* identities of InFlightBuild allocations
    NoFlight,   \* the absence of one
    MaxEdits,   \* bound: edits of the source file
    Broken,     \* the versions of the source with a syntax error
    Methods,    \* the methods each client calls in this instance
    Faults      \* what may fail in a build, see BoundsAssumption

Actors == Clients \cup {Worker, Initial}
Versions == 0 .. MaxEdits

ASSUME ActorsAssumption ==
    /\ Worker \notin Clients
    /\ Initial \notin Clients
    /\ Worker # Initial

ASSUME FlightsAssumption == NoFlight \notin Flights

ASSUME BoundsAssumption ==
    /\ MaxEdits \in Nat
    /\ Methods \in [Clients -> SUBSET {"rebuild", "cancel", "watch", "dispose"}]
    /\ Broken \subseteq Versions
    /\ Faults \subseteq {"panic",      \* the scanner or the linker panics
                        "onStart",    \* an onStart callback reports an error
                        "remove",     \* an old output file cannot be removed
                        "write"}      \* an output file cannot be written

VARIABLES
    disposed,   \* BuildContextState.disposed
    active,     \* BuildContextState.active
    latest,     \* BuildContextState.latest_hashes: the output files tracked
    watcher,    \* whether BuildContextState.watcher is set
    cleaned,    \* whether the plugins are deactivated and onDispose has run
    stopping,   \* the watcher's should_stop
    data,       \* the version the watcher polls against; {}: no watch data
    flag,       \* the flights whose cancellation flag is set
    outcome,    \* InFlightBuild.outcome
    pc,         \* where each actor is
    mine,       \* the flight an actor builds, joins, cancels or waits for
    base,       \* locals of a build: old_hashes,
    sees,       \*   whether it captured the watcher,
    read,       \*   the source version in its watch data,
    outs,       \*   its output files
    disk,       \* the files in the output directory
    source,     \* the version of the source file
    stray,      \* not in the code: the output files a failing step left behind,
                \*   unless they were written again
    unwritten   \* not in the code: the output files the last build to write
                \*   any could not create

contextVars == <<disposed, active, latest, watcher, cleaned>>
watchVars == <<stopping, data>>
flightVars == <<flag, outcome>>
buildVars == <<base, sees, read, outs>>
worldVars == <<disk, source, stray, unwritten>>
vars == <<contextVars, watchVars, flightVars, pc, mine, buildVars, worldVars>>

BuildSteps == {"capture", "start", "failed", "scan", "compile", "write",
               "publish", "store", "finish", "unwind"}
WaitSteps == {"join", "flagging", "cancelWait", "startWatcher", "stopWatcher",
              "joinWorker", "disposeWait", "waitPrevious"}
RestSteps == {"idle", "absent", "poll", "delay", "request", "cleanup", "gone"}

TypeOK ==
    /\ disposed \in BOOLEAN
    /\ active \in Flights \cup {NoFlight}
    /\ latest \subseteq Versions
    /\ watcher \in BOOLEAN
    /\ cleaned \in BOOLEAN
    /\ stopping \in BOOLEAN
    /\ data \subseteq Versions
    /\ flag \subseteq Flights
    /\ outcome \in [Flights -> {"none", "completed", "panicked"}]
    /\ pc \in [Actors -> BuildSteps \cup WaitSteps \cup RestSteps]
    /\ mine \in [Actors -> Flights \cup {NoFlight}]
    /\ base \in [Actors -> SUBSET Versions]
    /\ sees \in [Actors -> BOOLEAN]
    /\ read \in [Actors -> SUBSET Versions]
    /\ outs \in [Actors -> SUBSET Versions]
    /\ disk \subseteq Versions
    /\ source \in Versions
    /\ stray \subseteq Versions
    /\ unwritten \subseteq Versions

Init ==
    /\ disposed = FALSE
    /\ active = NoFlight
    /\ latest = {}
    /\ watcher = FALSE
    /\ cleaned = FALSE
    /\ stopping = FALSE
    /\ data = {}
    /\ flag = {}
    /\ outcome = [f \in Flights |-> "none"]
    /\ pc = [a \in Actors |-> IF a \in Clients THEN "idle" ELSE "absent"]
    /\ mine = [a \in Actors |-> NoFlight]
    /\ base = [a \in Actors |-> {}]
    /\ sees = [a \in Actors |-> FALSE]
    /\ read = [a \in Actors |-> {}]
    /\ outs = [a \in Actors |-> {}]
    /\ disk = {}
    /\ source = 0
    /\ stray = {}
    /\ unwritten = {}

-----------------------------------------------------------------------------
(* Where an actor goes when the method it called returns, or unwinds.      *)

Return(a) ==
    CASE a \in Clients -> "idle"
      [] a = Worker -> "poll"
      [] OTHER -> "gone"

Unwound(a) == IF a \in Clients THEN "idle" ELSE "gone"

Goto(a, step) == pc' = [pc EXCEPT ![a] = step]

\* An actor drops its reference to a flight with these flags and outcomes;
\* the last reference frees it.
Release(a, step, flags, outcomes) ==
    /\ Goto(a, step)
    /\ mine' = [mine EXCEPT ![a] = NoFlight]
    /\ IF \E b \in Actors \ {a} : mine[b] = mine[a]
       THEN flag' = flags /\ outcome' = outcomes
       ELSE flag' = flags \ {mine[a]} /\ outcome' = [outcomes EXCEPT ![mine[a]] = "none"]

Leave(a, step) == Release(a, step, flag, outcome)

Unreferenced(f) == f # active /\ \A a \in Actors : mine[a] # f

\* A client enters any method from outside; the watcher's worker and the
\* initial build thread only enter rebuild.
Calls(a, method) ==
    IF a \in Clients
    THEN pc[a] = "idle" /\ method \in Methods[a]
    ELSE pc[a] = "request" /\ method = "rebuild"

-----------------------------------------------------------------------------
(* rebuild                                                                 *)

RebuildDisposed(a) ==
    /\ Calls(a, "rebuild")
    /\ disposed
    /\ Goto(a, Return(a))
    /\ UNCHANGED <<contextVars, watchVars, flightVars, mine, buildVars, worldVars>>

RebuildJoin(a) ==
    /\ Calls(a, "rebuild")
    /\ ~disposed
    /\ active # NoFlight
    /\ mine' = [mine EXCEPT ![a] = active]
    /\ Goto(a, "join")
    /\ UNCHANGED <<contextVars, watchVars, flightVars, buildVars, worldVars>>

\* Mutant: the flight is created outside the critical section that looked.
RebuildStart_Unchecked(a) ==
    /\ Calls(a, "rebuild")
    /\ ~disposed
    /\ \E f \in Flights :
        /\ f = CHOOSE g \in Flights : Unreferenced(g)
        /\ Unreferenced(f)
        /\ active' = f
        /\ flag' = flag \ {f}
        /\ outcome' = [outcome EXCEPT ![f] = "none"]
        /\ mine' = [mine EXCEPT ![a] = f]
    /\ Goto(a, "capture")
    /\ UNCHANGED <<disposed, latest, watcher, cleaned, watchVars, buildVars, worldVars>>

\* Mutant: a rebuild does not look at "disposed".
RebuildStart_Disposed(a) ==
    /\ Calls(a, "rebuild")
    /\ active = NoFlight
    /\ \E f \in Flights :
        /\ f = CHOOSE g \in Flights : Unreferenced(g)
        /\ Unreferenced(f)
        /\ active' = f
        /\ flag' = flag \ {f}
        /\ outcome' = [outcome EXCEPT ![f] = "none"]
        /\ mine' = [mine EXCEPT ![a] = f]
    /\ Goto(a, "capture")
    /\ UNCHANGED <<disposed, latest, watcher, cleaned, watchVars, buildVars, worldVars>>

RebuildStart(a) ==
    /\ Calls(a, "rebuild")
    /\ ~disposed
    /\ active = NoFlight
    /\ \E f \in Flights :
        /\ f = CHOOSE g \in Flights : Unreferenced(g)
        /\ Unreferenced(f)
        /\ active' = f
        /\ flag' = flag \ {f}
        /\ outcome' = [outcome EXCEPT ![f] = "none"]
        /\ mine' = [mine EXCEPT ![a] = f]
    /\ Goto(a, "capture")
    /\ UNCHANGED <<disposed, latest, watcher, cleaned, watchVars, buildVars, worldVars>>

\* A joined caller gets the flight's result, or panics with it.
Joined(a) ==
    /\ pc[a] = "join"
    /\ outcome[mine[a]] # "none"
    /\ Leave(a, IF outcome[mine[a]] = "completed" THEN Return(a) ELSE Unwound(a))
    /\ UNCHANGED <<contextVars, watchVars, buildVars, worldVars>>

\* The closure reads the old hashes and the watcher in one critical section.
Capture(a) ==
    /\ pc[a] = "capture"
    /\ base' = [base EXCEPT ![a] = latest]
    /\ sees' = [sees EXCEPT ![a] = watcher]
    /\ Goto(a, "start")
    /\ UNCHANGED <<contextVars, watchVars, flightVars, mine, read, outs, worldVars>>

\* The onStart callbacks of all plugins; a panic in one counts as an error.
OnStart(a) ==
    /\ pc[a] = "start"
    /\ \/ Goto(a, "scan")
       \/ "onStart" \in Faults /\ Goto(a, "failed")
    /\ UNCHANGED <<contextVars, watchVars, flightVars, mine, buildVars, worldVars>>

\* An error logged by now ends the build before it reads a source file and
\* before it writes or removes an output file.  Its result has no output
\* files, so those of the last build stay and will no longer be tracked.
ReturnErrors(a) ==
    /\ pc[a] = "failed"
    /\ outs' = [outs EXCEPT ![a] = {}]
    /\ stray' = stray \cup (base[a] \cap disk)
    /\ Goto(a, "publish")
    /\ UNCHANGED <<contextVars, watchVars, flightVars, mine, base, sees, read,
                   disk, source, unwritten>>

\* A canceled scan returns at once.  The build still writes (nothing) and its
\* watch data name no source file.
ScanCanceled(a) ==
    /\ pc[a] = "scan"
    /\ mine[a] \in flag
    /\ Goto(a, "write")
    /\ UNCHANGED <<contextVars, watchVars, flightVars, mine, buildVars, worldVars>>

Scan(a) ==
    /\ pc[a] = "scan"
    /\ mine[a] \notin flag
    /\ read' = [read EXCEPT ![a] = {source}]
    /\ Goto(a, "compile")
    /\ UNCHANGED <<contextVars, watchVars, flightVars, mine, base, sees, outs, worldVars>>

\* The last cancellation check that drops output comes before compilation; a
\* source with an error is not compiled either.
Compile(a) ==
    /\ pc[a] = "compile"
    /\ outs' = [outs EXCEPT ![a] = IF mine[a] \in flag THEN {} ELSE read[a] \ Broken]
    /\ Goto(a, "write")
    /\ UNCHANGED <<contextVars, watchVars, flightVars, mine, base, sees, read, worldVars>>

\* Old output files are removed, and those whose removal fails are kept
\* without a word; then the new ones are written, and those that could not be
\* created are missed, though their hashes go with the others.  A file that is
\* there already stays, even when writing it again fails.
WriteOutputs(a) ==
    /\ pc[a] = "write"
    /\ \E kept \in SUBSET ((base[a] \ outs[a]) \cap disk), missed \in SUBSET (outs[a] \ disk) :
        /\ kept # {} => "remove" \in Faults
        /\ missed # {} => "write" \in Faults
        /\ disk' = (disk \ ((base[a] \ outs[a]) \ kept)) \cup (outs[a] \ missed)
        /\ stray' = (stray \ outs[a]) \cup kept
        /\ unwritten' = missed
    /\ Goto(a, "publish")
    /\ UNCHANGED <<contextVars, watchVars, flightVars, mine, buildVars, source>>

\* Plugin panics are caught where the callbacks are called; what unwinds a
\* build is an internal error while it scans or compiles.
Panic(a) ==
    /\ "panic" \in Faults
    /\ pc[a] \in {"scan", "compile"}
    /\ Goto(a, "unwind")
    /\ UNCHANGED <<contextVars, watchVars, flightVars, mine, buildVars, worldVars>>

PublishWatchData(a) ==
    /\ pc[a] = "publish"
    /\ data' = IF sees[a] THEN read[a] ELSE data
    /\ Goto(a, "store")
    /\ UNCHANGED <<contextVars, stopping, flightVars, mine, buildVars, worldVars>>

\* Mutant: a canceled build leaves the old hashes in place.
StoreHashes_Canceled(a) ==
    /\ pc[a] = "store"
    /\ latest' = IF outs[a] = {} THEN latest ELSE outs[a]
    /\ Goto(a, "finish")
    /\ UNCHANGED <<disposed, active, watcher, cleaned, watchVars, flightVars, mine, buildVars, worldVars>>

StoreHashes(a) ==
    /\ pc[a] = "store"
    /\ latest' = outs[a]
    /\ Goto(a, "finish")
    /\ UNCHANGED <<disposed, active, watcher, cleaned, watchVars, flightVars, mine, buildVars, worldVars>>

DropLocals(a) ==
    /\ base' = [base EXCEPT ![a] = {}]
    /\ sees' = [sees EXCEPT ![a] = FALSE]
    /\ read' = [read EXCEPT ![a] = {}]
    /\ outs' = [outs EXCEPT ![a] = {}]

\* Mutant: a build that panics leaves its flight without an outcome.
Finish_Dropped(a) ==
    /\ pc[a] \in {"finish", "unwind"}
    /\ active' = IF active = mine[a] THEN NoFlight ELSE active
    /\ IF pc[a] = "finish"
       THEN Release(a, Return(a), flag, [outcome EXCEPT ![mine[a]] = "completed"])
       ELSE Release(a, Unwound(a), flag, outcome)
    /\ DropLocals(a)
    /\ UNCHANGED <<disposed, latest, watcher, cleaned, watchVars, worldVars>>

\* The end of rebuild_with, which holds the state lock across both updates.
Finish(a) ==
    /\ pc[a] \in {"finish", "unwind"}
    /\ active' = IF active = mine[a] THEN NoFlight ELSE active
    /\ IF pc[a] = "finish"
       THEN Release(a, Return(a), flag, [outcome EXCEPT ![mine[a]] = "completed"])
       ELSE Release(a, Unwound(a), flag, [outcome EXCEPT ![mine[a]] = "panicked"])
    /\ DropLocals(a)
    /\ UNCHANGED <<disposed, latest, watcher, cleaned, watchVars, worldVars>>

-----------------------------------------------------------------------------
(* cancel                                                                  *)

CancelNothing(c) ==
    /\ Calls(c, "cancel")
    /\ disposed \/ active = NoFlight
    /\ UNCHANGED vars

CancelCapture(c) ==
    /\ Calls(c, "cancel")
    /\ ~disposed
    /\ active # NoFlight
    /\ mine' = [mine EXCEPT ![c] = active]
    /\ Goto(c, "flagging")
    /\ UNCHANGED <<contextVars, watchVars, flightVars, buildVars, worldVars>>

\* Mutant: cancel reads the active flight again after releasing the lock.
CancelFlag_Reread(c) ==
    /\ pc[c] = "flagging"
    /\ flag' = flag \cup {active}
    /\ Goto(c, "cancelWait")
    /\ UNCHANGED <<contextVars, watchVars, outcome, mine, buildVars, worldVars>>

CancelFlag(c) ==
    /\ pc[c] = "flagging"
    /\ flag' = flag \cup {mine[c]}
    /\ Goto(c, "cancelWait")
    /\ UNCHANGED <<contextVars, watchVars, outcome, mine, buildVars, worldVars>>

CancelReturn(c) ==
    /\ pc[c] = "cancelWait"
    /\ outcome[mine[c]] # "none"
    /\ Leave(c, "idle")
    /\ UNCHANGED <<contextVars, watchVars, buildVars, worldVars>>

-----------------------------------------------------------------------------
(* watch                                                                   *)

WatchRefused(c) ==
    /\ Calls(c, "watch")
    /\ disposed \/ watcher
    /\ UNCHANGED vars

\* Mutant: the build in flight is not waited for.
WatchEnable_NoWait(c) ==
    /\ Calls(c, "watch")
    /\ ~disposed
    /\ ~watcher
    /\ watcher' = TRUE
    /\ Goto(c, "startWatcher")
    /\ UNCHANGED <<disposed, active, latest, cleaned, watchVars, flightVars, mine, buildVars, worldVars>>

\* The build in flight is captured with the watcher.  Only one watch call
\* passes here, so the initial thread's "mine" can hold the capture.
WatchEnable(c) ==
    /\ Calls(c, "watch")
    /\ ~disposed
    /\ ~watcher
    /\ watcher' = TRUE
    /\ mine' = [mine EXCEPT ![Initial] = active]
    /\ Goto(c, "startWatcher")
    /\ UNCHANGED <<disposed, active, latest, cleaned, watchVars, flightVars, buildVars, worldVars>>

\* Mutant: Watcher::start does not look at should_stop.
WatchStart_Always(c) ==
    /\ pc[c] = "startWatcher"
    /\ pc' = [pc EXCEPT ![c] = "idle", ![Initial] = "waitPrevious", ![Worker] = "poll"]
    /\ UNCHANGED <<contextVars, watchVars, flightVars, mine, buildVars, worldVars>>

\* Watcher::start, then the spawn of the initial build thread.
WatchStart(c) ==
    /\ pc[c] = "startWatcher"
    /\ pc' = [pc EXCEPT ![c] = "idle", ![Initial] = "waitPrevious",
                        ![Worker] = IF stopping THEN "absent" ELSE "poll"]
    /\ UNCHANGED <<contextVars, watchVars, flightVars, mine, buildVars, worldVars>>

InitialWait ==
    /\ pc[Initial] = "waitPrevious"
    /\ mine[Initial] # NoFlight => outcome[mine[Initial]] # "none"
    /\ Leave(Initial, "request")
    /\ UNCHANGED <<contextVars, watchVars, buildVars, worldVars>>

\* worker_loop: a dirty path, the delay, then the rebuild callback.
WorkerFindsDirty ==
    /\ pc[Worker] = "poll"
    /\ ~stopping
    /\ data # {}
    /\ source \notin data
    /\ Goto(Worker, "delay")
    /\ UNCHANGED <<contextVars, watchVars, flightVars, mine, buildVars, worldVars>>

WorkerDelayed ==
    /\ pc[Worker] = "delay"
    /\ ~stopping
    /\ Goto(Worker, "request")
    /\ UNCHANGED <<contextVars, watchVars, flightVars, mine, buildVars, worldVars>>

WorkerStops ==
    /\ pc[Worker] \in {"poll", "delay"}
    /\ stopping
    /\ Goto(Worker, "gone")
    /\ UNCHANGED <<contextVars, watchVars, flightVars, mine, buildVars, worldVars>>

-----------------------------------------------------------------------------
(* dispose                                                                 *)

DisposeAgain(c) ==
    /\ Calls(c, "dispose")
    /\ disposed
    /\ UNCHANGED vars

DisposeBegin(c) ==
    /\ Calls(c, "dispose")
    /\ ~disposed
    /\ disposed' = TRUE
    /\ mine' = [mine EXCEPT ![c] = active]
    /\ Goto(c, IF watcher THEN "stopWatcher" ELSE "disposeWait")
    /\ UNCHANGED <<active, latest, watcher, cleaned, watchVars, flightVars, buildVars, worldVars>>

StopWatcher(c) ==
    /\ pc[c] = "stopWatcher"
    /\ stopping' = TRUE
    /\ Goto(c, "joinWorker")
    /\ UNCHANGED <<contextVars, data, flightVars, mine, buildVars, worldVars>>

JoinWorker(c) ==
    /\ pc[c] = "joinWorker"
    /\ pc[Worker] \in {"absent", "gone"}
    /\ Goto(c, "disposeWait")
    /\ UNCHANGED <<contextVars, watchVars, flightVars, mine, buildVars, worldVars>>

DisposeWait(c) ==
    /\ pc[c] = "disposeWait"
    /\ mine[c] # NoFlight => outcome[mine[c]] # "none"
    /\ Leave(c, "cleanup")
    /\ UNCHANGED <<contextVars, watchVars, buildVars, worldVars>>

\* Deactivates the plugins' resolve function and runs onDispose.
Cleanup(c) ==
    /\ pc[c] = "cleanup"
    /\ cleaned' = TRUE
    /\ Goto(c, "idle")
    /\ UNCHANGED <<disposed, active, latest, watcher, watchVars, flightVars, mine, buildVars, worldVars>>

-----------------------------------------------------------------------------
Edit ==
    /\ source < MaxEdits
    /\ source' = source + 1
    /\ UNCHANGED <<contextVars, watchVars, flightVars, pc, mine, buildVars, disk, stray, unwritten>>

Rebuild(a) == RebuildDisposed(a) \/ RebuildJoin(a) \/ RebuildStart(a)

Build(a) ==
    \/ Capture(a) \/ OnStart(a) \/ ReturnErrors(a) \/ ScanCanceled(a) \/ Scan(a)
    \/ Compile(a) \/ WriteOutputs(a) \/ PublishWatchData(a)
    \/ StoreHashes(a) \/ Finish(a)

CallMethod(c) ==
    \/ Rebuild(c)
    \/ CancelNothing(c) \/ CancelCapture(c)
    \/ WatchRefused(c) \/ WatchEnable(c)
    \/ DisposeAgain(c) \/ DisposeBegin(c)

\* The steps of a method already entered.
Continue(c) ==
    \/ Build(c) \/ Joined(c)
    \/ CancelFlag(c) \/ CancelReturn(c)
    \/ WatchStart(c)
    \/ StopWatcher(c) \/ JoinWorker(c) \/ DisposeWait(c) \/ Cleanup(c)

WorkerStep ==
    \/ WorkerFindsDirty \/ WorkerDelayed \/ WorkerStops
    \/ Rebuild(Worker) \/ Build(Worker) \/ Joined(Worker)

InitialStep ==
    \/ InitialWait
    \/ Rebuild(Initial) \/ Build(Initial) \/ Joined(Initial)

Next ==
    \/ \E c \in Clients : CallMethod(c) \/ Continue(c)
    \/ WorkerStep
    \/ InitialStep
    \/ \E a \in Actors : Panic(a)
    \/ Edit

\* A running thread keeps running; nobody is obliged to call a method, to
\* edit the source or to panic.
Fairness ==
    /\ \A c \in Clients : WF_vars(Continue(c))
    /\ WF_vars(WorkerStep)
    /\ WF_vars(InitialStep)

Spec == Init /\ [][Next]_vars /\ Fairness
-----------------------------------------------------------------------------
(* The context implements CoalescedBuilds.                                 *)

Waiting(a) == pc[a] \in BuildSteps \cup {"join"}

Abstract == INSTANCE CoalescedBuilds WITH
    Callers <- Actors, Builds <- Flights, NoBuild <- NoFlight, Nobody <- NoFlight,
    open <- ~disposed,
    running <- active,
    owner <- IF active = NoFlight THEN NoFlight
             ELSE CHOOSE a \in Actors : pc[a] \in BuildSteps,
    asked <- [a \in Actors |-> IF Waiting(a) THEN mine[a] ELSE NoFlight]

\* Every caller of rebuild, the watcher's worker and the initial build thread
\* included, is answered by a build that was in flight when it asked, builds
\* follow one another, and none begins once the context is disposed.
ImplementsCoalescedBuilds == Abstract!Spec

-----------------------------------------------------------------------------
(* Properties                                                              *)

\* At most one thread is between creating a flight and finishing it: the
\* builds of one context never overlap, so they may share its cache and its
\* output directory.
OneBuild ==
    \A a, b \in Actors :
        pc[a] \in BuildSteps /\ pc[b] \in BuildSteps => a = b

\* When dispose reaches the plugins' cleanup no build is running, none can
\* start any more, and the watcher's worker has ended, even when dispose
\* overtook a watch call that had not started the worker yet.
QuietAfterDispose ==
    (cleaned \/ \E c \in Clients : pc[c] = "cleanup") =>
        /\ \A a \in Actors : pc[a] \notin BuildSteps
        /\ pc[Worker] \in {"absent", "gone"}

\* A flight in progress is flagged only while the cancel call that captured
\* this very flight has not returned: a token never leaks to a later build.
CancelHitsItsFlight ==
    active \in flag =>
        \E c \in Clients : pc[c] = "cancelWait" /\ mine[c] = active

\* Between builds the next one can find what it has to delete.  Every file in
\* the output directory is tracked, except what a removal that failed or a
\* build whose onStart failed has left; every tracked file is there, except
\* what could not be written.  So it is after builds that were canceled, that
\* panicked, that failed with a syntax error or that other callers joined.
OutputsTracked ==
    active = NoFlight =>
        /\ disk = (latest \ unwritten) \cup stray
        /\ stray \cap latest = {}

\* Every method a client enters returns, through coalesced builds, the
\* waits of cancel and dispose and the join of the watcher's worker.
CallsReturn == \A c \in Clients : pc[c] # "idle" ~> pc[c] = "idle"

\* A build never leaves the watcher with nothing to poll once it had watch
\* data, canceled builds included.
WatchDataRetained == [][data # {} => data' # {}]_data

\* In watch mode the output directory catches up with the last edit and
\* stays there, whatever builds it has to coalesce with on the way and whatever
\* it could not remove, unless a cancellation found a build to flag or a build
\* of watch mode failed in onStart or panicked: the first two leave watch data
\* that name no source file, and the last ends the thread that would rebuild.
Undisturbed ==
    [](\A a \in Actors :
          /\ pc[a] # "flagging"
          /\ sees[a] => pc[a] \notin {"failed", "unwind"})
WatchCatchesUp ==
    Undisturbed => <>[](watcher => disposed \/ disk = ({source} \ Broken) \cup stray)
=============================================================================
