------------------------ MODULE BuildContext_proofs ------------------------
(***************************************************************************)
(* Theorems about BuildContext, for any number of clients, flights and     *)
(* edits: its safety invariants, and that it implements CoalescedBuilds as *)
(* far as safety goes.  None of the invariants is inductive as it stands;  *)
(* Shape, Builder, Disposer, Starting and Outputs add what the builder,    *)
(* the disposer and the call of watch each know.                           *)
(***************************************************************************)
EXTENDS BuildContext, TLAPS

USE DEF Actors, Versions

LEMMA StepsDisjoint ==
    /\ "join" \notin BuildSteps
    /\ \A a \in Actors : Return(a) \in {"idle", "poll", "gone"} /\ Unwound(a) \in {"idle", "gone"}
BY DEF BuildSteps, Return, Unwound

\* An actor that works with a flight holds a reference to it.
Holding ==
    \A a \in Actors :
        pc[a] \in BuildSteps \cup {"join", "flagging", "cancelWait"} => mine[a] \in Flights

\* Before watch is called the threads it creates do not exist.
Started ==
    ~watcher =>
        /\ pc[Worker] = "absent"
        /\ pc[Initial] = "absent"
        /\ \A c \in Clients : pc[c] # "startWatcher"

Shape == TypeOK /\ Holding /\ Started

LEMMA ShapeInvariant == Spec => []Shape
<1>. USE ActorsAssumption, FlightsAssumption, BoundsAssumption DEF Shape, TypeOK, Holding, Started
<1>1. Init => Shape
  <2>. SUFFICES ASSUME Init PROVE Shape
    OBVIOUS
  <2>1. pc \in [Actors -> BuildSteps \cup WaitSteps \cup RestSteps]
    BY DEF Init, RestSteps
  <2>2. Holding
    BY DEF Init, BuildSteps
  <2>3. source \in Versions
    BY DEF Init
  <2>4. Started
    BY DEF Init
  <2>. QED  BY <2>1, <2>2, <2>3, <2>4 DEF Init
<1>2. Shape /\ [Next]_vars => Shape'
  <2>. SUFFICES ASSUME Shape, [Next]_vars PROVE Shape'
    OBVIOUS
  <2>. USE DEF contextVars, watchVars, flightVars, buildVars, worldVars, Goto,
               BuildSteps, WaitSteps, RestSteps
  <2>1. ASSUME NEW a \in Actors, Rebuild(a) PROVE Shape'
    <3>. pc[a] # "absent"
      BY <2>1 DEF Rebuild, RebuildDisposed, RebuildJoin, RebuildStart, Calls
    <3>1. CASE RebuildDisposed(a)
      <4>1. PICK step \in {"idle", "poll", "gone"} : Goto(a, step)
        BY <3>1, StepsDisjoint DEF RebuildDisposed
      <4>. QED  BY <3>1, <4>1 DEF RebuildDisposed
    <3>2. CASE RebuildJoin(a)
      BY <3>2 DEF RebuildJoin
    <3>3. CASE RebuildStart(a)
      BY <3>3 DEF RebuildStart
    <3>. QED  BY <2>1, <3>1, <3>2, <3>3 DEF Rebuild
  <2>2. ASSUME NEW a \in Actors, Build(a) PROVE Shape'
    <3>1. CASE Capture(a)
      BY <3>1 DEF Capture
    <3>2. CASE OnStart(a)
      <4>1. PICK step \in {"scan", "failed"} : Goto(a, step)
        BY <3>2 DEF OnStart
      <4>. QED  BY <3>2, <4>1 DEF OnStart
    <3>9. CASE ReturnErrors(a)
      BY <3>9 DEF ReturnErrors
    <3>10. CASE ScanCanceled(a)
      BY <3>10 DEF ScanCanceled
    <3>3. CASE Scan(a)
      BY <3>3 DEF Scan
    <3>4. CASE Compile(a)
      BY <3>4 DEF Compile
    <3>5. CASE WriteOutputs(a)
      BY <3>5 DEF WriteOutputs
    <3>6. CASE PublishWatchData(a)
      BY <3>6 DEF PublishWatchData
    <3>7. CASE StoreHashes(a)
      BY <3>7 DEF StoreHashes
    <3>8. CASE Finish(a)
      BY <3>8, StepsDisjoint DEF Finish, Release, DropLocals
    <3>. QED  BY <2>2, <3>1, <3>2, <3>3, <3>4, <3>5, <3>6, <3>7, <3>8, <3>9, <3>10
            DEF Build
  <2>3. ASSUME NEW a \in Actors, Joined(a) PROVE Shape'
    <3>1. PICK step \in {"idle", "poll", "gone"} : Leave(a, step)
      BY <2>3, StepsDisjoint DEF Joined
    <3>. QED  BY <2>3, <3>1 DEF Joined, Leave, Release
  <2>4. ASSUME NEW c \in Clients, CallMethod(c), ~Rebuild(c) PROVE Shape'
    <3>1. CASE CancelNothing(c) \/ WatchRefused(c) \/ DisposeAgain(c)
      BY <3>1 DEF CancelNothing, WatchRefused, DisposeAgain, vars
    <3>2. CASE CancelCapture(c)
      BY <3>2 DEF CancelCapture
    <3>3. CASE WatchEnable(c)
      BY <3>3 DEF WatchEnable, Calls
    <3>4. CASE DisposeBegin(c)
      BY <3>4 DEF DisposeBegin
    <3>. QED  BY <2>4, <3>1, <3>2, <3>3, <3>4 DEF CallMethod
  <2>5. ASSUME NEW c \in Clients, Continue(c), ~Build(c), ~Joined(c) PROVE Shape'
    <3>1. CASE CancelFlag(c)
      BY <3>1 DEF CancelFlag
    <3>2. CASE WatchStart(c)
      BY <3>2 DEF WatchStart
    <3>3. CASE StopWatcher(c)
      BY <3>3 DEF StopWatcher
    <3>6. CASE JoinWorker(c)
      BY <3>6 DEF JoinWorker
    <3>7. CASE Cleanup(c)
      BY <3>7 DEF Cleanup
    <3>4. CASE CancelReturn(c)
      BY <3>4 DEF CancelReturn, Leave, Release
    <3>5. CASE DisposeWait(c)
      <4>1. Leave(c, "cleanup") /\ pc[c] = "disposeWait"
        BY <3>5 DEF DisposeWait
      <4>2. Holding' /\ Started'
        BY <3>5, <4>1 DEF DisposeWait, Leave, Release
      <4>3. flag' \subseteq Flights
        BY <4>1 DEF Leave, Release
      <4>4. outcome' \in [Flights -> {"none", "completed", "panicked"}]
        BY <4>1 DEF Leave, Release
      <4>5. /\ pc' \in [Actors -> BuildSteps \cup WaitSteps \cup RestSteps]
            /\ mine' \in [Actors -> Flights \cup {NoFlight}]
        BY <4>1 DEF Leave, Release
      <4>6. UNCHANGED <<contextVars, watchVars, buildVars, worldVars>>
        BY <3>5 DEF DisposeWait
      <4>. HIDE DEF Holding, Started, BuildSteps, WaitSteps, RestSteps
      <4>7. TypeOK'
        BY <4>3, <4>4, <4>5, <4>6
      <4>. HIDE DEF TypeOK
      <4>. QED  BY <4>2, <4>7
    <3>. QED  BY <2>5, <3>1, <3>2, <3>3, <3>4, <3>5, <3>6, <3>7 DEF Continue
  <2>6. CASE WorkerFindsDirty \/ WorkerDelayed \/ WorkerStops
    <3>1. CASE WorkerFindsDirty
      BY <3>1 DEF WorkerFindsDirty
    <3>2. CASE WorkerDelayed
      BY <3>2 DEF WorkerDelayed
    <3>3. CASE WorkerStops
      BY <3>3 DEF WorkerStops
    <3>. QED  BY <2>6, <3>1, <3>2, <3>3
  <2>7. CASE InitialWait
    BY <2>7 DEF InitialWait, Leave, Release
  <2>8. ASSUME NEW a \in Actors, Panic(a) PROVE Shape'
    BY <2>8 DEF Panic
  <2>9. CASE Edit
    BY <2>9 DEF Edit
  <2>10. CASE UNCHANGED vars
    BY <2>10 DEF vars
  <2>. QED
    BY <2>1, <2>2, <2>3, <2>4, <2>5, <2>6, <2>7, <2>8, <2>9, <2>10
       DEF Next, CallMethod, Continue, WorkerStep, InitialStep
<1>. QED  BY <1>1, <1>2, PTL DEF Spec

\* Every variable keeps its type.
THEOREM TypeCorrect == Spec => []TypeOK
<1>1. Shape => TypeOK
  BY DEF Shape
<1>. QED  BY <1>1, ShapeInvariant, PTL

-----------------------------------------------------------------------------
(* The builder owns the active flight, which has no outcome yet.           *)

BuilderOwns == \A a \in Actors : pc[a] \in BuildSteps => mine[a] = active

ActiveUnfinished == active # NoFlight => outcome[active] = "none"

Builder == BuilderOwns /\ OneBuild /\ ActiveUnfinished

LEMMA BuilderStep == Shape /\ Builder /\ [Next]_vars => Builder'
<1>. SUFFICES ASSUME Shape, Builder, [Next]_vars PROVE Builder'
  OBVIOUS
<1>. USE ActorsAssumption, FlightsAssumption
     DEF Shape, TypeOK, Holding, Started, Builder, BuilderOwns, OneBuild, ActiveUnfinished,
         contextVars, watchVars, flightVars, buildVars, worldVars, Goto, BuildSteps
<1>1. ASSUME NEW a \in Actors, Rebuild(a) PROVE Builder'
  <2>. pc[a] \notin BuildSteps
    BY <1>1 DEF Rebuild, RebuildDisposed, RebuildJoin, RebuildStart, Calls
  <2>1. CASE RebuildDisposed(a)
    <3>1. PICK step \in {"idle", "poll", "gone"} : Goto(a, step)
      BY <2>1, StepsDisjoint DEF RebuildDisposed
    <3>. QED  BY <2>1, <3>1 DEF RebuildDisposed
  <2>2. CASE RebuildJoin(a)
    BY <2>2 DEF RebuildJoin
  <2>3. CASE RebuildStart(a)
    <3>1. \A b \in Actors : pc[b] \notin BuildSteps
      BY <2>3 DEF RebuildStart
    <3>. QED  BY <2>3, <3>1 DEF RebuildStart
  <2>. QED  BY <1>1, <2>1, <2>2, <2>3 DEF Rebuild
<1>2. ASSUME NEW a \in Actors, Build(a), ~Finish(a) PROVE Builder'
  <2>1. /\ pc[a] \in BuildSteps
        /\ \E step \in BuildSteps : Goto(a, step)
        /\ UNCHANGED <<active, outcome, mine>>
    BY <1>2 DEF Build, Capture, OnStart, ReturnErrors, ScanCanceled, Scan,
                Compile, WriteOutputs, PublishWatchData, StoreHashes
  <2>. QED  BY <2>1
<1>3. ASSUME NEW a \in Actors, Finish(a) PROVE Builder'
  <2>1. active' = NoFlight
    BY <1>3 DEF Finish
  <2>2. PICK step \in {"idle", "poll", "gone"} : Goto(a, step)
    BY <1>3, StepsDisjoint DEF Finish, Release
  <2>3. \A b \in Actors : pc'[b] \notin BuildSteps
    BY <1>3, <2>2 DEF Finish
  <2>. QED  BY <2>1, <2>3
<1>4. ASSUME NEW a \in Actors, NEW step \in {"idle", "poll", "gone", "request", "cleanup"},
             pc[a] \notin BuildSteps, Leave(a, step), UNCHANGED active
      PROVE Builder'
  BY <1>4 DEF Leave, Release
<1>5. ASSUME NEW a \in Actors, Joined(a) PROVE Builder'
  <2>1. PICK step \in {"idle", "poll", "gone"} : Leave(a, step)
    BY <1>5, StepsDisjoint DEF Joined
  <2>. QED  BY <1>4, <1>5, <2>1 DEF Joined
<1>6. ASSUME NEW c \in Clients, CallMethod(c), ~Rebuild(c) PROVE Builder'
  <2>1. CASE CancelNothing(c) \/ WatchRefused(c) \/ DisposeAgain(c)
    BY <2>1 DEF CancelNothing, WatchRefused, DisposeAgain, vars
  <2>2. CASE CancelCapture(c)
    BY <2>2 DEF CancelCapture, Calls
  <2>3. CASE WatchEnable(c)
    BY <2>3 DEF WatchEnable, Calls
  <2>4. CASE DisposeBegin(c)
    BY <2>4 DEF DisposeBegin, Calls
  <2>. QED  BY <1>6, <2>1, <2>2, <2>3, <2>4 DEF CallMethod
<1>7. ASSUME NEW c \in Clients, Continue(c), ~Build(c), ~Joined(c) PROVE Builder'
  <2>1. CASE CancelFlag(c)
    BY <2>1 DEF CancelFlag
  <2>2. CASE CancelReturn(c) \/ DisposeWait(c)
    BY <1>4, <2>2 DEF CancelReturn, DisposeWait
  <2>3. CASE WatchStart(c)
    BY <2>3 DEF WatchStart
  <2>4. CASE StopWatcher(c) \/ JoinWorker(c) \/ Cleanup(c)
    BY <2>4 DEF StopWatcher, JoinWorker, Cleanup
  <2>. QED  BY <1>7, <2>1, <2>2, <2>3, <2>4 DEF Continue
<1>8. CASE WorkerFindsDirty \/ WorkerDelayed \/ WorkerStops
  BY <1>8 DEF WorkerFindsDirty, WorkerDelayed, WorkerStops
<1>9. CASE InitialWait
  BY <1>4, <1>9 DEF InitialWait
<1>10. ASSUME NEW a \in Actors, Panic(a) PROVE Builder'
  BY <1>10 DEF Panic
<1>11. CASE Edit \/ UNCHANGED vars
  BY <1>11 DEF Edit, vars
<1>. QED
  BY <1>1, <1>2, <1>3, <1>5, <1>6, <1>7, <1>8, <1>9, <1>10, <1>11
     DEF Next, CallMethod, Continue, WorkerStep, InitialStep, Build

\* At most one thread builds at a time, whichever threads call rebuild.
THEOREM BuildsNeverOverlap == Spec => []OneBuild
<1>1. Init => Builder
  BY ActorsAssumption, FlightsAssumption
     DEF Init, Builder, BuilderOwns, OneBuild, ActiveUnfinished, BuildSteps
<1>2. Builder => OneBuild
  BY DEF Builder
<1>. QED  BY <1>1, <1>2, BuilderStep, ShapeInvariant, PTL DEF Spec

-----------------------------------------------------------------------------
(* The disposer is alone, knows the flight that may still be active, and   *)
(* has stopped the watcher's worker by the time it waits for that flight.  *)

DisposeSteps == {"stopWatcher", "joinWorker", "disposeWait", "cleanup"}

OneDisposer ==
    /\ cleaned => disposed
    /\ \A c \in Clients : pc[c] \in DisposeSteps => disposed /\ ~cleaned
    /\ \A c, d \in Clients : pc[c] \in DisposeSteps /\ pc[d] \in DisposeSteps => c = d

DisposerKnows ==
    /\ \A c \in Clients :
        /\ pc[c] \in DisposeSteps \ {"cleanup"} => active \in {NoFlight, mine[c]}
        /\ pc[c] = "cleanup" => active = NoFlight
    /\ cleaned => active = NoFlight

WorkerStopped ==
    /\ disposed /\ watcher => stopping \/ \E c \in Clients : pc[c] = "stopWatcher"
    /\ cleaned \/ (\E c \in Clients : pc[c] \in {"disposeWait", "cleanup"}) =>
          pc[Worker] \in {"absent", "gone"}

Disposer == OneDisposer /\ DisposerKnows /\ WorkerStopped

\* A disposed context without an active flight starts no build, and a thread
\* that leaves a wait or a build does not enter dispose.
LEMMA DisposerStep == Shape /\ Builder /\ Disposer /\ [Next]_vars => Disposer'
<1>. SUFFICES ASSUME Shape, Builder, Disposer, [Next]_vars PROVE Disposer'
  OBVIOUS
<1>. USE ActorsAssumption, FlightsAssumption
     DEF Shape, TypeOK, Holding, Started, Builder, BuilderOwns, ActiveUnfinished,
         Disposer, OneDisposer, DisposerKnows, WorkerStopped, DisposeSteps,
         contextVars, watchVars, flightVars, buildVars, worldVars, Goto, BuildSteps
<1>1. ASSUME NEW a \in Actors, Rebuild(a) PROVE Disposer'
  <2>. /\ pc[a] \in {"idle", "request"}
       /\ a \in Clients => pc[a] = "idle"
    BY <1>1 DEF Rebuild, RebuildDisposed, RebuildJoin, RebuildStart, Calls
  <2>1. CASE RebuildDisposed(a)
    <3>1. PICK step \in {"idle", "poll", "gone"} : Goto(a, step)
      BY <2>1, StepsDisjoint DEF RebuildDisposed
    <3>. QED  BY <2>1, <3>1 DEF RebuildDisposed
  <2>2. CASE RebuildJoin(a)
    BY <2>2 DEF RebuildJoin
  <2>3. CASE RebuildStart(a)
    BY <2>3 DEF RebuildStart
  <2>. QED  BY <1>1, <2>1, <2>2, <2>3 DEF Rebuild
<1>2. ASSUME NEW a \in Actors, Build(a), ~Finish(a) PROVE Disposer'
  <2>1. /\ pc[a] \in BuildSteps
        /\ \E step \in BuildSteps : Goto(a, step)
        /\ UNCHANGED <<active, disposed, cleaned, watcher, stopping, mine>>
    BY <1>2 DEF Build, Capture, OnStart, ReturnErrors, ScanCanceled, Scan,
                Compile, WriteOutputs, PublishWatchData, StoreHashes
  <2>. QED  BY <2>1
<1>3. ASSUME NEW a \in Actors, Finish(a) PROVE Disposer'
  <2>1. active' = NoFlight /\ UNCHANGED <<disposed, cleaned, watcher, stopping>>
    BY <1>3 DEF Finish
  <2>2. PICK step \in {"idle", "poll", "gone"} : Goto(a, step)
    BY <1>3, StepsDisjoint DEF Finish, Release
  <2>3. pc[a] \in {"finish", "unwind"} /\ mine' = [mine EXCEPT ![a] = NoFlight]
    BY <1>3 DEF Finish, Release
  <2>. QED  BY <2>1, <2>2, <2>3
<1>4. ASSUME NEW a \in Actors, NEW step \in {"idle", "poll", "gone", "request"},
             pc[a] \in {"join", "cancelWait", "waitPrevious"}, Leave(a, step),
             UNCHANGED <<active, disposed, cleaned, watcher, stopping>>
      PROVE Disposer'
  BY <1>4 DEF Leave, Release
<1>5. ASSUME NEW a \in Actors, Joined(a) PROVE Disposer'
  <2>1. PICK step \in {"idle", "poll", "gone"} : Leave(a, step)
    BY <1>5, StepsDisjoint DEF Joined
  <2>. QED  BY <1>4, <1>5, <2>1 DEF Joined
<1>6. ASSUME NEW c \in Clients, CallMethod(c), ~Rebuild(c) PROVE Disposer'
  <2>1. CASE CancelNothing(c) \/ WatchRefused(c) \/ DisposeAgain(c)
    BY <2>1 DEF CancelNothing, WatchRefused, DisposeAgain, vars
  <2>2. CASE CancelCapture(c)
    BY <2>2 DEF CancelCapture, Calls
  <2>3. CASE WatchEnable(c)
    BY <2>3 DEF WatchEnable, Calls
  <2>4. CASE DisposeBegin(c)
    BY <2>4 DEF DisposeBegin, Calls
  <2>. QED  BY <1>6, <2>1, <2>2, <2>3, <2>4 DEF CallMethod
<1>7. ASSUME NEW c \in Clients, Continue(c), ~Build(c), ~Joined(c) PROVE Disposer'
  <2>1. CASE CancelFlag(c)
    BY <2>1 DEF CancelFlag
  <2>2. CASE CancelReturn(c)
    BY <1>4, <2>2 DEF CancelReturn
  <2>3. CASE WatchStart(c)
    <3>1. watcher
      BY <2>3 DEF WatchStart
    <3>. QED  BY <2>3, <3>1 DEF WatchStart
  <2>4. CASE StopWatcher(c)
    BY <2>4 DEF StopWatcher
  <2>5. CASE JoinWorker(c)
    BY <2>5 DEF JoinWorker
  <2>6. CASE DisposeWait(c)
    <3>1. active = NoFlight
      BY <2>6 DEF DisposeWait
    <3>. QED  BY <2>6, <3>1 DEF DisposeWait, Leave, Release
  <2>7. CASE Cleanup(c)
    BY <2>7 DEF Cleanup
  <2>. QED  BY <1>7, <2>1, <2>2, <2>3, <2>4, <2>5, <2>6, <2>7 DEF Continue
<1>8. CASE WorkerFindsDirty \/ WorkerDelayed \/ WorkerStops
  BY <1>8 DEF WorkerFindsDirty, WorkerDelayed, WorkerStops
<1>9. CASE InitialWait
  BY <1>4, <1>9 DEF InitialWait
<1>10. ASSUME NEW a \in Actors, Panic(a) PROVE Disposer'
  BY <1>10 DEF Panic
<1>11. CASE Edit \/ UNCHANGED vars
  BY <1>11 DEF Edit, vars
<1>. QED
  BY <1>1, <1>2, <1>3, <1>5, <1>6, <1>7, <1>8, <1>9, <1>10, <1>11
     DEF Next, CallMethod, Continue, WorkerStep, InitialStep, Build

\* Once dispose reaches the plugins' cleanup no build runs and the watcher's
\* worker has ended.
THEOREM DisposeLeavesQuiet == Spec => []QuietAfterDispose
<1>1. Init => Disposer
  BY ActorsAssumption, FlightsAssumption
     DEF Init, Disposer, OneDisposer, DisposerKnows, WorkerStopped, DisposeSteps
<1>2. Init => Builder
  BY ActorsAssumption, FlightsAssumption
     DEF Init, Builder, BuilderOwns, OneBuild, ActiveUnfinished, BuildSteps
<1>3. Shape /\ Builder /\ Disposer => QuietAfterDispose
  BY FlightsAssumption
     DEF Shape, Holding, Builder, BuilderOwns, Disposer, DisposerKnows, WorkerStopped,
         QuietAfterDispose
<1>. QED
  BY <1>1, <1>2, <1>3, BuilderStep, DisposerStep, ShapeInvariant, PTL DEF Spec

-----------------------------------------------------------------------------
(* The call of watch that has stored the watcher is the only one, and the  *)
(* threads it is about to start do not exist yet.                          *)

Starting ==
    \A c \in Clients : pc[c] = "startWatcher" =>
        /\ pc[Worker] = "absent"
        /\ pc[Initial] = "absent"
        /\ \A d \in Clients : pc[d] = "startWatcher" => d = c

LEMMA StartingStep == Shape /\ Starting /\ [Next]_vars => Starting'
<1>. SUFFICES ASSUME Shape, Starting, [Next]_vars PROVE Starting'
  OBVIOUS
<1>. USE ActorsAssumption DEF Shape, TypeOK, Started, Starting, Goto
<1>1. ASSUME NEW a \in Actors, NEW step, step \notin {"absent", "startWatcher"},
             pc[a] # "absent", Goto(a, step)
      PROVE Starting'
  BY <1>1
<1>2. ASSUME NEW a \in Actors, Rebuild(a) PROVE Starting'
  <2>1. pc[a] # "absent" /\ \E step \in {"idle", "poll", "gone", "join", "capture"} : Goto(a, step)
    BY <1>2, StepsDisjoint
       DEF Rebuild, RebuildDisposed, RebuildJoin, RebuildStart, Calls
  <2>. QED  BY <1>1, <2>1
<1>3. ASSUME NEW a \in Actors, Build(a) \/ Panic(a) \/ Joined(a) PROVE Starting'
  <2>1. pc[a] \in BuildSteps \cup {"join"}
    BY <1>3 DEF Build, Capture, OnStart, ReturnErrors, ScanCanceled, Scan,
                Compile, WriteOutputs, PublishWatchData, StoreHashes, Finish, Panic,
                Joined, BuildSteps
  <2>2. \E step \in BuildSteps \cup {"idle", "poll", "gone"} : Goto(a, step)
    BY <1>3, StepsDisjoint
       DEF Build, Capture, OnStart, ReturnErrors, ScanCanceled, Scan,
                Compile, WriteOutputs, PublishWatchData, StoreHashes, Finish, Panic,
                Joined, Leave, Release, BuildSteps
  <2>. QED  BY <1>1, <2>1, <2>2 DEF BuildSteps
<1>4. ASSUME NEW c \in Clients, CallMethod(c), ~Rebuild(c) PROVE Starting'
  <2>1. CASE CancelNothing(c) \/ WatchRefused(c) \/ DisposeAgain(c)
    BY <2>1 DEF CancelNothing, WatchRefused, DisposeAgain, vars
  <2>2. CASE CancelCapture(c) \/ DisposeBegin(c)
    BY <1>1, <2>2 DEF CancelCapture, DisposeBegin, Calls
  <2>3. CASE WatchEnable(c)
    BY <2>3 DEF WatchEnable
  <2>. QED  BY <1>4, <2>1, <2>2, <2>3 DEF CallMethod
<1>5. ASSUME NEW c \in Clients, Continue(c), ~Build(c), ~Joined(c) PROVE Starting'
  <2>1. CASE WatchStart(c)
    BY <2>1 DEF WatchStart
  <2>2. CASE ~WatchStart(c)
    BY <1>1, <1>5, <2>2
       DEF Continue, CancelFlag, CancelReturn, StopWatcher, JoinWorker, DisposeWait, Cleanup,
           Leave, Release
  <2>. QED  BY <2>1, <2>2
<1>6. CASE WorkerFindsDirty \/ WorkerDelayed \/ WorkerStops \/ InitialWait
  BY <1>1, <1>6
     DEF WorkerFindsDirty, WorkerDelayed, WorkerStops, InitialWait, Leave, Release
<1>7. CASE Edit \/ UNCHANGED vars
  BY <1>7 DEF Edit, vars
<1>. QED
  BY <1>2, <1>3, <1>4, <1>5, <1>6, <1>7
     DEF Next, CallMethod, Continue, WorkerStep, InitialStep

-----------------------------------------------------------------------------
(* What a step can do to a build.  Only its own steps, its start and its   *)
(* end concern it; everybody else leaves the flight in progress, the       *)
(* tracked hashes, the output directory and every local of a build alone.  *)

Elsewhere ==
    /\ UNCHANGED <<active, latest, buildVars, disk, stray, unwritten>>
    /\ \A a \in Actors : pc[a] \in BuildSteps \/ pc'[a] \in BuildSteps => pc'[a] = pc[a]

LEMMA StepsOfBuilds ==
    ASSUME Shape, Starting, [Next]_vars
    PROVE  \/ \E a \in Actors : RebuildStart(a) \/ Build(a) \/ Panic(a)
           \/ Elsewhere
<1>. USE ActorsAssumption
     DEF Shape, TypeOK, Started, Elsewhere, contextVars, watchVars, flightVars, buildVars,
         worldVars, Goto, BuildSteps
<1>1. ASSUME NEW a \in Actors, Rebuild(a), ~RebuildStart(a) PROVE Elsewhere
  <2>1. CASE RebuildDisposed(a)
    <3>1. PICK step \in {"idle", "poll", "gone"} : Goto(a, step)
      BY <2>1, StepsDisjoint DEF RebuildDisposed
    <3>. QED  BY <2>1, <3>1 DEF RebuildDisposed, Calls
  <2>2. CASE RebuildJoin(a)
    BY <2>2 DEF RebuildJoin, Calls
  <2>. QED  BY <1>1, <2>1, <2>2 DEF Rebuild
<1>2. ASSUME NEW a \in Actors, NEW step \in {"idle", "poll", "gone", "request", "cleanup"},
             pc[a] \notin BuildSteps, Leave(a, step),
             UNCHANGED <<contextVars, buildVars, worldVars>>
      PROVE Elsewhere
  BY <1>2 DEF Leave, Release
<1>3. ASSUME NEW a \in Actors, Joined(a) PROVE Elsewhere
  <2>1. PICK step \in {"idle", "poll", "gone"} : Leave(a, step)
    BY <1>3, StepsDisjoint DEF Joined
  <2>. QED  BY <1>2, <1>3, <2>1 DEF Joined
<1>4. ASSUME NEW c \in Clients, CallMethod(c), ~Rebuild(c) PROVE Elsewhere
  <2>1. CASE CancelNothing(c) \/ WatchRefused(c) \/ DisposeAgain(c)
    BY <2>1 DEF CancelNothing, WatchRefused, DisposeAgain, vars
  <2>2. CASE CancelCapture(c) \/ WatchEnable(c) \/ DisposeBegin(c)
    BY <2>2 DEF CancelCapture, WatchEnable, DisposeBegin, Calls
  <2>. QED  BY <1>4, <2>1, <2>2 DEF CallMethod
<1>5. ASSUME NEW c \in Clients, Continue(c), ~Build(c), ~Joined(c) PROVE Elsewhere
  <2>1. CASE CancelFlag(c) \/ StopWatcher(c) \/ JoinWorker(c) \/ Cleanup(c)
    BY <2>1 DEF CancelFlag, StopWatcher, JoinWorker, Cleanup
  <2>2. CASE CancelReturn(c) \/ DisposeWait(c)
    BY <1>2, <2>2 DEF CancelReturn, DisposeWait
  <2>3. CASE WatchStart(c)
    BY <2>3 DEF WatchStart, Starting
  <2>. QED  BY <1>5, <2>1, <2>2, <2>3 DEF Continue
<1>6. CASE WorkerFindsDirty \/ WorkerDelayed \/ WorkerStops
  BY <1>6 DEF WorkerFindsDirty, WorkerDelayed, WorkerStops
<1>7. CASE InitialWait
  BY <1>2, <1>7 DEF InitialWait
<1>8. CASE Edit \/ UNCHANGED vars
  BY <1>8 DEF Edit, vars
<1>. QED
  BY <1>1, <1>3, <1>4, <1>5, <1>6, <1>7, <1>8
     DEF Next, CallMethod, Continue, WorkerStep, InitialStep

-----------------------------------------------------------------------------
(* The output directory.  Accounts(h) says that these are the hashes that  *)
(* describe it.  From its first step to the one that writes, the builder   *)
(* finds the directory as the tracked hashes describe it and has them in   *)
(* its locals; then its own outputs describe it, until they are tracked.   *)

Accounts(h) == disk = (h \ unwritten) \cup stray /\ stray \cap h = {}

Outputs ==
    \A a \in Actors :
        /\ pc[a] \in BuildSteps \ {"publish", "store"} => Accounts(latest)
        /\ pc[a] \in {"start", "failed", "scan", "compile", "write"} => base[a] = latest
        /\ pc[a] \in {"publish", "store"} => Accounts(outs[a])

LEMMA OutputsStep ==
    ASSUME Shape, Builder, Starting, OutputsTracked, Outputs, [Next]_vars
    PROVE  OutputsTracked' /\ Outputs'
<1>. USE FlightsAssumption
     DEF Shape, TypeOK, Holding, Builder, BuilderOwns, OneBuild, OutputsTracked, Outputs,
         contextVars, watchVars, flightVars, buildVars, worldVars, Goto, BuildSteps, Accounts
<1>1. ASSUME NEW a \in Actors, RebuildStart(a) PROVE OutputsTracked' /\ Outputs'
  <2>1. active = NoFlight /\ active' # NoFlight
    BY <1>1 DEF RebuildStart
  <2>2. /\ pc' = [pc EXCEPT ![a] = "capture"]
        /\ UNCHANGED <<latest, disk, stray, unwritten, base, outs>>
    BY <1>1 DEF RebuildStart
  <2>3. \A b \in Actors : pc[b] \notin BuildSteps
    BY <2>1
  <2>. QED  BY <2>1, <2>2, <2>3
<1>2. ASSUME NEW a \in Actors, Build(a) \/ Panic(a), ~Finish(a)
      PROVE  OutputsTracked' /\ Outputs'
  <2>1. pc[a] \in BuildSteps /\ active' = active /\ active # NoFlight
    BY <1>2 DEF Build, Capture, OnStart, ReturnErrors, ScanCanceled, Scan,
                Compile, WriteOutputs, PublishWatchData, StoreHashes, Panic
  <2>2. \A b \in Actors \ {a} : pc[b] \notin BuildSteps
    BY <2>1
  <2>3. CASE Capture(a)
    BY <2>1, <2>2, <2>3 DEF Capture
  <2>4. CASE OnStart(a) \/ ScanCanceled(a)
    BY <2>1, <2>2, <2>4 DEF OnStart, ScanCanceled
  <2>11. CASE ReturnErrors(a)
    <3>1. base[a] = latest /\ Accounts(latest)
      BY <2>11 DEF ReturnErrors
    <3>2. /\ pc' = [pc EXCEPT ![a] = "publish"] /\ outs'[a] = {}
          /\ stray' = stray \cup (base[a] \cap disk) /\ disk' = disk
      BY <2>11 DEF ReturnErrors
    <3>3. stray' = disk
      BY <3>1, <3>2
    <3>4. Accounts(outs[a])'
      BY <3>2, <3>3
    <3>. HIDE DEF Accounts
    <3>. QED  BY <2>1, <2>2, <3>2, <3>4
  <2>5. CASE Scan(a)
    BY <2>1, <2>2, <2>5 DEF Scan
  <2>6. CASE Compile(a)
    BY <2>1, <2>2, <2>6 DEF Compile
  <2>7. CASE WriteOutputs(a)
    <3>1. base[a] = latest /\ Accounts(latest)
      BY <2>7 DEF WriteOutputs
    <3>2. /\ pc' = [pc EXCEPT ![a] = "publish"] /\ outs' = outs
      BY <2>7 DEF WriteOutputs
    <3>3. PICK kept \in SUBSET ((base[a] \ outs[a]) \cap disk),
               missed \in SUBSET (outs[a] \ disk) :
            /\ disk' = (disk \ ((base[a] \ outs[a]) \ kept)) \cup (outs[a] \ missed)
            /\ stray' = (stray \ outs[a]) \cup kept
            /\ unwritten' = missed
      BY <2>7 DEF WriteOutputs
    <3>4. Accounts(outs[a])'
      BY <3>1, <3>2, <3>3
    <3>. HIDE DEF Accounts
    <3>. QED  BY <2>1, <2>2, <3>2, <3>4
  <2>8. CASE PublishWatchData(a)
    BY <2>1, <2>2, <2>8 DEF PublishWatchData
  <2>9. CASE StoreHashes(a)
    BY <2>1, <2>2, <2>9 DEF StoreHashes
  <2>10. CASE Panic(a)
    BY <2>1, <2>2, <2>10 DEF Panic
  <2>. QED  BY <1>2, <2>3, <2>4, <2>5, <2>6, <2>7, <2>8, <2>9, <2>10, <2>11
          DEF Build
<1>3. ASSUME NEW a \in Actors, Finish(a) PROVE OutputsTracked' /\ Outputs'
  <2>1. pc[a] \in {"finish", "unwind"} /\ UNCHANGED <<latest, disk, stray, unwritten>>
    BY <1>3 DEF Finish
  <2>2. \A b \in Actors \ {a} : pc[b] \notin BuildSteps
    BY <2>1
  <2>3. PICK step \in {"idle", "poll", "gone"} : Goto(a, step)
    BY <1>3, StepsDisjoint DEF Finish, Release
  <2>4. \A b \in Actors : pc'[b] \notin BuildSteps
    BY <2>2, <2>3
  <2>. QED  BY <2>1, <2>4
<1>4. CASE Elsewhere
  BY <1>4 DEF Elsewhere
<1>. QED  BY <1>1, <1>2, <1>3, <1>4, StepsOfBuilds

\* Between builds the output directory holds the tracked files it could write,
\* and besides them only what failing steps have left, after builds that were
\* canceled, that panicked or that failed too.
THEOREM OutputsStayTracked == Spec => []OutputsTracked
<1>1. Init => Builder /\ Starting /\ OutputsTracked /\ Outputs
  BY ActorsAssumption, FlightsAssumption
     DEF Init, Builder, BuilderOwns, OneBuild, ActiveUnfinished, Starting, OutputsTracked,
         Outputs, Accounts, BuildSteps
<1>. QED  BY <1>1, BuilderStep, StartingStep, OutputsStep, ShapeInvariant, PTL DEF Spec

-----------------------------------------------------------------------------
(* Cancellation.  The call that flagged the active flight still waits for  *)
(* it, since that flight has no outcome; a flight that becomes active has  *)
(* its flag cleared.                                                       *)

LEMMA CancelStep ==
    ASSUME Shape, Builder, CancelHitsItsFlight, [Next]_vars
    PROVE  CancelHitsItsFlight'
<1>. USE ActorsAssumption, FlightsAssumption
     DEF Shape, TypeOK, Holding, Builder, BuilderOwns, ActiveUnfinished, CancelHitsItsFlight,
         contextVars, watchVars, flightVars, buildVars, worldVars, Goto, BuildSteps
<1>1. ASSUME NEW a \in Actors, active' = active, flag' \subseteq flag,
             pc[a] = "cancelWait" => mine[a] # active,
             \A b \in Actors \ {a} : pc[b] = "cancelWait" => pc'[b] = pc[b] /\ mine'[b] = mine[b]
      PROVE CancelHitsItsFlight'
  BY <1>1
<1>2. ASSUME NEW a \in Actors, Rebuild(a) PROVE CancelHitsItsFlight'
  <2>1. CASE RebuildDisposed(a)
    BY <1>1, <2>1, StepsDisjoint DEF RebuildDisposed, Calls
  <2>2. CASE RebuildJoin(a)
    BY <1>1, <2>2 DEF RebuildJoin, Calls
  <2>3. CASE RebuildStart(a)
    BY <2>3 DEF RebuildStart
  <2>. QED  BY <1>2, <2>1, <2>2, <2>3 DEF Rebuild
<1>3. ASSUME NEW a \in Actors, Build(a) \/ Panic(a), ~Finish(a) PROVE CancelHitsItsFlight'
  <2>1. pc[a] \in BuildSteps /\ (\E step : Goto(a, step)) /\ UNCHANGED <<active, flag, mine>>
    BY <1>3 DEF Build, Capture, OnStart, ReturnErrors, ScanCanceled, Scan,
                Compile, WriteOutputs, PublishWatchData, StoreHashes, Panic
  <2>. QED  BY <1>1, <2>1
<1>4. ASSUME NEW a \in Actors, Finish(a) PROVE CancelHitsItsFlight'
  <2>1. active' = NoFlight /\ flag' \subseteq flag
    BY <1>4 DEF Finish, Release
  <2>. QED  BY <2>1
<1>5. ASSUME NEW a \in Actors, NEW step, Leave(a, step), UNCHANGED active,
             pc[a] = "cancelWait" => outcome[mine[a]] # "none"
      PROVE CancelHitsItsFlight'
  BY <1>1, <1>5 DEF Leave, Release
<1>6. ASSUME NEW c \in Clients, CallMethod(c), ~Rebuild(c) PROVE CancelHitsItsFlight'
  <2>1. CASE CancelNothing(c) \/ WatchRefused(c) \/ DisposeAgain(c)
    BY <2>1 DEF CancelNothing, WatchRefused, DisposeAgain, vars
  <2>2. CASE CancelCapture(c) \/ DisposeBegin(c)
    BY <1>1, <2>2 DEF CancelCapture, DisposeBegin, Calls
  <2>3. CASE WatchEnable(c)
    <3>1. \A b \in Clients : b # c => pc'[b] = pc[b] /\ mine'[b] = mine[b]
      BY <2>3 DEF WatchEnable
    <3>. QED  BY <2>3, <3>1 DEF WatchEnable, Calls
  <2>. QED  BY <1>6, <2>1, <2>2, <2>3 DEF CallMethod
<1>7. ASSUME NEW c \in Clients, Continue(c), ~Build(c), ~Joined(c) PROVE CancelHitsItsFlight'
  <2>1. CASE CancelFlag(c)
    BY <2>1 DEF CancelFlag
  <2>2. CASE CancelReturn(c) \/ DisposeWait(c)
    BY <1>5, <2>2 DEF CancelReturn, DisposeWait
  <2>3. CASE WatchStart(c)
    BY <2>3 DEF WatchStart
  <2>4. CASE StopWatcher(c) \/ JoinWorker(c) \/ Cleanup(c)
    BY <1>1, <2>4 DEF StopWatcher, JoinWorker, Cleanup
  <2>. QED  BY <1>7, <2>1, <2>2, <2>3, <2>4 DEF Continue
<1>8. CASE WorkerFindsDirty \/ WorkerDelayed \/ WorkerStops
  BY <1>1, <1>8 DEF WorkerFindsDirty, WorkerDelayed, WorkerStops
<1>9. CASE InitialWait
  BY <1>5, <1>9 DEF InitialWait
<1>10. ASSUME NEW a \in Actors, Joined(a) PROVE CancelHitsItsFlight'
  BY <1>5, <1>10 DEF Joined
<1>11. CASE Edit \/ UNCHANGED vars
  BY <1>11 DEF Edit, vars
<1>. QED
  BY <1>2, <1>3, <1>4, <1>6, <1>7, <1>8, <1>9, <1>10, <1>11
     DEF Next, CallMethod, Continue, WorkerStep, InitialStep, Build

\* A flight in progress is flagged only by a cancel call that captured this
\* very flight and has not returned.
THEOREM CancelsHitTheirFlight == Spec => []CancelHitsItsFlight
<1>1. Init => Builder /\ CancelHitsItsFlight
  BY ActorsAssumption, FlightsAssumption
     DEF Init, Builder, BuilderOwns, OneBuild, ActiveUnfinished, CancelHitsItsFlight, BuildSteps
<1>. QED  BY <1>1, BuilderStep, CancelStep, ShapeInvariant, PTL DEF Spec

-----------------------------------------------------------------------------
(* The context implements CoalescedBuilds.  The owner of the abstract      *)
(* build is the builder: there is one exactly while a flight is active.    *)

BuilderExists == active # NoFlight => \E a \in Actors : pc[a] \in BuildSteps

LEMMA BuilderExistsStep ==
    ASSUME Shape, Builder, Starting, BuilderExists, [Next]_vars
    PROVE  BuilderExists'
<1>. USE FlightsAssumption
     DEF Shape, TypeOK, Holding, Builder, BuilderOwns, BuilderExists, Goto, BuildSteps
<1>1. CASE \E a \in Actors : RebuildStart(a)
  BY <1>1 DEF RebuildStart
<1>2. ASSUME NEW a \in Actors, Build(a) \/ Panic(a), ~Finish(a) PROVE BuilderExists'
  <2>1. \E step \in BuildSteps : Goto(a, step)
    BY <1>2 DEF Build, Capture, OnStart, ReturnErrors, ScanCanceled, Scan,
                Compile, WriteOutputs, PublishWatchData, StoreHashes, Panic
  <2>. QED  BY <2>1
<1>3. CASE \E a \in Actors : Finish(a)
  BY <1>3 DEF Finish
<1>4. CASE Elsewhere
  BY <1>4 DEF Elsewhere
<1>. QED  BY <1>1, <1>2, <1>3, <1>4, StepsOfBuilds

Owner == CHOOSE a \in Actors : pc[a] \in BuildSteps

\* The builder is the only candidate.
LEMMA OwnerIsBuilder ==
    ASSUME OneBuild, NEW a \in Actors, pc[a] \in BuildSteps
    PROVE  Owner = a
<1>1. Owner \in Actors /\ pc[Owner] \in BuildSteps
  BY DEF Owner
<1>. QED  BY <1>1 DEF OneBuild

Asked == [a \in Actors |-> IF Waiting(a) THEN mine[a] ELSE NoFlight]

LEMMA OwnerStays ==
    ASSUME Builder, Builder', BuilderExists, active' = active,
           \A a \in Actors : pc[a] \in BuildSteps => pc'[a] \in BuildSteps
    PROVE  UNCHANGED (IF active = NoFlight THEN NoFlight ELSE Owner)
<1>1. ASSUME active # NoFlight PROVE Owner' = Owner
  <2>1. PICK a \in Actors : pc[a] \in BuildSteps
    BY <1>1 DEF BuilderExists
  <2>2. Owner = a
    BY <2>1, OwnerIsBuilder DEF Builder
  <2>3. pc'[a] \in BuildSteps
    BY <2>1
  <2>4. Owner' \in Actors /\ pc'[Owner'] \in BuildSteps
    BY <2>3 DEF Owner
  <2>. QED  BY <2>2, <2>3, <2>4 DEF Builder, OneBuild
<1>. QED  BY <1>1

\* The steps the abstract specification does not see.
Silent ==
    /\ UNCHANGED <<disposed, active>>
    /\ \A a \in Actors :
        /\ Waiting(a)' <=> Waiting(a)
        /\ Waiting(a) => mine'[a] = mine[a]
        /\ pc'[a] \in BuildSteps <=> pc[a] \in BuildSteps

LEMMA SilentSteps ==
    ASSUME Builder, Builder', BuilderExists, Silent
    PROVE  UNCHANGED Abstract!vars
<1>1. Asked' = Asked
  BY DEF Silent, Asked
<1>2. UNCHANGED (IF active = NoFlight THEN NoFlight ELSE Owner)
  BY OwnerStays DEF Silent
<1>3. UNCHANGED ~disposed
  BY DEF Silent
<1>. QED  BY <1>1, <1>2, <1>3, Zenon DEF Silent, Abstract!vars, Owner, Asked

LEMMA AbstractStep ==
    ASSUME Shape, Shape', Builder, Builder', Starting, BuilderExists, [Next]_vars
    PROVE  [Abstract!Next]_(Abstract!vars)
<1>. USE ActorsAssumption, FlightsAssumption
     DEF Shape, TypeOK, Holding, contextVars, watchVars, flightVars, buildVars, worldVars, Goto,
         BuildSteps
<1>1. ASSUME NEW a \in Actors, RebuildStart(a) PROVE Abstract!Next
  <2>1. PICK f \in Flights :
          /\ Unreferenced(f)
          /\ active' = f
          /\ mine' = [mine EXCEPT ![a] = f]
    BY <1>1 DEF RebuildStart
  <2>2. /\ ~disposed /\ disposed' = disposed
        /\ active = NoFlight
        /\ pc' = [pc EXCEPT ![a] = "capture"]
        /\ ~Waiting(a)
    BY <1>1 DEF RebuildStart, Calls, Waiting
  <2>3. pc'[a] \in BuildSteps
    BY <2>2
  <2>4. Owner' = a
    <3>1. Owner' \in Actors /\ pc'[Owner'] \in BuildSteps
      BY <2>3 DEF Owner
    <3>. QED  BY <2>3, <3>1 DEF Builder, OneBuild
  <2>5. Asked' = [Asked EXCEPT ![a] = f]
    BY <2>1, <2>2 DEF Asked, Waiting
  <2>6. Asked[a] = NoFlight /\ \A c \in Actors : Asked[c] # f
    BY <2>1, <2>2 DEF Asked, Unreferenced
  <2>7. Abstract!Begin(a, f)
    BY <2>1, <2>2, <2>4, <2>5, <2>6 DEF Abstract!Begin, Owner, Asked
  <2>. QED  BY <2>7 DEF Abstract!Next
<1>2. ASSUME NEW a \in Actors, RebuildJoin(a) PROVE Abstract!Next
  <2>1. /\ ~disposed /\ UNCHANGED <<disposed, active>>
        /\ active # NoFlight
        /\ pc' = [pc EXCEPT ![a] = "join"] /\ mine' = [mine EXCEPT ![a] = active]
        /\ ~Waiting(a) /\ pc[a] \notin BuildSteps
    BY <1>2 DEF RebuildJoin, Calls, Waiting
  <2>2. Asked' = [Asked EXCEPT ![a] = active] /\ Asked[a] = NoFlight
    BY <2>1 DEF Asked, Waiting
  <2>3. UNCHANGED (IF active = NoFlight THEN NoFlight ELSE Owner)
    BY <2>1, OwnerStays
  <2>4. UNCHANGED ~disposed
    BY <2>1
  <2>5. Abstract!Share(a)
    BY <2>1, <2>2, <2>3, <2>4 DEF Abstract!Share, Owner, Asked
  <2>. QED  BY <2>5 DEF Abstract!Next
<1>3. ASSUME NEW a \in Actors, Finish(a) PROVE Abstract!Next
  <2>1. pc[a] \in BuildSteps /\ mine[a] = active /\ active \in Flights
    BY <1>3 DEF Finish, Builder, BuilderOwns
  <2>2. active' = NoFlight /\ disposed' = disposed /\ mine' = [mine EXCEPT ![a] = NoFlight]
    BY <1>3, <2>1 DEF Finish, Release
  <2>3. PICK step \in {"idle", "poll", "gone"} : Goto(a, step)
    BY <1>3, StepsDisjoint DEF Finish, Release
  <2>4. Owner = a
    BY <2>1, OwnerIsBuilder DEF Builder
  <2>5. Asked' = [Asked EXCEPT ![a] = NoFlight]
    BY <2>2, <2>3 DEF Asked, Waiting
  <2>6. Abstract!End
    BY <2>1, <2>2, <2>4, <2>5 DEF Abstract!End, Owner, Asked
  <2>. QED  BY <2>6 DEF Abstract!Next
<1>4. ASSUME NEW a \in Actors, Joined(a) PROVE Abstract!Next
  <2>1. /\ pc[a] = "join" /\ mine[a] \notin {NoFlight, active}
        /\ UNCHANGED <<disposed, active>>
        /\ mine' = [mine EXCEPT ![a] = NoFlight]
    BY <1>4 DEF Joined, Leave, Release, Builder, ActiveUnfinished
  <2>2. PICK step \in {"idle", "poll", "gone"} : Goto(a, step)
    BY <1>4, StepsDisjoint DEF Joined, Leave, Release
  <2>3. Asked' = [Asked EXCEPT ![a] = NoFlight] /\ Asked[a] = mine[a]
    BY <2>1, <2>2 DEF Asked, Waiting
  <2>4. UNCHANGED (IF active = NoFlight THEN NoFlight ELSE Owner)
    BY <2>1, <2>2, OwnerStays
  <2>5. UNCHANGED ~disposed
    BY <2>1
  <2>6. Abstract!Answer(a)
    BY <2>1, <2>3, <2>4, <2>5 DEF Abstract!Answer, Owner, Asked
  <2>. QED  BY <2>6 DEF Abstract!Next
<1>5. ASSUME NEW c \in Clients, DisposeBegin(c) PROVE Abstract!Next
  <2>1. ~disposed /\ disposed' /\ active' = active
    BY <1>5 DEF DisposeBegin
  <2>2. pc[c] = "idle" /\ mine' = [mine EXCEPT ![c] = active]
        /\ \E step \in {"stopWatcher", "disposeWait"} : Goto(c, step)
    BY <1>5 DEF DisposeBegin, Calls
  <2>3. Asked' = Asked
    BY <2>2 DEF Asked, Waiting
  <2>4. UNCHANGED (IF active = NoFlight THEN NoFlight ELSE Owner)
    BY <2>1, <2>2, OwnerStays
  <2>5. ~disposed /\ (~disposed)' = FALSE
    BY <2>1
  <2>6. Abstract!Close
    BY <2>1, <2>3, <2>4, <2>5 DEF Abstract!Close, Owner, Asked
  <2>. QED  BY <2>6 DEF Abstract!Next
<1>6. ASSUME NEW a \in Actors, NEW step, ~Waiting(a), Goto(a, step),
             step \notin BuildSteps \cup {"join"},
             \A b \in Actors \ {a} : mine'[b] = mine[b],
             UNCHANGED <<disposed, active>>
      PROVE UNCHANGED Abstract!vars
  <2>1. Silent
    BY <1>6 DEF Silent, Waiting
  <2>. QED  BY <2>1, SilentSteps
<1>7. ASSUME NEW a \in Actors, RebuildDisposed(a) PROVE UNCHANGED Abstract!vars
  <2>1. PICK step \in {"idle", "poll", "gone"} : Goto(a, step)
    BY <1>7, StepsDisjoint DEF RebuildDisposed
  <2>. QED  BY <1>6, <1>7, <2>1 DEF RebuildDisposed, Calls, Waiting
<1>8. ASSUME NEW a \in Actors, Build(a) \/ Panic(a), ~Finish(a) PROVE UNCHANGED Abstract!vars
  <2>1. /\ pc[a] \in BuildSteps /\ \E step \in BuildSteps : Goto(a, step)
        /\ UNCHANGED <<disposed, active, mine>>
    BY <1>8 DEF Build, Capture, OnStart, ReturnErrors, ScanCanceled, Scan,
                Compile, WriteOutputs, PublishWatchData, StoreHashes, Panic
  <2>2. Silent
    BY <2>1 DEF Silent, Waiting
  <2>. QED  BY <2>2, SilentSteps
<1>9. ASSUME NEW c \in Clients, CallMethod(c), ~Rebuild(c), ~DisposeBegin(c)
      PROVE UNCHANGED Abstract!vars
  <2>1. CASE CancelNothing(c) \/ WatchRefused(c) \/ DisposeAgain(c)
    <3>1. Silent
      BY <2>1 DEF CancelNothing, WatchRefused, DisposeAgain, vars, Silent, Waiting
    <3>. QED  BY <3>1, SilentSteps
  <2>2. CASE CancelCapture(c)
    BY <1>6, <2>2 DEF CancelCapture, Calls, Waiting
  <2>3. CASE WatchEnable(c)
    <3>1. pc[Initial] = "absent"
      BY <2>3 DEF WatchEnable, Started
    <3>2. Silent
      BY <2>3, <3>1 DEF WatchEnable, Calls, Silent, Waiting
    <3>. QED  BY <3>2, SilentSteps
  <2>. QED  BY <1>9, <2>1, <2>2, <2>3 DEF CallMethod
<1>10. ASSUME NEW c \in Clients, Continue(c), ~Build(c), ~Joined(c)
       PROVE UNCHANGED Abstract!vars
  <2>1. CASE WatchStart(c)
    <3>1. Silent
      BY <2>1 DEF WatchStart, Starting, Silent, Waiting
    <3>. QED  BY <3>1, SilentSteps
  <2>2. CASE CancelFlag(c) \/ StopWatcher(c) \/ JoinWorker(c) \/ Cleanup(c)
    BY <1>6, <2>2 DEF CancelFlag, StopWatcher, JoinWorker, Cleanup, Waiting
  <2>3. CASE CancelReturn(c) \/ DisposeWait(c)
    BY <1>6, <2>3 DEF CancelReturn, DisposeWait, Leave, Release, Waiting
  <2>. QED  BY <1>10, <2>1, <2>2, <2>3 DEF Continue
<1>11. CASE WorkerFindsDirty \/ WorkerDelayed \/ WorkerStops \/ InitialWait
  BY <1>6, <1>11
     DEF WorkerFindsDirty, WorkerDelayed, WorkerStops, InitialWait, Leave, Release, Waiting
<1>12. CASE Edit \/ UNCHANGED vars
  <2>1. Silent
    BY <1>12 DEF Edit, vars, Silent, Waiting
  <2>. QED  BY <2>1, SilentSteps
<1>. QED
  BY <1>1, <1>2, <1>3, <1>4, <1>5, <1>7, <1>8, <1>9, <1>10, <1>11, <1>12
     DEF Next, CallMethod, Continue, WorkerStep, InitialStep, Rebuild, Build

\* The safety part of ImplementsCoalescedBuilds: callers that coalesce, the
\* watcher's worker and the initial build thread included, only ever see the
\* builds of the abstract specification, one after the other.
THEOREM BuildsAreCoalesced == Spec => Abstract!Init /\ [][Abstract!Next]_(Abstract!vars)
<1>1. Init => Builder /\ Starting /\ BuilderExists
  BY ActorsAssumption, FlightsAssumption
     DEF Init, Builder, BuilderOwns, OneBuild, ActiveUnfinished, Starting, BuilderExists,
         BuildSteps
<1>2. Init => Abstract!Init
  BY ActorsAssumption DEF Init, Abstract!Init, Waiting, BuildSteps
<1>. QED
  BY <1>1, <1>2, BuilderStep, StartingStep, BuilderExistsStep, AbstractStep, ShapeInvariant, PTL
     DEF Spec
=============================================================================
