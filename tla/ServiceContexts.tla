--------------------------- MODULE ServiceContexts ---------------------------
(***************************************************************************)
(* The contexts of the stdio service (service/contexts.rs): the registry   *)
(* of build keys, the operations the reader admits to a context, the group *)
(* of manual rebuilds a cancel request covers, and the disposal barrier.   *)
(*                                                                         *)
(* One reader thread admits requests in order; each then runs on a worker  *)
(* of its own.  The native context under a service context is reduced to   *)
(* its flight: BuildContext models it in full, here all callers of the     *)
(* flight in progress share one step counter.  Sets of workers stand for   *)
(* the counters "admitted" and "count".                                    *)
(***************************************************************************)
EXTENDS Naturals

CONSTANTS
    Keys,           \* build keys
    Workers,        \* request threads; one is reused once it has answered
    Main,           \* the thread that shuts the service down after EOF
    Contexts,       \* identities of Context allocations
    Groups,         \* identities of RebuildGroup allocations
    None,           \* no context, group or worker
    HasOnEnd,       \* whether JavaScript has onEnd callbacks
    Commands,       \* the commands clients send in this instance
    MaxRequests     \* bound: requests read from stdin

Actors == Workers \cup {Main}

ASSUME ServiceAssumption ==
    /\ Main \notin Workers
    /\ None \notin Contexts \cup Groups \cup Actors
    /\ Actors \cap {"open", "closed"} = {}
    /\ HasOnEnd \in BOOLEAN
    /\ MaxRequests \in Nat

VARIABLES
    builds,     \* Contexts.builds: the context registered under each key
    phase,      \* State.phase
    creating,   \* State.creating
    native,     \* whether State.native is set
    admitted,   \* State.admitted, as the set of operations not yet dropped
    group,      \* State.rebuild_group
    members,    \* RebuildGroup.count, as the set of admitted rebuilds
    cancelled,  \* the groups whose "cancelled" flag is set
    alive,      \* the native contexts created and not disposed
    watching,   \* the native contexts with watch mode on
    step,       \* the step of each native context's flight, if any
    flag,       \* the flights whose cancellation flag is set
    reported,   \* the flights whose result was sent to JavaScript
    logged,     \* the flights whose diagnostics were printed by onEnd
    pc,         \* what each thread is doing
    ctx,        \* the context it works on
    key,        \* the key it was asked about
    covers,     \* the group a cancel waits for
    before,     \* history: the rebuilds admitted before a cancel
    reader,     \* the cancel the reader is still admitting, "open" or "closed"
    requests    \* number of requests read

registryVars == <<builds, phase, creating, native, admitted>>
groupVars == <<group, members, cancelled>>
flightVars == <<alive, watching, step, flag, reported, logged>>
threadVars == <<pc, ctx, key, covers, before>>
vars == <<registryVars, groupVars, flightVars, threadVars, reader, requests>>

Phases == {"Live", "Disposing", "Cleaning", "Disposed"}
Steps == {"none", "start", "build", "report", "log", "finish"}
Positions == {"free", "create", "creating", "rebuild", "flying", "watch", "resolve",
              "marking", "cancel", "cancelWait", "groupWait", "drop",
              "dispose", "await", "drain", "native", "nativeWait", "settle", "remove"}

TypeOK ==
    /\ builds \in [Keys -> Contexts \cup {None}]
    /\ phase \in [Contexts -> Phases]
    /\ creating \subseteq Contexts
    /\ native \subseteq Contexts
    /\ admitted \in [Contexts -> SUBSET Workers]
    /\ group \in [Contexts -> Groups \cup {None}]
    /\ members \in [Groups -> SUBSET Workers]
    /\ cancelled \subseteq Groups
    /\ alive \subseteq Contexts
    /\ watching \subseteq Contexts
    /\ step \in [Contexts -> Steps]
    /\ flag \subseteq Contexts
    /\ reported \subseteq Contexts
    /\ logged \subseteq Contexts
    /\ pc \in [Actors -> Positions]
    /\ ctx \in [Actors -> Contexts \cup {None}]
    /\ key \in [Actors -> Keys \cup {None}]
    /\ covers \in [Actors -> Groups \cup {None}]
    /\ before \in [Actors -> SUBSET Workers]
    /\ reader \in {"open", "closed"} \cup Workers
    /\ requests \in 0 .. MaxRequests

Init ==
    /\ builds = [k \in Keys |-> None]
    /\ phase = [c \in Contexts |-> "Disposed"]
    /\ creating = {}
    /\ native = {}
    /\ admitted = [c \in Contexts |-> {}]
    /\ group = [c \in Contexts |-> None]
    /\ members = [g \in Groups |-> {}]
    /\ cancelled = {}
    /\ alive = {}
    /\ watching = {}
    /\ step = [c \in Contexts |-> "none"]
    /\ flag = {}
    /\ reported = {}
    /\ logged = {}
    /\ pc = [a \in Actors |-> "free"]
    /\ ctx = [a \in Actors |-> None]
    /\ key = [a \in Actors |-> None]
    /\ covers = [a \in Actors |-> None]
    /\ before = [a \in Actors |-> {}]
    /\ reader = "open"
    /\ requests = 0

Goto(a, position) == pc' = [pc EXCEPT ![a] = position]

\* The request is answered and its thread ends.
Answer(a) ==
    /\ pc' = [pc EXCEPT ![a] = "free"]
    /\ ctx' = [ctx EXCEPT ![a] = None]
    /\ key' = [key EXCEPT ![a] = None]
    /\ covers' = [covers EXCEPT ![a] = None]

-----------------------------------------------------------------------------
(* The reader: admission, in the order requests arrive.  A request that is *)
(* refused changes nothing and is not modelled as a step.                  *)

Read(w, command, k, position) ==
    /\ reader = "open"
    /\ command \in Commands
    /\ requests < MaxRequests
    /\ requests' = requests + 1
    /\ pc[w] = "free"
    /\ pc' = [pc EXCEPT ![w] = position]
    /\ key' = [key EXCEPT ![w] = k]

\* Context::admit without its group.
Admit(w, k) ==
    LET c == builds[k] IN
    /\ c # None
    /\ phase[c] = "Live"
    /\ c \in native
    /\ admitted' = [admitted EXCEPT ![c] = @ \cup {w}]
    /\ ctx' = [ctx EXCEPT ![w] = c]

\* A build request is not admitted by the reader; its worker creates.
ReadBuild(w, k) ==
    /\ Read(w, "build", k, "create")
    /\ UNCHANGED <<registryVars, groupVars, flightVars, ctx, covers, before, reader>>

UnusedGroup(g) == (\A c \in Contexts : group[c] # g) /\ (\A a \in Actors : covers[a] # g)

\* The group of a context's rebuilds, allocated if it has none.
GroupOf(c, g) ==
    IF group[c] = None
    THEN UnusedGroup(g) /\ g = CHOOSE h \in Groups : UnusedGroup(h)
    ELSE g = group[c]

ReadRebuild(w, k) ==
    /\ Read(w, "rebuild", k, "rebuild")
    /\ Admit(w, k)
    /\ \E g \in Groups :
          /\ GroupOf(builds[k], g)
          /\ group' = [group EXCEPT ![builds[k]] = g]
          /\ members' = [members EXCEPT ![g] = @ \cup {w}]
          /\ cancelled' = IF group[builds[k]] = None THEN cancelled \ {g} ELSE cancelled
    /\ UNCHANGED <<builds, phase, creating, native, flightVars, covers, before, reader>>

ReadWatch(w, k) ==
    /\ Read(w, "watch", k, "watch")
    /\ Admit(w, k)
    /\ UNCHANGED <<builds, phase, creating, native, groupVars, flightVars, covers, before, reader>>

\* A resolve is admitted in any phase, as long as the native context exists.
ReadResolve(w, k) ==
    /\ Read(w, "resolve", k, "resolve")
    /\ builds[k] \in native
    /\ admitted' = [admitted EXCEPT ![builds[k]] = @ \cup {w}]
    /\ ctx' = [ctx EXCEPT ![w] = builds[k]]
    /\ UNCHANGED <<builds, phase, creating, native, groupVars, flightVars, covers, before, reader>>

\* Contexts::cancel takes the context's lock twice: to admit the operation,
\* then to read the group it marks.
ReadCancel(w, k) ==
    /\ Read(w, "cancel", k, "marking")
    /\ Admit(w, k)
    /\ before' = [before EXCEPT ![w] = {r \in Workers : group[builds[k]] # None /\
                                                        r \in members[group[builds[k]]]}]
    /\ reader' = w
    /\ UNCHANGED <<builds, phase, creating, native, groupVars, flightVars, covers>>

MarkGroup(w) ==
    /\ reader = w
    /\ covers' = [covers EXCEPT ![w] = group[ctx[w]]]
    /\ cancelled' = cancelled \cup ({group[ctx[w]]} \ {None})
    /\ reader' = "open"
    /\ Goto(w, "cancel")
    /\ UNCHANGED <<registryVars, group, members, flightVars, ctx, key, before, requests>>

ReadDispose(w, k) ==
    /\ Read(w, "dispose", k, "dispose")
    /\ builds[k] # None
    /\ phase' = IF phase[builds[k]] = "Live" THEN [phase EXCEPT ![builds[k]] = "Disposing"]
                ELSE phase
    /\ ctx' = [ctx EXCEPT ![w] = builds[k]]
    /\ UNCHANGED <<builds, creating, native, admitted, groupVars, flightVars, covers, before, reader>>

ReadEof ==
    /\ reader = "open"
    /\ reader' = "closed"
    /\ UNCHANGED <<registryVars, groupVars, flightVars, threadVars, requests>>

-----------------------------------------------------------------------------
(* Creation.                                                               *)

UnusedContext(c) == (\A k \in Keys : builds[k] # c) /\ (\A a \in Actors : ctx[a] # c)

Create(w) ==
    /\ pc[w] = "create"
    /\ builds[key[w]] = None
    /\ \E c \in Contexts :
          /\ c = CHOOSE d \in Contexts : UnusedContext(d)
          /\ UnusedContext(c)
          /\ builds' = [builds EXCEPT ![key[w]] = c]
          /\ phase' = [phase EXCEPT ![c] = "Live"]
          /\ creating' = creating \cup {c}
          /\ ctx' = [ctx EXCEPT ![w] = c]
    /\ Goto(w, "creating")
    /\ UNCHANGED <<native, admitted, groupVars, flightVars, key, covers, before, reader, requests>>

CreateRefused(w) ==
    /\ pc[w] = "create"
    /\ builds[key[w]] # None
    /\ Answer(w)
    /\ UNCHANGED <<registryVars, groupVars, flightVars, before, reader, requests>>

\* Creation::complete: the context may be disposing already.
CreateComplete(w) ==
    /\ pc[w] = "creating"
    /\ native' = native \cup {ctx[w]}
    /\ alive' = alive \cup {ctx[w]}
    /\ creating' = creating \ {ctx[w]}
    /\ Answer(w)
    /\ UNCHANGED <<builds, phase, admitted, groupVars, watching, step, flag, reported, logged,
                   before, reader, requests>>

\* Mutant: a failed creation is not recorded as ended.
CreateFails_Stranded(w) ==
    /\ pc[w] = "creating"
    /\ phase' = IF phase[ctx[w]] = "Live" THEN [phase EXCEPT ![ctx[w]] = "Disposing"] ELSE phase
    /\ Goto(w, "dispose")
    /\ UNCHANGED <<builds, creating, native, admitted, groupVars, flightVars, ctx, key, covers,
                   before, reader, requests>>

\* Creation's drop after an error or a panic: its thread disposes.
CreateFails(w) ==
    /\ pc[w] = "creating"
    /\ creating' = creating \ {ctx[w]}
    /\ phase' = IF phase[ctx[w]] = "Live" THEN [phase EXCEPT ![ctx[w]] = "Disposing"] ELSE phase
    /\ Goto(w, "dispose")
    /\ UNCHANGED <<builds, native, admitted, groupVars, flightVars, ctx, key, covers, before,
                   reader, requests>>

-----------------------------------------------------------------------------
(* The flight of a native context.                                         *)

\* A manual rebuild starts a flight or joins the one in progress.
Rebuild(w) ==
    /\ pc[w] = "rebuild"
    /\ LET c == ctx[w] IN
       /\ step' = IF step[c] = "none" THEN [step EXCEPT ![c] = "start"] ELSE step
       /\ flag' = IF step[c] = "none" THEN flag \ {c} ELSE flag
    /\ Goto(w, "flying")
    /\ UNCHANGED <<registryVars, groupVars, alive, watching, reported, logged, ctx, key, covers,
                   before, reader, requests>>

\* Watch mode starts a flight by itself.
AutomaticBuild(c) ==
    /\ c \in watching
    /\ c \in alive
    /\ step[c] = "none"
    /\ step' = [step EXCEPT ![c] = "start"]
    /\ flag' = flag \ {c}
    /\ UNCHANGED <<registryVars, groupVars, alive, watching, reported, logged, threadVars,
                   reader, requests>>

HasRebuild(c) == group[c] # None

\* Mutant: a flight does not ask whether its rebuilds were canceled.
OnStart_Unasked(c) ==
    /\ step[c] = "start"
    /\ step' = [step EXCEPT ![c] = "build"]
    /\ UNCHANGED <<registryVars, groupVars, alive, watching, flag, reported, logged, threadVars,
                   reader, requests>>

\* The plugin of cancel_on_start_plugin flags a flight of a canceled group.
\* A native context that is disposed already ignores the cancellation.
OnStart(c) ==
    /\ step[c] = "start"
    /\ flag' = IF group[c] \in cancelled /\ c \in native /\ c \in alive
               THEN flag \cup {c} ELSE flag
    /\ step' = [step EXCEPT ![c] = "build"]
    /\ UNCHANGED <<registryVars, groupVars, alive, watching, reported, logged, threadVars,
                   reader, requests>>

Build(c) ==
    /\ step[c] = "build"
    /\ step' = [step EXCEPT ![c] = "report"]
    /\ reported' = reported \ {c}
    /\ logged' = logged \ {c}
    /\ UNCHANGED <<registryVars, groupVars, alive, watching, flag, threadVars, reader, requests>>

\* onEnd sends the result to JavaScript only if somebody needs it.
OnEndReport(c) ==
    /\ step[c] = "report"
    /\ reported' = IF HasOnEnd \/ HasRebuild(c) THEN reported \cup {c} ELSE reported
    /\ step' = [step EXCEPT ![c] = "log"]
    /\ UNCHANGED <<registryVars, groupVars, alive, watching, flag, logged, threadVars, reader,
                   requests>>

\* background_diagnostics, after JavaScript has acknowledged the result.
OnEndLog(c) ==
    /\ step[c] = "log"
    /\ logged' = IF HasRebuild(c) THEN logged ELSE logged \cup {c}
    /\ step' = [step EXCEPT ![c] = "finish"]
    /\ UNCHANGED <<registryVars, groupVars, alive, watching, flag, reported, threadVars, reader,
                   requests>>

\* The flight ends and wakes everybody who waits for it.
Finish(c) ==
    /\ step[c] = "finish"
    /\ step' = [step EXCEPT ![c] = "none"]
    /\ pc' = [a \in Actors |->
                IF ctx[a] # c THEN pc[a]
                ELSE CASE pc[a] = "flying" -> "drop"
                       [] pc[a] = "cancelWait" -> "groupWait"
                       [] OTHER -> pc[a]]
    /\ UNCHANGED <<registryVars, groupVars, alive, watching, flag, reported, logged, ctx, key,
                   covers, before, reader, requests>>

-----------------------------------------------------------------------------
(* The other admitted operations, and the drop of an operation.            *)

Watch(w) ==
    /\ pc[w] = "watch"
    /\ watching' = watching \cup {ctx[w]}
    /\ Goto(w, "drop")
    /\ UNCHANGED <<registryVars, groupVars, alive, step, flag, reported, logged, ctx, key, covers,
                   before, reader, requests>>

Resolve(w) ==
    /\ pc[w] = "resolve"
    /\ Goto(w, "drop")
    /\ UNCHANGED <<registryVars, groupVars, flightVars, ctx, key, covers, before, reader, requests>>

\* Cancel::run: the native cancellation, then the end of the group.
Cancel(w) ==
    /\ pc[w] = "cancel"
    /\ flag' = IF step[ctx[w]] = "none" THEN flag ELSE flag \cup {ctx[w]}
    /\ Goto(w, IF step[ctx[w]] = "none" THEN "groupWait" ELSE "cancelWait")
    /\ UNCHANGED <<registryVars, groupVars, alive, watching, step, reported, logged, ctx, key,
                   covers, before, reader, requests>>

\* Mutant: cancel returns once the native flight it met has ended.
GroupWait_FlightOnly(w) ==
    /\ pc[w] = "groupWait"
    /\ Goto(w, "drop")
    /\ UNCHANGED <<registryVars, groupVars, flightVars, ctx, key, covers, before, reader, requests>>

GroupWait(w) ==
    /\ pc[w] = "groupWait"
    /\ covers[w] # None => members[covers[w]] = {}
    /\ Goto(w, "drop")
    /\ UNCHANGED <<registryVars, groupVars, flightVars, ctx, key, covers, before, reader, requests>>

\* Mutant: any rebuild that ends retires the group.
DropOperation_First(w) ==
    /\ pc[w] = "drop"
    /\ LET c == ctx[w]
           g == group[c]
           leaves == g # None /\ w \in members[g]
       IN /\ admitted' = [admitted EXCEPT ![c] = @ \ {w}]
          /\ members' = IF leaves THEN [members EXCEPT ![g] = @ \ {w}] ELSE members
          /\ group' = IF leaves THEN [group EXCEPT ![c] = None] ELSE group
    /\ before' = [a \in Actors |-> IF a = w THEN {} ELSE before[a] \ {w}]
    /\ Answer(w)
    /\ UNCHANGED <<builds, phase, creating, native, cancelled, flightVars, reader, requests>>

\* Operation's drop.  The last rebuild of a group retires it.
DropOperation(w) ==
    /\ pc[w] = "drop"
    /\ LET c == ctx[w]
           g == group[c]
           leaves == g # None /\ w \in members[g]
       IN /\ admitted' = [admitted EXCEPT ![c] = @ \ {w}]
          /\ members' = IF leaves THEN [members EXCEPT ![g] = @ \ {w}] ELSE members
          /\ group' = IF leaves /\ members[g] = {w} THEN [group EXCEPT ![c] = None] ELSE group
    /\ before' = [a \in Actors |-> IF a = w THEN {} ELSE before[a] \ {w}]
    /\ Answer(w)
    /\ UNCHANGED <<builds, phase, creating, native, cancelled, flightVars, reader, requests>>

-----------------------------------------------------------------------------
(* Disposal: Contexts::finish_dispose around Context::dispose.             *)

\* Mutant: a second disposer does not wait for the first one's cleanup.
Dispose_NoWait(a) ==
    /\ pc[a] = "dispose"
    /\ IF phase[ctx[a]] \in {"Disposed", "Cleaning"}
       THEN Goto(a, "remove") /\ UNCHANGED phase
       ELSE Goto(a, "drain") /\ phase' = [phase EXCEPT ![ctx[a]] = "Cleaning"]
    /\ UNCHANGED <<builds, creating, native, admitted, groupVars, flightVars, ctx, key, covers,
                   before, reader, requests>>

Dispose(a) ==
    /\ pc[a] = "dispose"
    /\ CASE phase[ctx[a]] = "Disposed" -> Goto(a, "remove") /\ UNCHANGED phase
         [] phase[ctx[a]] = "Cleaning" -> Goto(a, "await") /\ UNCHANGED phase
         [] OTHER -> Goto(a, "drain") /\ phase' = [phase EXCEPT ![ctx[a]] = "Cleaning"]
    /\ UNCHANGED <<builds, creating, native, admitted, groupVars, flightVars, ctx, key, covers,
                   before, reader, requests>>

AwaitDisposed(a) ==
    /\ pc[a] = "await"
    /\ phase[ctx[a]] = "Disposed"
    /\ Goto(a, "remove")
    /\ UNCHANGED <<registryVars, groupVars, flightVars, ctx, key, covers, before, reader, requests>>

\* Mutant: disposal does not wait for admitted operations.
Drain_Eager(a) ==
    /\ pc[a] = "drain"
    /\ ctx[a] \notin creating
    /\ native' = native \ {ctx[a]}
    /\ Goto(a, IF ctx[a] \in native THEN "native" ELSE "settle")
    /\ UNCHANGED <<builds, phase, creating, admitted, groupVars, flightVars, ctx, key, covers,
                   before, reader, requests>>

\* Wait for the creation and for every admitted operation, then take the
\* native context.
Drain(a) ==
    /\ pc[a] = "drain"
    /\ ctx[a] \notin creating
    /\ admitted[ctx[a]] = {}
    /\ native' = native \ {ctx[a]}
    /\ Goto(a, IF ctx[a] \in native THEN "native" ELSE "settle")
    /\ UNCHANGED <<builds, phase, creating, admitted, groupVars, flightVars, ctx, key, covers,
                   before, reader, requests>>

\* The native dispose stops the watcher, then waits for the flight.
NativeDispose(a) ==
    /\ pc[a] = "native"
    /\ alive' = alive \ {ctx[a]}
    /\ watching' = watching \ {ctx[a]}
    /\ Goto(a, "nativeWait")
    /\ UNCHANGED <<registryVars, groupVars, step, flag, reported, logged, ctx, key, covers, before,
                   reader, requests>>

NativeDisposed(a) ==
    /\ pc[a] = "nativeWait"
    /\ step[ctx[a]] = "none"
    /\ Goto(a, "settle")
    /\ UNCHANGED <<registryVars, groupVars, flightVars, ctx, key, covers, before, reader, requests>>

Settle(a) ==
    /\ pc[a] = "settle"
    /\ phase' = [phase EXCEPT ![ctx[a]] = "Disposed"]
    /\ Goto(a, "remove")
    /\ UNCHANGED <<builds, creating, native, admitted, groupVars, flightVars, ctx, key, covers,
                   before, reader, requests>>

\* Mutant: the key is removed whatever context it names by now.
Remove_Any(a) ==
    /\ pc[a] = "remove"
    /\ builds' = [k \in Keys |-> IF k = key[a] THEN None ELSE builds[k]]
    /\ Answer(a)
    /\ UNCHANGED <<phase, creating, native, admitted, groupVars, flightVars, before, reader,
                   requests>>

Remove(a) ==
    /\ pc[a] = "remove"
    /\ builds' = [k \in Keys |-> IF k = key[a] /\ builds[k] = ctx[a] THEN None ELSE builds[k]]
    /\ Answer(a)
    /\ UNCHANGED <<phase, creating, native, admitted, groupVars, flightVars, before, reader,
                   requests>>

\* After EOF and once every worker has ended, the contexts left are disposed.
Shutdown(k) ==
    /\ reader = "closed"
    /\ \A a \in Actors : pc[a] = "free"
    /\ builds[k] # None
    /\ builds' = [builds EXCEPT ![k] = None]
    /\ ctx' = [ctx EXCEPT ![Main] = builds[k]]
    /\ Goto(Main, "dispose")
    /\ UNCHANGED <<phase, creating, native, admitted, groupVars, flightVars, key, covers, before,
                   reader, requests>>

-----------------------------------------------------------------------------
Reader ==
    \/ \E w \in Workers, k \in Keys :
          \/ ReadBuild(w, k) \/ ReadRebuild(w, k) \/ ReadWatch(w, k)
          \/ ReadResolve(w, k) \/ ReadCancel(w, k) \/ ReadDispose(w, k)
    \/ ReadEof

Disposal(a) ==
    \/ Dispose(a) \/ AwaitDisposed(a) \/ Drain(a)
    \/ NativeDispose(a) \/ NativeDisposed(a) \/ Settle(a) \/ Remove(a)

Worker(w) ==
    \/ MarkGroup(w)
    \/ Create(w) \/ CreateRefused(w) \/ CreateComplete(w) \/ CreateFails(w)
    \/ Rebuild(w) \/ Watch(w) \/ Resolve(w) \/ Cancel(w) \/ GroupWait(w) \/ DropOperation(w)
    \/ Disposal(w)

Flight(c) ==
    OnStart(c) \/ Build(c) \/ OnEndReport(c) \/ OnEndLog(c) \/ Finish(c)

Next ==
    \/ Reader
    \/ \E w \in Workers : Worker(w)
    \/ \E c \in Contexts : Flight(c) \/ AutomaticBuild(c)
    \/ Disposal(Main)
    \/ \E k \in Keys : Shutdown(k)

\* Threads that run keep running; nobody is obliged to send a request, and
\* watch mode is not obliged to see an edit.
Fairness ==
    /\ \A w \in Workers : WF_vars(Worker(w))
    /\ \A c \in Contexts : WF_vars(Flight(c))
    /\ WF_vars(Disposal(Main))
    /\ WF_vars(\E k \in Keys : Shutdown(k))

Spec == Init /\ [][Next]_vars /\ Fairness

-----------------------------------------------------------------------------
(* Properties                                                              *)

\* An admitted operation never meets a native context that is disposed, not
\* even a resolve admitted while disposal is waiting.
NativeOutlivesOperations == \A c \in Contexts : admitted[c] # {} => c \in alive

\* Whoever disposed a context, or waited while another thread did, goes on
\* only when the native context is gone and its last flight has ended.
DisposersSeeCleanup ==
    \A a \in Actors : pc[a] = "remove" =>
        /\ phase[ctx[a]] = "Disposed"
        /\ ctx[a] \notin alive
        /\ step[ctx[a]] = "none"

\* A key is free for a new context only when nothing of the old one runs.
KeyReuseIsSafe ==
    reader # "closed" =>
        \A c \in Contexts : (\A k \in Keys : builds[k] # c) =>
            /\ c \notin alive
            /\ step[c] = "none"
            /\ admitted[c] = {}

\* Disposal is over for nobody before it is over: not for a second disposer, and not
\* for a new context under the same key (Context::dispose, Contexts::finish_dispose).
CleanupComesFirst == DisposersSeeCleanup /\ KeyReuseIsSafe

\* A cancel request is answered only after every rebuild admitted before it.
CancelCoversAdmitted ==
    [][\A w \in Workers : pc[w] = "groupWait" /\ pc'[w] # "groupWait" => before[w] = {}]_vars

\* A rebuild group is retired exactly when its last rebuild is dropped, so a
\* cancellation never outlives the rebuilds it was meant for.
GroupsMatchRebuilds ==
    \A c \in Contexts :
        IF group[c] = None
        THEN \A w \in admitted[c] : pc[w] \notin {"rebuild", "flying"}
        ELSE members[group[c]] # {} /\ members[group[c]] \subseteq admitted[c]

\* What the threads of the registry rely on in each other's data: its types, and the
\* groups kept by admissions, cancellations and drops (contexts.rs, State).
RegistryIsConsistent == TypeOK /\ GroupsMatchRebuilds

\* No flight of a canceled group gets past its onStart callbacks unflagged,
\* unless the cancel request that will flag it is still on its way.
CancelReachesFlights ==
    \A c \in Contexts :
        group[c] \in cancelled /\ step[c] = "build" /\ c \notin flag =>
            \E w \in Workers : pc[w] = "cancel" /\ ctx[w] = c

\* Every request is answered, whatever it has to wait for.
RequestsAnswered == \A w \in Workers : pc[w] # "free" ~> pc[w] = "free"

\* After EOF every context is disposed.
ShutdownDisposesAll == reader = "closed" ~> alive = {} /\ \A c \in Contexts : step[c] = "none"

\* A manual rebuild needs the result of the flight it waited for.
ManualRebuildsReported ==
    \A w \in Workers :
        (pc[w] = "flying" /\ step[ctx[w]] = "finish") => ctx[w] \in reported

\* A build without a request worker has its diagnostics printed by onEnd.
AutomaticBuildsLogged ==
    \A c \in Contexts :
        step[c] = "finish" =>
            c \in logged \/ \E w \in Workers : pc[w] = "flying" /\ ctx[w] = c
=============================================================================
