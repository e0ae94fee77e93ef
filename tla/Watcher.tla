------------------------------- MODULE Watcher -------------------------------
(***************************************************************************)
(* The polling file watcher of api/watcher.rs: the worker thread, the      *)
(* threads that start it, and stop it as they dispose of the build context,*)
(* and the builds that replace its watch data while a scan is under way.   *)
(* Builds never overlap (BuildContext): whoever asks for one while another *)
(* is running joins it.                                                    *)
(*                                                                         *)
(* A watched path maps to a callback, and a callback is what it remembers: *)
(* the version of the file it was made for.  It reports the path when the  *)
(* disk holds another version.                                             *)
(***************************************************************************)
EXTENDS Integers, FiniteSets, Sequences, SequencesExt

CONSTANTS
    Paths,          \* the files of the project
    Callers,        \* threads that start, stop and rebuild
    Worker,         \* the worker thread
    MaxRecent,      \* MAX_RECENT_ITEM_COUNT
    MinPerInterval, \* MIN_ITEM_COUNT_PER_ITERATION
    MaxIntervals,   \* MAX_INTERVALS_BEFORE_UPDATE
    MaxVersion,     \* bound: versions a file goes through
    MaxPublished    \* bound: publications of watch data by callers

ASSUME WatcherAssumption ==
    /\ Worker \notin Callers
    /\ IsFiniteSet(Paths)
    /\ {MaxRecent, MinPerInterval, MaxIntervals} \subseteq Nat \ {0}
    /\ {MaxVersion, MaxPublished} \subseteq Nat

VARIABLES
    disk,           \* disk[p]: the version of the file p
    data,           \* WatchData.paths: watched path -> version its callback remembers
    generation,     \* bumped by every publication
    recent,         \* recent_items
    toScan,         \* items_to_scan
    perInterval,    \* items_per_iteration
    shouldStop,     \* should_stop
    context,        \* the build context, which owns the watcher, is alive
    handle,         \* the worker's JoinHandle is stored
    at,             \* where the worker is
    scan,           \* the worker's scan: generation and candidates left
    stopping,       \* where each thread's call of stop is
    snapshot,       \* what the build of each thread has read, <<>> when it has none
    round           \* history: scans since items_to_scan was last filled

scanVars == <<recent, toScan, perInterval, round>>
vars == <<disk, data, generation, scanVars, shouldStop, context, handle, at, scan, stopping, snapshot>>

Actors == Callers \cup {Worker}

NoScan == [generation |-> 0, candidates |-> <<>>]
Larger(a, b) == IF a >= b THEN a ELSE b
CeilDiv(a, b) == (a + b - 1) \div b
Disposed == \E a \in Actors : stopping[a] # "idle"
Building == \E a \in Actors : snapshot[a] # <<>>
WorkerGone == at \in {"none", "done"}

Init ==
    /\ disk = [p \in Paths |-> 0]
    /\ data = <<>>
    /\ generation = 0
    /\ recent = <<>> /\ toScan = <<>> /\ perInterval = 0 /\ round = 0
    /\ shouldStop = FALSE
    /\ context = TRUE
    /\ handle = FALSE
    /\ at = "none"
    /\ scan = NoScan
    /\ stopping = [a \in Actors |-> "idle"]
    /\ snapshot = [a \in Actors |-> <<>>]

(***************************************************************************)
(* start and stop.  start holds the worker mutex from its test until the   *)
(* handle is stored, so nothing can come between the two.                  *)
(***************************************************************************)
\* Mutant: start does not look at the stop flag.
Start_Always(c) ==
    /\ context
    /\ ~handle
    /\ at = "none"
    /\ handle' = TRUE
    /\ at' = "wait"
    /\ UNCHANGED <<disk, data, generation, scanVars, shouldStop, context, scan, stopping, snapshot>>

Start(c) ==
    /\ context
    /\ ~handle /\ ~shouldStop
    /\ at = "none"
    /\ handle' = TRUE
    /\ at' = "wait"
    /\ UNCHANGED <<disk, data, generation, scanVars, shouldStop, context, scan, stopping, snapshot>>

\* The context is marked disposed before its watcher is stopped, by any thread,
\* the worker included when it is in its rebuild callback.
Dispose(a) ==
    /\ context
    /\ stopping[a] = "idle"
    /\ a = Worker => at = "rebuild"
    /\ stopping' = [stopping EXCEPT ![a] = "disposed"]
    /\ UNCHANGED <<disk, data, generation, scanVars, shouldStop, context, handle, at, scan, snapshot>>

StopFlag(a) ==
    /\ stopping[a] = "disposed"
    /\ shouldStop' = TRUE
    /\ stopping' = [stopping EXCEPT ![a] = "take"]
    /\ UNCHANGED <<disk, data, generation, scanVars, context, handle, at, scan, snapshot>>

\* Mutant: the worker joins itself.
StopTake_Self(a) ==
    /\ stopping[a] = "take"
    /\ stopping' = [stopping EXCEPT ![a] = IF handle THEN "join" ELSE "returned"]
    /\ handle' = FALSE
    /\ UNCHANGED <<disk, data, generation, scanVars, shouldStop, context, at, scan, snapshot>>

StopTake(a) ==
    /\ stopping[a] = "take"
    /\ stopping' = [stopping EXCEPT ![a] = IF handle /\ a # Worker THEN "join" ELSE "returned"]
    /\ handle' = FALSE
    /\ UNCHANGED <<disk, data, generation, scanVars, shouldStop, context, at, scan, snapshot>>

StopJoin(a) ==
    /\ stopping[a] = "join"
    /\ WorkerGone
    /\ stopping' = [stopping EXCEPT ![a] = "joined"]
    /\ UNCHANGED <<disk, data, generation, scanVars, shouldStop, context, handle, at, scan, snapshot>>

(***************************************************************************)
(* Builds.  A build reads the files and publishes callbacks for what it    *)
(* has read when it ends.  Callers build when they like, the worker in its *)
(* rebuild callback.                                                       *)
(***************************************************************************)
\* Vec::retain.
Retained(items, keep) ==
    LET f[n \in 0..Len(items)] ==
            IF n = 0 THEN <<>>
            ELSE IF items[n] \in keep THEN Append(f[n - 1], items[n]) ELSE f[n - 1]
    IN  f[Len(items)]

SetWatchData(new) ==
    /\ generation' = generation + 1
    /\ recent' = Retained(recent, DOMAIN new)
    /\ data' = new
    /\ toScan' = <<>>
    /\ perInterval' = 0
    /\ round' = 0

BuildReads(c) ==
    /\ context /\ ~Disposed /\ ~Building
    /\ generation < MaxPublished
    /\ \E files \in SUBSET Paths \ {{}} : snapshot' = [snapshot EXCEPT ![c] = [p \in files |-> disk[p]]]
    /\ UNCHANGED <<disk, data, generation, scanVars, shouldStop, context, handle, at, scan, stopping>>

BuildPublishes(c) ==
    /\ snapshot[c] # <<>>
    /\ SetWatchData(snapshot[c])
    /\ snapshot' = [snapshot EXCEPT ![c] = <<>>]
    /\ UNCHANGED <<disk, shouldStop, context, handle, at, scan, stopping>>

\* The last reference outside the worker goes away.
DropContext ==
    /\ context
    /\ \A c \in Callers : snapshot[c] = <<>> /\ stopping[c] \in {"idle", "joined", "returned"}
    /\ context' = FALSE
    /\ UNCHANGED <<disk, data, generation, scanVars, shouldStop, handle, at, scan, stopping, snapshot>>

Edit(p) ==
    /\ disk[p] < MaxVersion
    /\ disk' = [disk EXCEPT ![p] = @ + 1]
    /\ UNCHANGED <<data, generation, scanVars, shouldStop, context, handle, at, scan, stopping, snapshot>>

(***************************************************************************)
(* The worker loop.                                                        *)
(***************************************************************************)
ToWorker(next) == at' = next /\ UNCHANGED <<disk, shouldStop, context, handle, stopping>>

\* The loop begins by upgrading its weak reference to the watcher.
Loop == IF context THEN "wait" ELSE "done"

\* Both waits end early when the watcher is stopped: the interval and the delay.
WaitEnds(here, next) ==
    /\ at = here
    /\ ToWorker(IF shouldStop THEN "done" ELSE next)
    /\ UNCHANGED <<data, generation, scanVars, scan, snapshot>>

IntervalEnds == WaitEnds("wait", "scan")
DelayEnds == WaitEnds("delay", "rebuild")

\* scan_candidates: the recent paths, then the end of the shuffled list, which is
\* filled again when it is used up.
Orders == {o \in [1..Cardinality(DOMAIN data) -> DOMAIN data] : ToSet(o) = DOMAIN data}

Candidate(p, wasRecent) == [path |-> p, seen |-> data[p], wasRecent |-> wasRecent]

TakeCandidates(items, perRound) ==
    LET first == Larger(Len(items) - perRound, 0)
    IN  /\ toScan' = SubSeq(items, 1, first)
        /\ perInterval' = perRound
        /\ scan' = [generation |-> generation,
                    candidates |-> [i \in DOMAIN recent |-> Candidate(recent[i], TRUE)]
                        \o [i \in 1..(Len(items) - first) |-> Candidate(items[first + i], FALSE)]]

\* Mutant: the list is filled only for new data, not when it is used up.
ScanCandidates_Once ==
    /\ at = "scan"
    /\ \/ /\ toScan = <<>> /\ round = 0
          /\ \E items \in Orders :
                TakeCandidates(items, Larger(CeilDiv(Len(items), MaxIntervals), MinPerInterval))
          /\ round' = 1
       \/ /\ toScan # <<>> \/ round > 0
          /\ TakeCandidates(toScan, perInterval)
          /\ round' = 1
    /\ ToWorker("call")
    /\ UNCHANGED <<data, generation, recent, snapshot>>

ScanCandidates ==
    /\ at = "scan"
    /\ \/ /\ toScan = <<>>
          /\ \E items \in Orders :
                TakeCandidates(items, Larger(CeilDiv(Len(items), MaxIntervals), MinPerInterval))
          /\ round' = 1
       \/ /\ toScan # <<>>
          /\ TakeCandidates(toScan, perInterval)
          /\ round' = round + 1
    /\ ToWorker("call")
    /\ UNCHANGED <<data, generation, recent, snapshot>>

\* A round ends when no candidate is left.
ScanEnds ==
    /\ at = "call"
    /\ scan.candidates = <<>>
    /\ scan' = NoScan
    /\ ToWorker(Loop)
    /\ UNCHANGED <<data, generation, scanVars, snapshot>>

\* The callback runs with no lock held: it compares the disk with what it remembers.
CallCallback ==
    /\ at = "call"
    /\ scan.candidates # <<>>
    /\ LET c == Head(scan.candidates)
       IN  ToWorker(IF disk[c.path] = c.seen THEN "clean" ELSE "dirty")
    /\ UNCHANGED <<data, generation, scanVars, scan, snapshot>>

\* generation_is_current: a scan of data that was replaced is given up.
Recheck ==
    /\ at \in {"clean", "dirty"}
    /\ \/ /\ scan.generation # generation
          /\ ToWorker(Loop) /\ scan' = NoScan
       \/ /\ scan.generation = generation /\ at = "clean"
          /\ ToWorker("call") /\ scan' = [scan EXCEPT !.candidates = Tail(@)]
       \/ /\ scan.generation = generation /\ at = "dirty"
          /\ ToWorker("record") /\ scan' = scan
    /\ UNCHANGED <<data, generation, scanVars, snapshot>>

\* record_dirty: the path becomes the most recent one, the oldest gives way.
Renewed(c) ==
    LET others == IF c.wasRecent /\ c.path \in ToSet(recent)
                  THEN RemoveAt(recent, SelectInSeq(recent, LAMBDA p : p = c.path))
                  ELSE recent
        longer == Append(others, c.path)
    IN  IF Len(longer) > MaxRecent THEN Tail(longer) ELSE longer

\* Mutant: the data are taken to be those of the scan.
RecordDirty_Unchecked ==
    /\ at = "record"
    /\ recent' = Renewed(Head(scan.candidates))
    /\ ToWorker("delay")
    /\ scan' = NoScan
    /\ UNCHANGED <<data, generation, toScan, perInterval, round, snapshot>>

RecordDirty ==
    /\ at = "record"
    /\ LET c == Head(scan.candidates)
           current == scan.generation = generation /\ c.path \in DOMAIN data /\ data[c.path] = c.seen
       IN  \/ /\ current
              /\ recent' = Renewed(c)
              /\ ToWorker("delay")
           \/ /\ ~current
              /\ recent' = recent
              /\ ToWorker(Loop)
    /\ scan' = NoScan
    /\ UNCHANGED <<data, generation, toScan, perInterval, round, snapshot>>

\* The rebuild callback: a build that publishes what it read, or joins the build of
\* a caller, or returns at once because the context is disposed or gone.  A panic in
\* the build ends the worker's thread.
RebuildReads ==
    /\ at = "rebuild"
    /\ context /\ ~Disposed /\ ~Building
    /\ \E files \in SUBSET Paths \ {{}} :
          snapshot' = [snapshot EXCEPT ![Worker] = [p \in files |-> disk[p]]]
    /\ ToWorker("publish")
    /\ UNCHANGED <<data, generation, scanVars, scan>>

RebuildPublishes ==
    /\ at = "publish"
    /\ SetWatchData(snapshot[Worker])
    /\ snapshot' = [snapshot EXCEPT ![Worker] = <<>>]
    /\ ToWorker(Loop)
    /\ UNCHANGED scan

RebuildPanics ==
    /\ at = "publish"
    /\ snapshot' = [snapshot EXCEPT ![Worker] = <<>>]
    /\ ToWorker("done")
    /\ UNCHANGED <<data, generation, scanVars, scan>>

RebuildJoins ==
    /\ at = "rebuild"
    /\ context /\ ~Disposed /\ Building
    /\ ToWorker("joined")
    /\ UNCHANGED <<data, generation, scanVars, scan, snapshot>>

RebuildJoined ==
    /\ at = "joined"
    /\ ~Building
    /\ ToWorker(Loop)
    /\ UNCHANGED <<data, generation, scanVars, scan, snapshot>>

RebuildRefused ==
    /\ at = "rebuild"
    /\ ~context \/ Disposed
    /\ stopping[Worker] \in {"idle", "returned"}
    /\ ToWorker(Loop)
    /\ UNCHANGED <<data, generation, scanVars, scan, snapshot>>

WorkerStep ==
    \/ IntervalEnds \/ ScanCandidates \/ ScanEnds \/ CallCallback \/ Recheck \/ RecordDirty
    \/ DelayEnds \/ RebuildReads \/ RebuildPublishes \/ RebuildPanics
    \/ RebuildJoins \/ RebuildJoined \/ RebuildRefused

Next ==
    \/ WorkerStep
    \/ \E a \in Actors : Dispose(a) \/ StopFlag(a) \/ StopTake(a) \/ StopJoin(a)
    \/ DropContext
    \/ \E c \in Callers : Start(c) \/ BuildReads(c) \/ BuildPublishes(c)
    \/ \E p \in Paths : Edit(p)

\* Threads that hold no lock and wait for nobody run on: the worker, a thread that
\* is inside stop, a build that has begun.  Edits, starts and stops need not happen.
Fairness ==
    /\ WF_vars(WorkerStep)
    /\ \A a \in Actors : WF_vars(StopFlag(a) \/ StopTake(a) \/ StopJoin(a))
    /\ \A c \in Callers : WF_vars(BuildPublishes(c))

Spec == Init /\ [][Next]_vars /\ Fairness

-----------------------------------------------------------------------------
Versions == 0..MaxVersion
WatchData == UNION {[files -> Versions] : files \in SUBSET Paths}

TypeOK ==
    /\ disk \in [Paths -> Versions]
    /\ data \in WatchData
    /\ generation \in Nat
    /\ ToSet(recent) \subseteq DOMAIN data /\ Len(recent) <= MaxRecent
    /\ ToSet(toScan) \subseteq DOMAIN data
    /\ perInterval \in Nat
    /\ {shouldStop, context, handle} \subseteq BOOLEAN
    /\ at \in {"none", "wait", "scan", "call", "clean", "dirty", "record", "delay",
               "rebuild", "publish", "joined", "done"}
    /\ scan.generation <= generation
    /\ stopping \in [Actors -> {"idle", "disposed", "take", "join", "joined", "returned"}]
    /\ \A a \in Actors : snapshot[a] \in WatchData

\* A thread that has joined the worker in stop finds it gone for good, and once a
\* stop has returned no worker is left that nobody joins, unless the worker
\* stopped itself: start and stop race for the handle (watcher.rs, start and stop).
StopIsFinal ==
    /\ \A a \in Callers : stopping[a] = "joined" => WorkerGone
    /\ (\E a \in Actors : stopping[a] \in {"joined", "returned"}) =>
          ~handle /\ (WorkerGone \/ stopping[Worker] = "returned" \/ \E a \in Callers : stopping[a] = "join")

\* A scan reports a path only for the watch data in force when it reports it: data
\* replaced while the callbacks ran unlocked never causes a rebuild, and no list keeps
\* a path the data no longer have (set_watch_data, try_to_find_dirty_path, record_dirty).
ReportsAreCurrent ==
    /\ []TypeOK
    /\ [][at' = "delay" /\ at # "delay" =>
             LET c == Head(scan.candidates)
             IN  /\ scan.generation = generation
                 /\ c.path \in DOMAIN data /\ data[c.path] = c.seen
                 /\ recent' # <<>> /\ Last(recent') = c.path]_vars

\* While the watch data stays, the ordinary paths are all checked within
\* MaxIntervals rounds of the worker (scan_candidates).
SweepIsBounded == round <= MaxIntervals /\ (round = MaxIntervals => toScan = <<>>)

\* An edit of a watched file is found by a live worker, which then rebuilds until
\* the watch data match the disk, or is stopped, or is killed by a panic.
Fresh == \A p \in DOMAIN data : data[p] = disk[p]
EditsAreFound == (~WorkerGone /\ ~Fresh) ~> (Fresh \/ shouldStop \/ at = "done")

\* A thread inside stop gets out of it, and a worker whose watcher is stopped or
\* dropped ends: both its waits see the flag, its loop sees the dead reference, and it
\* holds nothing a stopping thread needs.
StopsReturn ==
    /\ \A a \in Actors : (stopping[a] = "disposed") ~> (stopping[a] \in {"joined", "returned"})
    /\ ((shouldStop \/ ~context) /\ at # "none") ~> WorkerGone
=============================================================================
