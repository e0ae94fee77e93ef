# TLA+ models of esbuild-rust

This directory holds TLA+ specifications of esbuild-rust, the TLC
configurations that check them on small instances, and TLAPS proofs of the
properties that matter most. The reference for every definition is the Rust
code; `PROJECT.json` maps each definition to the lines it models.

## 1. The system and its parts

esbuild-rust is a port of the esbuild bundler. A build goes through a pipeline
(resolve, parse, scan, link, print, write), and around that pipeline sits the
machinery that makes it a long-lived service: contexts that rebuild, watch,
cancel and dispose, a stdio protocol that lets another process drive contexts
and plugins, caches that survive from one build to the next, and a file system
layer that records what a build has read.

| part | state it keeps | operations | hard behaviour |
|---|---|---|---|
| Build context (`api/mod.rs`) | disposed, build in flight, latest hashes, watcher | rebuild, watch, cancel, dispose | callers coalesce into one build, cancel and dispose wait for it, panics |
| Watcher (`api/watcher.rs`) | watch data, generation, recent and pending paths, stop flag, worker | set data, start, stop, poll | watch data replaced while a scan of it is under way |
| Service contexts (`service/contexts.rs`) | key to context, phase, creating, admitted operations, rebuild group | create, rebuild, watch, resolve, cancel, dispose, shutdown | disposal against admitted work, cancellation of a group, failed creation |
| Service transport (`service/dispatch.rs`) | pending callbacks, closed flag, job threads, writer | request, response, close, ping, shutdown | close races a request, orphaned callback, drain order |
| Plugin bridge (`service/plugins.rs`) | registry of resolve callbacks by key, slot | activate, deactivate, resolve | a late deactivation meets the next context with the same key |
| Watch results (`service/watch.rs`) | none of its own | whether a build reports its end | the rebuild count is read while rebuilds come and go |
| Caches (`cache/mod.rs`) | file contents by path and mod key, source indices, ASTs | read file, get index, parse | several threads fill the same entry, a file changes while read |
| File system (`fs/`) | directory entries, watch states, open file count | read, stat, watch data, acquire and release a place | a read and a stat of the same file that straddle an edit; a lost wakeup |
| Helpers (`helpers/`) | counters, turns, joined pieces, bit sets | wait group, serializer, joiner, bit set | early release, lost wake-up |
| Resolver (`resolver/`) | directory infos, tsconfig cache | resolve import, package exports | condition order, pattern priority |
| Bundler scan (`bundler/mod.rs`) | pending files, queued set, source indices | scan, parse, retarget records, find awaits | cancellation between files, files queued once, records changed after the scan, numbers left by earlier builds |
| Linker (`linker/mod.rs`) | graph, imports to bind, chunks, sheets | wrap, bind imports, order sheets, tree-shake, split, name chunks | circles in imports, re-exports, sheets and chunks; order |
| Source maps (`sourcemap/`) | mapping state | VLQ, find, append chunks | deltas across joined chunks |
| Renamer (`renamer/`) | scopes' names, slots | assign names, minify slots | collision across nested scopes |
| Log (`logger/`) | messages, error flag | add, done, limits | order of messages |
| Parsers, lexers and printers | AST | parse, visit, lower, print | syntax, sequential |

How they interact: the stdio service admits a request in the order it arrives,
runs it on a thread of its own, and forwards build requests to a service
context, which owns a native build context. A native build runs plugin
callbacks through the plugin bridge, which sends requests to the other process
over the same transport. In watch mode the watcher's worker calls rebuild on
the native context like any other caller. Inside a build the scan turns the
entry point into a set of files with import records, which the linker only
indexes: what it may rely on (targets that exist, no record of a kind its file
cannot have) is the interface between the two.

## 2. Modules

Every module is parameterised by CONSTANTS with a named ASSUME where a proof or
a definition needs one. An action is one critical section, or one stretch of
code no other thread can observe in part; its comment or `PROJECT.json` names
the code. Definitions named `X_Something` are faulty variants of `X`: replacing
`X` by one of them must break the property `PROJECT.json` lists with it, which
shows that the property says something about the code.

| module | models | composed with |
|---|---|---|
| `BuildContext` | `api/mod.rs`, `BuildContext` and its threads | implements `CoalescedBuilds` |
| `CoalescedBuilds` | the abstract build service | |
| `Watcher` | `api/watcher.rs` | |
| `ServiceContexts` | `service/contexts.rs`, `watch.rs`, admission in `dispatch.rs` | a native context reduced to its flight |
| `ServiceTransport` | `service/dispatch.rs` | contexts reduced to "there is one" |
| `WatchedFiles`, `WatchedDirectory` | `cache/mod.rs`, `fs/real.rs`, `fs/mod.rs` | both in `WatchData` |
| `OpenFiles` | the limit on open files, `fs/mod.rs` | in `WatchData` |
| `SourceFiles` | what scan and linker read of a parsed file | |
| `ScanGraph` | `scan_bundle` and what the linker is given, `bundler/mod.rs` | extends `SourceFiles` |
| `TopLevelAwait` | `validate_top_level_await`, `bundler/mod.rs` | extends `ScanGraph`; their composition is `BundleSpec` |
| `ModuleWrappers` | wrappers and dynamic exports, `linker/mod.rs` | continues `TopLevelAwait` |
| `ExportResolution` | export stars and the binding of imports | continues `ModuleWrappers` |
| `CssOrder` | order of style sheets | continues `ExportResolution` |
| `Renaming` | names of symbols, `renamer/mod.rs` | continues `CssOrder` |
| `Bundle` | a build from its scan to its names | composes the six above |
| `TreeShaking` | the two graph walks of `linker/mod.rs` | extended by `ChunkLinks` |
| `ChunkLinks` | chunks and the imports between them | extended by `PartOrder` |
| `PartOrder` | order of the parts of a chunk | extended by `Chunks` |
| `Chunks` | names of chunks; composes the four | |

`MC...` modules hold the small instances, `..._proofs` the theorems.

### Build context

`BuildContext` models `BuildContext` of `api/mod.rs` together with the threads
that watch mode adds. An actor is a client thread, the watcher's worker or the
initial build thread; `pc` says where it is and `mine` which flight
(`InFlightBuild`) it holds.

| code | actions |
|---|---|
| `rebuild_with` | `RebuildDisposed`, `RebuildJoin`, `RebuildStart`, `Joined`, `Finish`, `Panic` |
| closure of `rebuild` | `Capture`, `OnStart`, `ReturnErrors`, `ScanCanceled`, `Scan`, `Compile`, `WriteOutputs`, `PublishWatchData`, `StoreHashes`, `DropLocals` |
| `cancel_with` | `CancelNothing`, `CancelCapture`, `CancelFlag`, `CancelReturn` |
| `watch_with_status` | `WatchRefused`, `WatchEnable`, `WatchStart`, `InitialWait` |
| `worker_loop` | `WorkerFindsDirty`, `WorkerDelayed`, `WorkerStops` |
| `dispose_with` | `DisposeAgain`, `DisposeBegin`, `StopWatcher`, `JoinWorker`, `DisposeWait`, `Cleanup` |

The program under build is one source file with a version. A build that is not
canceled, of a version without a syntax error (`Broken` has those with one),
emits one output file named after the version it read (as a content hash in
the name does), so the output directory is a set of versions, and `latest`
(`latest_hashes`) is the set of output files the context believes it has
written. A flight's identity is reused once nobody refers to it, as its `Arc`
is freed, so the model needs no bound on the number of builds.

`Faults` says what may fail inside a build. A removal that fails is ignored and
its file forgotten (`api/mod.rs:2151`); a write that fails is reported, but the
file is tracked like the others (2157-2197). When `onStart` reports an error the
build returns before it reads, writes or removes anything (3751-3758):
`ReturnErrors` leaves the directory alone, and then the empty result replaces
the tracked hashes (1601) and the watch data (1594) all the same. So the old
files stay for good, unless a build writes them again, whereas a syntax error
removes them, as the test at `api/mod.rs:6327` wants. Two history variables
remember what failures did: `stray`, the files that were left behind, and
`unwritten`, the tracked files that are missing. The context modelled writes to
a directory (`write` is set, output does not go to stdout) that holds no input
file.

`CoalescedBuilds` is the abstract specification: callers ask for builds, builds
follow one another, a caller is answered by a build that was running when it
asked, and none begins once the service is closed. `BuildContext` implements it
(`ImplementsCoalescedBuilds`), liveness included.

### Watcher

`Watcher` follows `api/watcher.rs` at the grain of its critical sections:
`SetWatchData`, `Start`, `StopFlag`/`StopTake`/`StopJoin` (the two locked parts
of `stop` and the join), and for the worker `IntervalEnds`, `ScanCandidates`,
`CallCallback` (no lock held), `Recheck`, `RecordDirty`, `ScanEnds`,
`DelayEnds` and the rebuild. A callback is what it remembers, the version of
the file it was made for. Time is abstract: the interval and the delay end when
they like, or when the watcher is stopped. The shuffle is any order.

### Service contexts

`ServiceContexts` models the registry of build keys in `service/contexts.rs`.
The reader admits requests in order (`Read...`), each then runs on a worker
(`Worker`); after EOF the main thread disposes of what is left (`Shutdown`).
The counters `admitted` and `count` are sets of workers. `Create...` covers a
creation that completes, fails, or meets a dispose request while in progress;
`Dispose`, `AwaitDisposed`, `Drain`, `NativeDispose`, `Settle`, `Remove` are the
steps of the disposal barrier. A native context is reduced to its flight
(`Flight`: on start, build, on end, finish), joined by every caller that comes
before it finishes, as `BuildContext` shows. Identities of contexts and of
rebuild groups are used again once nobody refers to them; an action that needs
a new one would wait if none were left, which never happens in the runs.

### Service transport

`ServiceTransport` is the pipe itself: reader (`Read...`, then `CloseOrder`,
`CloseLocks`, `Close`, `JoinPinger`, `JoinJobs`, `Shutdown`, `DropService`,
`JoinWriter`), writer (`Write`, `WriteFails`, `WriterEnds`), job threads, the
pinger and background builds. `send_request` takes two mutexes, which are
modelled with their order. The host may answer in any order, answer twice
(`HostRepeats`; after the first unexpected answer the reader stops) or hang up.

### Watch data

`WatchedFiles` follows one file: `FsCache::read_file` in its steps (look up,
stat, read, insert) run by several threads, the watch states
`mod_key`/`read_file`/`watch_data` of `fs/real.rs` move a file through, and the
callback made from them. Time is counted in ticks, so that two edits in one
tick have one modification key. `WatchedDirectory` follows one directory and
the accessed entries the watcher compares; the readers share a file system
because `resolve()` calls of plugins run on other threads than the build.
`OpenFiles` is the limit on open files: `BeforeFileOpen` waits on a condition variable
while the count is at the limit, `AfterFileClose` notifies one waiter; a woken thread
(`Woken`) competes with those that arrive. `WatchData` puts the three together:
what is under test is a path of the map, a file or a directory, or the limit.

### Scan, imports and exports

`SourceFiles` has the statements of a file that import or export and what the
parser derives from them. `ScanGraph` chooses what a file holds when the scan
reads it, from what its corpus allows, and so goes through every program of a
corpus. `ScanFile` is one turn of the queue in `scan_bundle`;
`FinalizeImportRecords` gives records their final targets (the JavaScript side
of a style sheet, the main file of a package that someone requires); a link
begins only if nothing was reported (`StartLinking`), with the walk of
`find_reachable_files`, whose calls are the stack `visiting` (`VisitFile`,
`LeaveFile`). The source index cache keeps the numbers of earlier builds, so
numbers need not follow the order of the scan. The constant `Main` is what the
resolver says of packages.

`TopLevelAwait` is `validate_top_level_await`, which marks the files that wait
for a top-level await. `calls` is the stack of its recursive `visit`: a file,
and the record the loop is at. A file is marked when it is entered (`VisitFirst`
from the loop over all files, `VisitTarget` from a record); `FollowImport` is
what the loop does with a record once its target has been visited, `Return` the
end of a call. A forbidden `require` starts the search for the await that the
error tells of (`FindAwait`), which follows the parents from `culprit`.

`ModuleWrappers` is `classify_module_wrappers` with the propagation of wrappers
and of dynamic exports; `ExportResolution` is `resolve_export_stars`,
`match_import_with_export` with its steps (`AdvanceImportTracker`), its cycle
detector and its ambiguities, and the aliases a file exports in the end.

### Style sheets

`CssOrder` takes the sheets behind an entry point, visits every `@import` of
every sheet (`FindFilesInCssOrder`) and applies `optimize_css_import_order`. A sheet is
printed where its last import is; of the others only cascade layers are left.
The reference is the cascade itself: of every pair of rules, which one wins
under which query, from layers in the order of their first declaration.

### Names

`Renaming` is `rename_symbols_in_chunk`: reserved names, the number renamer
(the original name, with a number where it is taken) and the minifying one
(slots for nested scopes, names by slot). The reference looks a name up the way
the language does, from a use outwards through its scopes.

### Tree shaking and chunks

`TreeShaking` takes a scanned graph, an input from the constant `Graphs`, and
runs `tree_shaking_and_code_splitting`. The recursive functions are modelled by
their call stack: `stack` and `walk` hold the calls and loop iterations still
to run. One action runs the next call with its early return (`MarkFileLive`,
`MarkPartLive`, `ScanOnePart`, `FollowOneRecord`, then `MarkFileReachable`,
`ReachOneRecord`, `ReachOnePart`, `ReachOneUse`). A part is what the walks read
of it: whether it can be removed, its import records and the parts it depends
on.

`ChunkLinks` continues with `compute_chunks` and
`compute_cross_chunk_dependencies`. A chunk is named by its entry bits, the key
of the code's map. A part declares one symbol and uses those of the parts it
depends on. `Linked` says what the earlier steps of the linker add to a scanned
graph: the part that keeps an entry point's public symbols
(`create_entry_point_part`).

`PartOrder` is `find_imported_parts_in_js_order`, which `compute_chunks` calls
for every chunk. `calls` is the call stack of `visit`: a file, and the part its
loop is at. A chunk starts with the runtime (`StartChunk`) and goes on with its
files, the nearest to an entry point first (`VisitNearest`). A part first visits
what it imports (`VisitImport`) and is then appended to `parts` or, if it is the
runtime's, to `prefix` (`VisitPart`); a file with a wrapper goes to `prefix` in
one piece when its visit ends (`LeaveFile`). `FinishChunk` joins the two lists.

`Chunks` is `finalize_chunk_paths`, which names a chunk by a hash of its contents
and of all chunks it can load. `appending` is the call stack of
`FinalHashTraversal::append`, `marks` its array of marks, which the traversals
of all chunks share, and `digest` the chunks whose isolated hash it was given.
`ChunksSpec` composes the four modules in the order of the code. Chunks of CSS
are left out.

## 3. What the runs check

Bounds are chosen so that each scenario named below occurs; for every property
there is a faulty variant of the code that the run rejects.

| run | instance | shows |
|---|---|---|
| `context_safety` | two clients, all methods, two edits, the first with a syntax error, all faults | `OneBuild`, `QuietAfterDispose`, `CancelHitsItsFlight`, `OutputsTracked` |
| `context_live` | one client rebuilds and cancels, another watches, both dispose; the same edits; faults except failed writes | `CallsReturn`, `WatchCatchesUp`, and `CoalescedBuilds` is implemented |
| `context_canceled_watch` | one client | finding 1 |
| `service_safety` | one key, four contexts, four workers, seven requests | the disposal barrier, key reuse, rebuild groups and cancellation |
| `service_live` | one key, three workers, five requests | every request is answered, shutdown disposes of all |
| `service_report`, `service_logged` | two workers, four requests | findings 2 and 3 |
| `watcher` | two paths, two threads, one recent path | stops are final and return, reports are current, edits are found |
| `transport` | one job, pinger, background build, two callback ids, three calls | nobody is orphaned or misanswered, responses are drained, the service ends |
| `watch_data` | two threads, five ticks, three versions; three names; four threads and two places | the cache is fresh, changes are seen, no alarm is false, no wakeup is lost |
| `linker` | graphs of an entry point, two more files, a CSS file and the runtime | what is kept, where it goes, in which order, what chunks import and how they are named |
| `bundle` | all programs of six corpora of up to four files | the linker's input is sound, imports bind, sheets cascade and names resolve as the languages say |

Why these are enough. In a build context every thread is a client, the worker
or the initial thread; clients are alike, two make every pair of methods meet,
and the proofs cover more. Two edits with a syntax error between them make
`OutputsTracked` meet builds with and without output in any order, and a file
that is left behind and written again; its trouble is a build between another's
reading and writing of the hashes. In `context_live` three threads rebuild (a
client, the worker and the initial thread), so that a caller can wait for a
build that panics, watch mode can begin during a build that knows nothing of
it, and a client can dispose while others build or wait. One key is enough for
`ServiceContexts`, since keys share only the registry's mutex; four context
identities let a key be reused while older contexts are still being disposed
of. Two callback ids and three calls make ids wrap. With a gap of two and five
ticks a file can be written twice within a tick, grow old enough for a key and
be written again within one build. In the linker three linked files make every
circle and diamond that the two walks treat differently, and the runtime, which
wrapped files use, adds a fourth link to a chain, so that a first way to a file
need not be the shortest. The first file imports the second in every way and
the third statically or dynamically, and so on; the
third file imports at most one other. The family is in `MCChunks`.

The corpora of `bundle` (`MCBundle`) each aim at one part of a build:

 - `scan`: every kind of file (script, sheet, copied, JSON, empty, broken)
   wherever a file can be named, and a package with a `module` and a `main` file.
 - `await`: circles of imports and calls of `require` around a file that awaits,
   with files numbered in three ways by earlier builds.
 - `wrap`: every mixture of the two module systems over three files, with
   `require`, dynamic imports, stars, external modules, and three formats.
 - `exports`: three ES modules of up to two statements that export, rename,
   re-export and star each other. Three files have every circle of re-exports and
   stars, and two statements let a name come from two sides.
 - `styles`: three sheets that import each other twice, in layers and under a
   query, with layers declared before and after their imports.
 - `names`: two files and nested scopes that call their symbols alike, with names
   that look numbered already, wrapped and not, minified and not. `MaxTries`
   bounds the numbers put behind a name; TLC would stop if none up to it were free.

`B` and `C` play the same part wherever they occur, hence the symmetry. In four
threads on two places two threads can wait while two are in a read, which is
what a lost wakeup needs; the theorem covers every other number.

What properties leave out, by name:
 - `OutputsTracked` accounts for the directory up to `stray` and `unwritten`:
   failures do break the plain equality of directory and tracked hashes, in the
   code as in the model. What it says is that nothing else does, and that the
   two do not overlap: a file left behind is not tracked.
 - `WatchCatchesUp` assumes (`Undisturbed`) that no cancellation found a build to
   flag and that no build that captured the watcher failed in `onStart` or
   panicked. A cancellation in `onStart` (finding 1) and an error of `onStart`
   both install watch data that name no source file; a panic ends the worker or
   the initial thread. Builds of other callers before watch mode may fail in
   any way. It allows for files that could not be removed; a failed write is
   outside its run, for nothing retries it before the next edit.
 - `AnswersMatchCalls` holds until callback ids wrap around (2^31 calls). Then
   an id in use is overwritten and its caller gets an error; `ServiceEnds`
   holds after that too.
 - `ChangesAreSeen` is for files read once by a build. A file read past the cache
   (`directs`) gets its key when the build ends, so an edit made before then and
   older than the safety gap is not seen (`Quick`); a file deleted or created
   around a read may be taken to have been missing all along (`torn`). Of
   directories it leaves out two threads that read one before either has cached
   it (`Raced`).
 - `NoAlarmIsFalse` leaves out a file read both through and past the cache, and
   names that differ in case only (`Collide`).
 - `PartsArePrintedInOrder` is about one chunk. Across chunks the order of
   execution follows the chunks' keys (`linker/mod.rs:5499`). Of two files that
   import each other in a circle it says nothing: one of them has to come first.
   The circle may close by a dynamic import, which `visit` follows as well.
 - `AwaitsAreFound` speaks of files below which no circle lies (`BelowNoCircle`).
   In a circle, whether a `require` of an await is found depends on the numbers
   of the files, which an earlier build may have given.
 - `ImportsBindAsTheLanguageSays` leaves out one variable exported under two
   aliases that an import reaches through two stars (`OneNamePerVariable`): the
   linker reports it as ambiguous, as a test of the repository expects. It also
   leaves out a search that comes back to its own name in a circle of stars.
 - `PrintedCascadeIsTheSame` leaves out sheets that `MistakesALayer` describes:
   a layer declared inside a layer passes for declared because the same name was
   declared outside of it, and the optimisation drops its declaration. For
   `@import "a.css"; @import "b.css" layer(theme); @import "c.css" layer(base);
   @import "b.css" layer(theme)` the printed layers come in another order than the
   imported ones, which the comment at `linker/mod.rs:4509` rules out.
 - `EditsAreFound` ends with the worker: a panic inside a rebuild kills it.

The runs of the service, the watcher, the transport, the watch data, the
linker and the bundle switch off TLC's deadlock check: there the program, or a
bounded environment, really stops. `BuildContext` is checked for deadlock.

### Fairness

`BuildContext`: weak fairness of each thread's steps inside a method, of the
worker and of the initial thread. The operating system schedules threads that
can run; condition variables are notified with `notify_all` under the mutex, so
a waiter that may continue stays able to. No fairness is assumed of calling a
method, of editing, or of panics. `ServiceContexts`: the workers, flights and
the shutdown, for the same reason; none of the host's requests.
`ServiceTransport`: all threads of the service and the host's answers while it
is up, since a host that never answers and never closes may block a call for
ever; the host need not close. `Watcher`: the worker, and threads inside `stop`
and at the end of a build; starting, disposing and editing are free.

### Findings

1. `context_canceled_watch`. The test `canceled_watch_build_retains_watch_data_and_later_edits_rebuild`
   holds where the test cancels, after the entry point was read. A cancellation
   while `onStart` callbacks run leaves the build without having read anything,
   and its empty watch data replace the good ones. (An error reported by an
   `onStart` callback has the same effect; no test or comment speaks of that.)
2. `service_report`. A comment in `service/watch.rs` says that manual rebuilds
   always get a result; one that joins an automatic build after its `onEnd`
   check does not.
3. `service_logged`. Another says that automatic builds print their diagnostics
   in `onEnd`; one that ends while a manual rebuild is admitted but has not
   begun does not, and nobody else does.

## 4. What is proved

The theorems hold for every value of the constants that satisfies the named
assumptions. An argument goes the same way everywhere: the property is not
inductive, so an invariant adds what each thread (or each pending call) knows at
each of its steps; the initial states have it, every action keeps it, and it
implies the property. Each assumption is checked by TLC on the instance of the
run, and every theorem with a property in `PROJECT.json` states what a run checks.

`BuildContext_proofs`, for any number of clients, flights and edits:
 - `TypeCorrect`: `Spec => []TypeOK`, from `Shape`, which adds which flight a
   thread holds at which step and that a flight in progress has been started.
 - `BuildsNeverOverlap`: `Spec => []OneBuild`. `OneBuild` is not inductive: a
   thread may start a build only when `active` is empty, so the invariant
   (`Builder`) says that whoever builds owns the active flight, and that the
   active flight is unfinished.
 - `DisposeLeavesQuiet`: `Spec => []QuietAfterDispose`. The invariant
   (`Disposer`) follows a disposing client step by step: disposed is set, so no
   flight starts; the watcher is stopped, so its worker ends or never begins;
   the captured flight has finished.
 - `OutputsStayTracked`: `Spec => []OutputsTracked`, whatever canceled builds,
   panics, errors of `onStart` and failed removals and writes there were. Until
   it writes, the builder finds the directory as the tracked hashes account for
   it and has these in its locals; afterwards its own outputs account for the
   directory until they are tracked (`Accounts`, `Outputs`); after an error of
   `onStart` these are none, and all that is there counts as left behind.
   `StepsOfBuilds` shows that no other thread interferes.
 - `CancelsHitTheirFlight`: `Spec => []CancelHitsItsFlight`. It is inductive given
   `Builder`: the call that flagged the active flight still waits, since that
   flight has no outcome, and a flight that becomes active has its flag cleared,
   whoever used its identity before.
 - `BuildsAreCoalesced`: every step of `BuildContext` is a step of
   `CoalescedBuilds` or a stutter, the safety part of the refinement. Its
   liveness part stays with TLC.

`ServiceContexts_proofs`, for any number of keys, contexts and request threads:
 - `RegistryStaysConsistent`, `OperationsKeepTheNative`, `DisposalIsABarrier`,
   `CancelsReachFlights`, `CancelsCoverAdmitted`. What keeps a context in use is
   split among those who work on it, and that is what the invariant states:
   `Held` (operations keep the native context), `Creators` and `Cleaners` (at
   most one of each), `Ended` (what is true once it is disposed), `GroupsMatch`
   and `Covered` (the rebuilds a cancel has to outlast are members of the group
   it covers, which cannot be reused while the cancel refers to it).
   `CancelReachesFlights` becomes inductive together with these.

`ServiceTransport_proofs`, for any number of jobs and calls and any space of ids:
 - `TypeCorrect`: types, packets included.
 - `RequestsServed`: `Spec => []RequestsAreServed`. `SentOnce` and `AnsweredOnce`
   follow a request and its response through the pipe, the queue of the writer
   and the host; `Ending` says what the shutdown has already joined.
 - `AnswersReachTheirCallers`: `Spec => []AnswersMatchCalls`. A counting
   argument: the ids drawn and the calls that have not drawn theirs never
   outnumber the calls (`Room`), so that as long as ids do not wrap each is
   drawn once (`Drawn`), and whatever travels under an id is that call's
   (`Traffic`, `Replies`).

`Watcher_proofs`, for any number of paths, callers and versions:
 - `StopsAreFinal`: `Spec => []StopIsFinal`, by `StopInv`: a thread past its
   flag finds the watcher stopped, one past taking the handle finds it taken,
   and a worker without a handle has ended or is being joined by someone.
 - `SweepsAreBounded`: the ordinary paths are all checked within `MaxIntervals`
   rounds while the watch data stay. The invariant bounds what is left by what
   the remaining rounds can take; `CeilDivCovers` is why rounding up suffices.
 - `ReportsStayCurrent`: the action property `ReportsAreCurrent`. `retain` is a
   recursive function over the list, so `RetainedIs` finds what it keeps by
   induction over the length, done with sets of numbers (`NatSets`).

`WatchData_proofs`, for any threads, names, folding of names, safety gap and
limit:
 - `CacheStaysFresh`: `Spec => []CacheIsFresh`. A usable key seals its version: a
   file that still has the key still has the version, because the tick of the
   key was over when the key was taken (`Seals`). The invariant says so of every
   usable key, the cache's and those of calls under way (`FreshCall`), and that
   what a call has read so far is from its own time.
 - `PathTypes`, `ChangesGetSeen`, `AlarmsAreTrue`: the composition keeps its
   types, and reports every change (`ChangesAreSeen`) and nothing else
   (`NoAlarmIsFalse`). For a file the invariant relates the recorded state to
   what the build's one read returned; for a directory (`AnswersAreTrue`) the
   answers given to the names that were listed. The directory needs
   `NobodyAssumption`, that "no table" is no table's name.
 - `OpenFilesAreLimited`: `OpenSpec => []PlacesAreHandedOn`. At most the limit is
   open, and no thread sleeps while a place is free for it. The second is not
   inductive: a released place may be taken by a thread that just arrives, before
   the woken one gets it. The invariant (`NoWakeupIsLost`) counts places and
   threads: while someone waits, the open files and the woken threads together
   make up the limit. It needs the set of threads to be finite, and nothing
   else of it.
 - `PartsStayRight`: what is proved of files and of open files alone holds of
   `WatchData`, whose steps are theirs.

`TreeShaking_proofs`, for every well-formed scanned graph (`GraphAssumption`):
 - `ShakeTypeCorrect`: the pending calls of both walks name what exists.
 - `NothingNeededIsShaken`: after the first walk the marked files and parts hold
   the entry points and all that they need (`LiveIsClosed`). The invariant
   (`ServedInv`) says of every marked file and part that each of its needs is
   marked or that the call that will mark it is on the stack; a call leaves the
   stack only when it has done its work (`Progress`).
 - `NothingIsKeptInVain`: whatever holds all that is needed holds what was marked,
   at every step (`LiveIsNeeded`). Its invariant adds that every pending call
   asks for something needed.
 - `WhatIsKeptIsNeeded`: `Spec => []LiveIsExact`. By the two before, the walk
   computes the least set that holds all that is needed. The property defines
   that set by iteration; the proof shows that the iteration grows with each
   step or stops for good (`Saturation`), so that it is complete after as many
   steps as there are files and parts.
 - `WhatIsKeptIsReached`: every kept file has an entry bit when the second walk is
   over (`EveryLiveFileIsReached`). The second walk follows other edges than the
   first: all records but the dynamic entry points, the dependencies of all parts
   but those into the same file. The proof takes the kept files that have a bit,
   shows that with their kept parts they hold all that is needed, and concludes
   with `NothingIsKeptInVain` that no kept file lacks one.
 - `BitsAndDistancesAreExact`: `Spec => []EntryBitsAreReachability`, by three
   invariants. `EnteredInv` says that nothing is missed: whoever has a bit, or a
   distance below k, owes that bit, or a distance of k at most, to every file it
   leads to, and has paid it or has the call that will on the stack. The early
   return is sound because a call that finds a file settled asks for nothing new.
   `SoundInv` says that nothing is made up: a bit and a distance come with a way
   of that length; it is stated for all families of sets that are closed as the
   files within d steps are. `BoundedInv` says that distances never wrap: a call
   at distance d has d files of smaller distance behind it, so d is at most the
   number of files, which the assumption keeps below `u32::MAX` as source indices
   are themselves `u32`.

`Chunks_proofs`, for every linked graph (`LinkedAssumption`, and
`RuntimeAssumption`: the runtime imports nothing):
 - `CrossChunkLinksHold`: `LinksSpec => []ChunksCanBeLoaded`. The links read only
   what the walks have left (`LinksAreWalks`), so the theorems above apply. A used
   symbol's part is live, because the live parts hold what they depend on, and
   its file has one set of bits: one chunk owns it. A file's bits pass on to
   all files its parts use, so that an import goes only to a chunk of strictly
   more entry points (`ImportsGoUp`); in every set of chunks one of the most entry
   points therefore imports none of the others (`SomeChunkIsFirst`). That is why
   the build does well without `enforce_no_cyclic_chunk_imports`.
 - `PartsAreInOrder`: `ChunksSpec => []PartsArePrintedInOrder`, by `OrderInv`.
   `PartsOK` and `PrefixOK` say which parts the two lists hold while files are
   visited: those of the files left, and of the files on the stack those their
   loop has passed, each once. For the order, each call leads to the calls
   above it (`StackInv`), and what import statements name is visited as soon as
   the loop has passed them (`SeenInv`). So a file that a part's imports lead to
   and that does not lead back is not on the stack, and neither is anything it
   evaluates: all of it has been left (`WhatIsEvaluatedIsLeft`), and what is
   appended later belongs to other files. `DoneInv` keeps this of finished
   lists; a live part is in a live file, whose entry bits are the key of the one
   chunk that may hold it.
 - `NamesTellContentsApart`: `ChunksSpec => []NamesFollowContents`, by `NamesInv`.
   The chunks with the mark of the present traversal are those on its stack and
   those it has hashed (`TraversalInv`): marks of earlier traversals have keys
   that were given out before, and the mark of the start is no key. What is
   hashed imports nothing unmarked, so when the stack is empty the digest is
   closed under imports and has the chunk, hence is all it can load.

These are theorems of the specifications of `TreeShaking`, `ChunkLinks` and
`Chunks`. The run `linker` checks their properties on `ChunksSpec`, whose steps
are steps of `LinksSpec` or leave its variables alone (`ChunksAreLinks`), as those
of `LinksSpec` are to `TreeShaking` (`LinksAreWalks`).

`TopLevelAwait_proofs`, for every corpus of programs (`CorporaAssumption`, which
says what the parser makes of a file and that its paths are those of the
program), any packages (`MainAssumption`) and any numbers that earlier builds
gave out. They are theorems of `BundleSpec`, the part of `Bundle` before the
linker's passes; its steps are one disjunct of `Bundle`'s, and the others begin
only when it has ended, in phase "wrap".
 - `LinkerGetsSoundInput`: `BundleSpec => []LinkerInputIsSound`. `ReadInv` says
   what has been read, `FinalInv` that when nothing was reported every final
   target was read and is of the kind its record needs, `LinkInv` that the walk
   lists only such files and, of a file it has left, all it leads to.
 - `PackagesAreNotDoubled`: `BundleSpec => []OneCopyOfAPackage`. No final target is
   an ES file whose CommonJS file was read (`Shadowed`), so the walk does not meet
   one.
 - `AwaitsAreAllFound`: `BundleSpec => []AwaitsAreFound`. A parent leads to an await
   (`ChecksInv`), which is why an error names one (`ErrorsInv`, `CulpritInv`). That
   nothing is missed rests on the stack: every file on it leads to those above it
   (`CallsInv`), so the target of a record, if no circle lies below the file, is
   not on the stack any more, and what it knows is final (`SettledInv`).

Only model-checked:
 - All liveness, and the liveness part of the refinement: fairness and ENABLED
   are beyond the prover.
 - The linker's passes in `Bundle` (`ModulesAreClassified`,
   `ImportsBindAsTheLanguageSays`, `NamespacesMatchImports`,
   `PrintedCascadeIsTheSame`, `NamesKeepTheirMeaning`): their walks over files,
   sheets and scopes are recursive operators and folds, and what such an operator
   computes for every input needs induction over data.

## 5. Not modelled

Parsers, lexers, printers, lowering, feature tables, and the command line:
sequential translations or tables without state that outlives a call, whose
correctness is about syntax. Formatting and wording of messages. The content
of packets. Memory order: every shared variable is behind a mutex or is an
atomic flag that is only ever raised, and the models read it where the code
does. `PROJECT.json` lists each part with its reason. Of what is modelled:

 - Build context: output to stdout or to memory only, and outputs that lie over
   inputs.
 - Scan: plugins and cancellation (the points of cancellation are in
   `BuildContext`), glob imports, injected files, the runtime file, files from
   stdin, and the module resolver but for packages with two main files.
 - Imports and exports: TypeScript types, the dependencies between parts that a
   binding adds, the runtime's symbols, `"type"` of a package and `import.meta`.
 - Sheets: `composes`, `supports()` (it behaves as a query does) and chunks of CSS.
 - Names: direct eval, labels, private names, JSX, keywords, imports between
   chunks and `ExportRenamer`.
 - Plugin bridge: a registry by unique keys under one mutex; its packets travel
   as those of `ServiceTransport`.

Known from the models or the code and covered by no property:

 - A panic in a rebuild of the watcher's worker ends the worker, and the context
   still looks watched (`api/watcher.rs:229`).
 - An output that lies over an input through a symbolic link of a directory is
   refused (`api/mod.rs:2157`) but tracked, so a later build without that output,
   a canceled one for instance, removes the input.
 - Names that differ in case only share an entry of a directory
   (`fs/mod.rs:134`).
 - A cancellation waits for the flights of its group, without bound if new
   rebuilds keep coming (`service/contexts.rs:355`).
 - A file read twice by one build, or past the cache, may keep a key that is too
   young (`fs/real.rs:247`, `fs/real.rs:334`).

## 6. Plan

In the order of importance.

| module | what it adds | state |
|---|---|---|
| `BuildContext`, `CoalescedBuilds` | native context | modelled; safety and the safety part of the refinement proved |
| `ServiceContexts` | service registry | modelled; safety proved |
| `Watcher` | polling worker | modelled; safety proved |
| `ServiceTransport` | pipe, callbacks, shutdown | modelled; safety proved |
| `WatchedFiles`, `WatchedDirectory` | cache and watch data | modelled; safety proved |
| `OpenFiles` | limit on open files | modelled and proved |
| `TreeShaking`, `ChunkLinks` | tree shaking, imports between chunks | modelled for JavaScript and proved; next chunks of CSS |
| `PartOrder`, `Chunks` | order of parts, names of chunks | modelled and proved |
| `ScanGraph`, `TopLevelAwait` | the bundler's work list, awaits | modelled and proved; next plugins and their order |
| `ModuleWrappers`, `ExportResolution` | imports and exports | modelled |
| `CssOrder` | order of sheets | modelled; next `composes` |
| `Renaming` | names of symbols | modelled; next names across chunks |
| `PackageExports` | conditions and patterns of the resolver | a sequential search; operators against a reference |
| `FrameDecoder`, `Mappings` | protocol frames, source map state | operators against reference definitions |

A next step of the proofs is to give the recursive passes of `ModuleWrappers` a
call stack each, as `TopLevelAwait` and `PartOrder` have, which makes `ModulesAreClassified` an
invariant of steps.
