---------------------------- MODULE WatchedFiles ----------------------------
(***************************************************************************)
(* What a build remembers of a file it reads: the contents cache of        *)
(* cache/mod.rs, which outlives builds, and the watch data of fs/real.rs,  *)
(* which one build collects and the watcher then polls.                    *)
(*                                                                         *)
(* Files do not affect each other, so the module follows one.  Its         *)
(* contents are a version number, 0 when it does not exist.  Time is       *)
(* counted in ticks of the file system's clock: contents written in the    *)
(* same tick have the same modification key.                               *)
(***************************************************************************)
EXTENDS Integers, FiniteSets

CONSTANTS
    Threads,        \* threads of a build that read the file
    Gap,            \* MOD_KEY_SAFETY_GAP, in ticks
    MaxClock,       \* bound: the last tick
    MaxVersion,     \* bound: contents the file goes through
    MaxReads        \* bound: reads of the file by one build

ASSUME WatchedFilesAssumption ==
    /\ Gap \in Nat \ {0}
    /\ MaxClock \in Nat \ {0} /\ {MaxVersion, MaxReads} \subseteq Nat

VARIABLES
    clock,          \* the current tick
    file,           \* the file: version, 0 when missing, and modification time
    written,        \* the last version written
    cache,          \* FsCache.entries[path]
    watch,          \* RealFs.watch_data[path]
    phase,          \* "build", "keys" inside watch_data(), "watch" after it
    callback,       \* the entry that the watcher's callback was made from
    pc, op,         \* where each thread is, and the locals of its call
    \* what the build did, for the properties
    used,           \* the versions the build got
    reads, directs, \* reads of the build, and those that went past the cache
    readAt,         \* tick of the build's first look at the contents
    keyAt,          \* tick at which watch_data() ended
    edited,         \* the file was edited since the build began
    torn            \* a modification key found no file where the read found one

envVars == <<clock, file, written>>
buildVars == <<used, reads, directs, readAt, torn>>
watchVars == <<phase, callback, keyAt>>
vars == <<envVars, cache, watch, watchVars, pc, op, buildVars, edited>>

NoStat == [status |-> "none", key |-> 0]
NoEntry == [version |-> 0, key |-> 0, usable |-> FALSE]
Absent == [state |-> "Absent", contents |-> 0, key |-> 0]
NoOp == [cached |-> TRUE, entry |-> NoEntry, stat |-> NoStat, version |-> 0, during |-> {}]
NewOp(cached) == [cached |-> cached, entry |-> cache, stat |-> NoStat, version |-> 0,
                  during |-> {file.version}]

Init ==
    /\ clock = 1 /\ written \in 0..1
    /\ file = [version |-> written, mtime |-> 1]
    /\ cache = NoEntry
    /\ watch = Absent
    /\ phase = "build" /\ callback = Absent /\ keyAt = 0
    /\ pc = [t \in Threads |-> "idle"] /\ op = [t \in Threads |-> NoOp]
    /\ used = {} /\ reads = 0 /\ directs = 0 /\ readAt = 0 /\ torn = FALSE
    /\ edited = FALSE

(***************************************************************************)
(* The outside world.                                                      *)
(***************************************************************************)
Tick ==
    /\ clock < MaxClock
    /\ clock' = clock + 1
    /\ UNCHANGED <<file, written, cache, watch, watchVars, pc, op, buildVars, edited>>

Change(version) ==
    /\ file' = [version |-> version, mtime |-> clock]
    /\ edited' = TRUE
    /\ op' = [t \in Threads |-> IF pc[t] = "idle" THEN op[t] ELSE [op[t] EXCEPT !.during = @ \cup {version}]]
    /\ UNCHANGED <<clock, cache, watch, watchVars, pc, buildVars>>

Write == written < MaxVersion /\ written' = written + 1 /\ Change(written + 1)
Delete == file.version # 0 /\ written' = written /\ Change(0)

(***************************************************************************)
(* modification_key: none while the file may still change within the tick  *)
(* it was last written in.                                                 *)
(***************************************************************************)
\* Mutant: no safety gap.
ModificationKey_NoGap ==
    IF file.version = 0 THEN [status |-> "missing", key |-> 0]
    ELSE [status |-> "ok", key |-> file.mtime]

ModificationKey ==
    IF file.version = 0 THEN [status |-> "missing", key |-> 0]
    ELSE IF file.mtime + Gap > clock THEN [status |-> "unusable", key |-> 0]
    ELSE [status |-> "ok", key |-> file.mtime]

StateFor(stat) == CASE stat.status = "ok" -> "FileHasModKey"
                    [] stat.status = "unusable" -> "FileUnusableModKey"
                    [] stat.status = "missing" -> "FileMissing"

(***************************************************************************)
(* Reading: FsCache::read_file calls mod_key and, unless the cache has the *)
(* contents for that key, read_file of the file system; a direct read is   *)
(* read_file alone.  Each touches the watch data under its mutex after the *)
(* system call.                                                            *)
(***************************************************************************)
Goto(t, here, next) == pc[t] = here /\ pc' = [pc EXCEPT ![t] = next]

Begin(t, cached) ==
    /\ phase = "build" /\ reads + Cardinality({u \in Threads : pc[u] # "idle"}) < MaxReads
    /\ Goto(t, "idle", IF cached THEN "stat" ELSE "read")
    /\ op' = [op EXCEPT ![t] = NewOp(cached)]
    /\ UNCHANGED <<envVars, cache, watch, watchVars, buildVars, edited>>

ReadCached(t) == Begin(t, TRUE)
ReadDirect(t) == Begin(t, FALSE)

StatFile(t) ==
    /\ Goto(t, "stat", "record")
    /\ op' = [op EXCEPT ![t].stat = ModificationKey]
    /\ UNCHANGED <<envVars, cache, watch, watchVars, buildVars, edited>>

\* Mutant: a fresh entry has a key whatever the result.
AfterModKey_AlwaysKey(stat) ==
    [watch EXCEPT
        !.state = IF @ \in {"Absent", "FileNeedModKey"} THEN "FileHasModKey" ELSE @,
        !.key = IF stat.status = "ok" THEN stat.key ELSE @]

\* The watch state after mod_key: a fresh entry takes the result's state; a file that
\* was read before without a key now has one, whatever the result.
AfterModKey(stat) ==
    [watch EXCEPT
        !.state = CASE @ = "Absent" -> StateFor(stat)
                    [] @ = "FileNeedModKey" -> "FileHasModKey"
                    [] OTHER -> @,
        !.key = IF stat.status = "ok" THEN stat.key ELSE @]

Hit(o) == o.entry.usable /\ o.stat.status = "ok" /\ o.entry.key = o.stat.key

RecordModKey(t) ==
    /\ \/ /\ Hit(op[t])
          /\ Goto(t, "record", "return")
          /\ op' = [op EXCEPT ![t].version = op[t].entry.version]
       \/ /\ ~Hit(op[t])
          /\ Goto(t, "record", "read")
          /\ op' = op
    /\ watch' = AfterModKey(op[t].stat)
    /\ UNCHANGED <<envVars, cache, watchVars, buildVars, edited>>

ReadContents(t) ==
    /\ Goto(t, "read", "recordRead")
    /\ op' = [op EXCEPT ![t].version = file.version]
    /\ readAt' = IF readAt = 0 THEN clock ELSE readAt
    /\ torn' = (torn \/ (op[t].stat.status = "missing" /\ file.version # 0))
    /\ UNCHANGED <<envVars, cache, watch, watchVars, used, reads, directs, edited>>

\* The watch state after read_file.
AfterRead(version) ==
    [watch EXCEPT
        !.state = IF version = 0 THEN "FileMissing"
                  ELSE IF @ = "Absent" THEN "FileNeedModKey" ELSE @,
        !.contents = version]

RecordRead(t) ==
    /\ Goto(t, "recordRead", IF op[t].cached /\ op[t].version # 0 THEN "insert" ELSE "return")
    /\ watch' = AfterRead(op[t].version)
    /\ UNCHANGED <<envVars, cache, watchVars, op, buildVars, edited>>

\* Mutant: the cached contents are filed under the key of the moment they are stored.
Insert_LateKey(t) ==
    /\ Goto(t, "insert", "return")
    /\ cache' = [version |-> op[t].version, key |-> ModificationKey.key, usable |-> ModificationKey.status = "ok"]
    /\ UNCHANGED <<envVars, watch, watchVars, op, buildVars, edited>>

Insert(t) ==
    /\ Goto(t, "insert", "return")
    /\ cache' = [version |-> op[t].version, key |-> op[t].stat.key, usable |-> op[t].stat.status = "ok"]
    /\ UNCHANGED <<envVars, watch, watchVars, op, buildVars, edited>>

Return(t) ==
    /\ Goto(t, "return", "idle")
    /\ used' = used \cup {op[t].version}
    /\ reads' = reads + 1
    /\ directs' = IF op[t].cached THEN directs ELSE directs + 1
    /\ op' = [op EXCEPT ![t] = NoOp]
    /\ UNCHANGED <<envVars, cache, watch, watchVars, readAt, torn, edited>>

(***************************************************************************)
(* watch_data(), when the build is over: a copy of the map, then the       *)
(* modification keys that are still missing, one system call at a time.    *)
(***************************************************************************)
CopyWatchData ==
    /\ phase = "build" /\ \A t \in Threads : pc[t] = "idle"
    /\ watch.state # "Absent"
    /\ phase' = "keys"
    /\ callback' = watch
    /\ UNCHANGED <<envVars, cache, watch, keyAt, pc, op, buildVars, edited>>

FillModKey ==
    /\ phase = "keys"
    /\ phase' = "watch"
    /\ keyAt' = clock
    /\ callback' = IF callback.state = "FileNeedModKey"
                   THEN [callback EXCEPT !.state = StateFor(ModificationKey),
                            !.key = IF ModificationKey.status = "ok" THEN ModificationKey.key ELSE @]
                   ELSE callback
    /\ UNCHANGED <<envVars, cache, watch, pc, op, buildVars, edited>>

\* The next build collects watch data of its own and keeps the cache.
NextBuild ==
    /\ phase = "watch"
    /\ phase' = "build" /\ callback' = Absent /\ keyAt' = 0
    /\ watch' = Absent
    /\ used' = {} /\ reads' = 0 /\ directs' = 0 /\ readAt' = 0 /\ torn' = FALSE
    /\ edited' = FALSE
    /\ UNCHANGED <<envVars, cache, pc, op>>

Next ==
    \/ Tick \/ Write \/ Delete
    \/ \E t \in Threads :
          ReadCached(t) \/ ReadDirect(t) \/ StatFile(t) \/ RecordModKey(t) \/ ReadContents(t)
             \/ RecordRead(t) \/ Insert(t) \/ Return(t)
    \/ CopyWatchData \/ FillModKey \/ NextBuild

Spec == Init /\ [][Next]_vars

-----------------------------------------------------------------------------
\* What the callback answers if it runs now.
Dirty ==
    CASE callback.state = "FileMissing" -> file.version # 0
      [] callback.state = "FileHasModKey" -> ~(ModificationKey.status = "ok" /\ ModificationKey.key = callback.key)
      [] callback.state = "FileUnusableModKey" -> file.version = 0 \/ file.version # callback.contents

WatchStates == {"FileHasModKey", "FileNeedModKey", "FileMissing", "FileUnusableModKey"}

\* Every file a build has read gets a callback that can decide: no entry leaves
\* watch_data() without a modification key, contents or the knowledge that it is missing.
TypeOK ==
    /\ clock \in 1..MaxClock /\ file.version \in 0..written /\ file.mtime \in 1..clock
    /\ cache.version \in 0..written
    /\ watch.state \in WatchStates \cup {"Absent"}
    /\ phase \in {"build", "keys", "watch"}
    /\ phase = "watch" => callback.state \in WatchStates \ {"FileNeedModKey"}
    /\ \A t \in Threads : pc[t] \in {"idle", "stat", "record", "read", "recordRead", "insert", "return"}

\* A read through the cache returns contents the file had at some time during the call,
\* although the cache decides by modification keys, is filled by several threads and
\* outlives the build (FsCache::read_file, MOD_KEY_SAFETY_GAP).
CacheIsFresh == \A t \in Threads : pc[t] = "return" => op[t].version \in op[t].during

\* A file whose contents are not those the build used is reported.  Three windows are
\* known and left out: a file read past the cache and edited long enough before a slow
\* build ends gets the key of the new contents; one read past the cache and deleted
\* before the build ends, or created between the stat and the read of one call and then
\* deleted, is taken to have been missing all along.
Quick == keyAt < readAt + Gap
EditsAreSeen ==
    /\ phase = "watch" /\ reads = 1
    /\ directs = 0 \/ (Quick /\ file.version # 0)
    /\ torn => file.version # 0
    /\ file.version \notin used
    => Dirty

\* A file that was not edited since the build began is not reported, unless it was read
\* both past the cache and through it.
NoFalseAlarm ==
    phase = "watch" /\ ~edited /\ directs \in {0, reads} => ~Dirty
=============================================================================
