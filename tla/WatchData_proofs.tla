--------------------------- MODULE WatchData_proofs ---------------------------
(***************************************************************************)
(* Theorems about WatchData, for any threads, any safety gap, names,       *)
(* folding of names and limits: types, CacheIsFresh, ChangesAreSeen,       *)
(* NoAlarmIsFalse and PlacesAreHandedOn.  Each part of the composition is  *)
(* proved by itself first: the files, the limit on open files and the      *)
(* directory.                                                              *)
(*                                                                         *)
(* The invariant of the files has a part for each of their properties.  A  *)
(* key seals a version when a file that still has the key still has the    *)
(* version; keys are never used again, because a file whose key is usable  *)
(* was last written in a tick that is over.                                *)
(***************************************************************************)
EXTENDS WatchData, FiniteSetTheorems, TLAPS

-----------------------------------------------------------------------------
(* The files: types.                                                       *)

Entries == [version : Nat, key : Nat, usable : BOOLEAN]
Stats == [status : {"none", "ok", "unusable", "missing"}, key : Nat]
Watches == [state : WatchStates \cup {"Absent"}, contents : Nat, key : Nat]
Ops == [cached : BOOLEAN, entry : Entries, stat : Stats, version : Nat, during : SUBSET Nat]

Shape ==
    /\ clock \in Nat \ {0} /\ clock <= MaxClock /\ written \in Nat
    /\ file \in [version : Nat, mtime : Nat \ {0}] /\ file.mtime <= clock
    /\ cache \in Entries
    /\ watch \in Watches /\ callback \in Watches
    /\ phase \in {"build", "keys", "watch"}
    /\ pc \in [Threads -> {"idle", "stat", "record", "read", "recordRead", "insert", "return"}]
    /\ op \in [Threads -> Ops]
    /\ reads \in Nat /\ directs \in Nat /\ directs <= reads
    /\ readAt \in Nat /\ readAt <= clock /\ keyAt \in Nat
    /\ edited \in BOOLEAN /\ torn \in BOOLEAN

\* Versions in use were written, calls are where their kind of read can be,
\* and the watch data are complete when the build is over.
Places ==
    /\ file.version <= written /\ cache.version <= written
    /\ \A t \in Threads :
          /\ op[t].version <= written /\ op[t].entry.version <= written
          /\ phase # "build" => pc[t] = "idle"
          /\ pc[t] \in {"stat", "record"} => op[t].cached
          /\ ~op[t].cached => op[t].stat.status = "none"
          /\ op[t].cached /\ pc[t] \notin {"idle", "stat"} => op[t].stat.status # "none"
          /\ op[t].cached /\ pc[t] \notin {"idle", "stat", "record"} => watch.state # "Absent"
    /\ phase = "keys" => callback = watch /\ watch.state # "Absent"
    /\ phase = "watch" => callback.state \in WatchStates \ {"FileNeedModKey"}

-----------------------------------------------------------------------------
(* The files: freshness of the cache.                                      *)

Seals(k, v) == k < clock /\ (file.mtime = k => file.version = v)

FreshCall(t) == pc[t] # "idle" =>
    /\ file.version \in op[t].during
    /\ op[t].entry.usable => Seals(op[t].entry.key, op[t].entry.version)
    /\ op[t].stat.status = "ok" => op[t].stat.key < clock
    /\ pc[t] = "record" /\ Hit(op[t]) => op[t].entry.version \in op[t].during
    /\ pc[t] \in {"recordRead", "insert", "return"} =>
          /\ op[t].version \in op[t].during
          /\ op[t].stat.status = "ok" => Seals(op[t].stat.key, op[t].version)

Fresh ==
    /\ cache.usable => Seals(cache.key, cache.version)
    /\ \A t \in Threads : FreshCall(t)

-----------------------------------------------------------------------------
(* The files: a build that reads one once.                                 *)

AllIdle == \A t \in Threads : pc[t] = "idle"
Alone(t) == reads = 0 /\ phase = "build" /\ pc[t] # "idle" /\ \A u \in Threads \ {t} : pc[u] = "idle"

Blank == used = {} /\ directs = 0 /\ readAt = 0 /\ ~torn

\* The watch data of a file whose key was asked for but not yet its contents.
Looked(o) ==
    IF o.cached
    THEN /\ watch.state = StateFor(o.stat)
         /\ o.stat.status = "ok" => watch.key = o.stat.key
    ELSE watch = Absent

\* The watch data of a file that was read once, as version v: they tell v from
\* what comes later.
Since(v) == readAt > 0 /\ (file.mtime < readAt => file.version = v)
Recorded(throughCache, v) ==
    \/ throughCache /\ watch.state = "FileHasModKey" /\ Seals(watch.key, v)
    \/ throughCache /\ watch.state = "FileUnusableModKey" /\ watch.contents = v
    \/ watch.state = "FileMissing" /\ (v = 0 \/ torn)
    \/ ~throughCache /\ watch.state = "FileNeedModKey" /\ watch.contents = v /\ Since(v)

Watched(v) ==
    \/ callback.state = "FileHasModKey" /\ (directs = 0 \/ Quick => Seals(callback.key, v))
    \/ callback.state = "FileUnusableModKey" /\ callback.contents = v
    \/ callback.state = "FileMissing" /\ (v = 0 \/ torn \/ directs # 0)

Untouched == reads = 0 /\ AllIdle /\ phase = "build" => Blank /\ watch = Absent
FirstCall(t) == Alone(t) =>
    /\ used = {} /\ directs = 0
    /\ pc[t] \in {"stat", "record", "read"} => Blank
    /\ pc[t] \in {"stat", "record"} => watch = Absent
    /\ pc[t] \in {"read", "recordRead"} => Looked(op[t])
    /\ pc[t] = "recordRead" =>
          /\ torn <=> (op[t].stat.status = "missing" /\ op[t].version # 0)
          /\ Since(op[t].version)
    /\ pc[t] \in {"insert", "return"} => Recorded(op[t].cached, op[t].version)
WasRead == reads = 1 /\ AllIdle /\ phase # "watch" => \E v \in used : used = {v} /\ Recorded(directs = 0, v)
IsWatched == reads = 1 /\ phase = "watch" => \E v \in used : used = {v} /\ Watched(v)

ReadOnce == Untouched /\ (\A t \in Threads : FirstCall(t)) /\ WasRead /\ IsWatched

-----------------------------------------------------------------------------
(* The files: a build during which one is not edited.                      *)

Sees(stat) ==
    /\ file.version = 0 => stat.status = "missing"
    /\ file.version # 0 => \/ stat.status = "unusable"
                           \/ stat.status = "ok" /\ stat.key = file.mtime /\ file.mtime + Gap <= clock

CachedOnly == directs = 0 /\ \A t \in Threads : pc[t] # "idle" => op[t].cached
DirectOnly == directs = reads /\ \A t \in Threads : pc[t] # "idle" => ~op[t].cached
BeingRead == \E t \in Threads : pc[t] \in {"read", "recordRead"}

Seen(t) == pc[t] # "idle" =>
    /\ op[t].during = {file.version}
    /\ pc[t] = "record" => Sees(op[t].stat)

Matches ==
    IF file.version = 0 THEN watch.state \in {"Absent", "FileMissing"}
    ELSE \/ watch.state = "Absent"
         \/ /\ CachedOnly /\ watch.state = "FileHasModKey"
            /\ watch.key = file.mtime /\ file.mtime + Gap <= clock
         \/ /\ CachedOnly /\ watch.state = "FileUnusableModKey"
            /\ watch.contents = file.version \/ BeingRead
         \/ DirectOnly /\ watch.state = "FileNeedModKey" /\ watch.contents = file.version

Unedited == ~edited =>
    /\ \A t \in Threads : Seen(t)
    /\ phase # "watch" /\ (CachedOnly \/ DirectOnly) => Matches
    /\ phase = "watch" /\ directs \in {0, reads} => ~Dirty

FileInv == Shape /\ Places /\ Fresh /\ ReadOnce /\ Unedited

-----------------------------------------------------------------------------
(* The files: the steps.                                                   *)

ThreadSteps(t) ==
    ReadCached(t) \/ ReadDirect(t) \/ StatFile(t) \/ RecordModKey(t) \/ ReadContents(t)
       \/ RecordRead(t) \/ Insert(t) \/ Return(t)

LEMMA StepsOfTheFile ==
    ASSUME [Next]_vars
    PROVE  \/ Tick \/ Write \/ Delete \/ CopyWatchData \/ FillModKey \/ NextBuild
           \/ \E t \in Threads : ThreadSteps(t)
           \/ UNCHANGED vars
BY DEF Next, ThreadSteps

\* What modification_key answers.
LEMMA KeyOfTheFile ==
    ASSUME Shape
    PROVE  /\ ModificationKey \in Stats /\ ModificationKey.status # "none"
           /\ ModificationKey.status = "missing" <=> file.version = 0
           /\ ModificationKey.status = "ok" =>
                 ModificationKey.key = file.mtime /\ file.mtime + Gap <= clock /\ file.mtime < clock
           /\ StateFor(ModificationKey) \in WatchStates \ {"FileNeedModKey"}
BY WatchedFilesAssumption DEF Shape, ModificationKey, Stats, StateFor, WatchStates

\* A call that begins.
LEMMA BeginsAnew ==
    ASSUME NEW t \in Threads, ReadCached(t) \/ ReadDirect(t)
    PROVE  /\ phase = "build" /\ pc[t] = "idle"
           /\ \/ pc' = [pc EXCEPT ![t] = "stat"] /\ op' = [op EXCEPT ![t] = NewOp(TRUE)]
              \/ pc' = [pc EXCEPT ![t] = "read"] /\ op' = [op EXCEPT ![t] = NewOp(FALSE)]
           /\ UNCHANGED <<envVars, cache, watch, watchVars, buildVars, edited>>
BY DEF ReadCached, ReadDirect, Begin, Goto

\* The watch data after a key was asked for, and after the contents were read.
LEMMA AfterModKeyIs ==
    ASSUME Shape, NEW stat \in Stats, stat.status # "none"
    PROVE  /\ AfterModKey(stat) \in Watches
           /\ AfterModKey(stat).contents = watch.contents
           /\ AfterModKey(stat).key = IF stat.status = "ok" THEN stat.key ELSE watch.key
           /\ watch.state = "Absent" => AfterModKey(stat).state = StateFor(stat)
           /\ watch.state = "FileNeedModKey" => AfterModKey(stat).state = "FileHasModKey"
           /\ watch.state \notin {"Absent", "FileNeedModKey"} => AfterModKey(stat).state = watch.state
           /\ AfterModKey(stat).state # "Absent"
           /\ StateFor(stat) \in WatchStates \ {"FileNeedModKey"}
<1>1. StateFor(stat) \in WatchStates \ {"FileNeedModKey"}
  BY DEF StateFor, Stats, WatchStates
<1>. DEFINE next == IF watch.state = "Absent" THEN StateFor(stat)
                    ELSE IF watch.state = "FileNeedModKey" THEN "FileHasModKey" ELSE watch.state
<1>2. next = CASE watch.state = "Absent" -> StateFor(stat)
                [] watch.state = "FileNeedModKey" -> "FileHasModKey"
                [] OTHER -> watch.state
  OBVIOUS
<1>3. AfterModKey(stat) =
         [watch EXCEPT !.state = next, !.key = IF stat.status = "ok" THEN stat.key ELSE @]
  BY <1>2, Zenon DEF AfterModKey
<1>4. next \in WatchStates
  BY <1>1 DEF Shape, Watches, WatchStates
<1>. HIDE DEF next
<1>5. /\ AfterModKey(stat) \in Watches
      /\ AfterModKey(stat).contents = watch.contents
      /\ AfterModKey(stat).key = IF stat.status = "ok" THEN stat.key ELSE watch.key
      /\ AfterModKey(stat).state = next
  BY <1>3, <1>4 DEF Shape, Watches, Stats
<1>. USE DEF next
<1>. QED  BY <1>1, <1>4, <1>5 DEF WatchStates

LEMMA AfterReadIs ==
    ASSUME Shape, NEW v \in Nat
    PROVE  /\ AfterRead(v) \in Watches
           /\ AfterRead(v).contents = v /\ AfterRead(v).key = watch.key
           /\ AfterRead(v).state = IF v = 0 THEN "FileMissing"
                                  ELSE IF watch.state = "Absent" THEN "FileNeedModKey" ELSE watch.state
BY DEF AfterRead, Shape, Watches, WatchStates

LEMMA ShapeStep == ASSUME Shape, Places, [Next]_vars PROVE Shape'
<1>. USE WatchedFilesAssumption DEF Shape, envVars, buildVars, watchVars
<1>1. CASE Tick
  BY <1>1 DEF Tick
<1>2. ASSUME NEW v \in Nat, Change(v), written' \in Nat PROVE Shape'
  <2>1. op' \in [Threads -> Ops]
    BY <1>2 DEF Change, Ops
  <2>. QED  BY <1>2, <2>1 DEF Change
<1>3. CASE Write \/ Delete
  BY <1>2, <1>3 DEF Write, Delete
<1>4. ASSUME NEW t \in Threads, ReadCached(t) \/ ReadDirect(t) PROVE Shape'
  <2>1. NewOp(TRUE) \in Ops /\ NewOp(FALSE) \in Ops
    BY DEF NewOp, Ops, NoStat, Stats
  <2>. QED  BY <1>4, <2>1, BeginsAnew
<1>5. ASSUME NEW t \in Threads, StatFile(t) PROVE Shape'
  BY <1>5, KeyOfTheFile DEF StatFile, Goto, Ops
<1>6. ASSUME NEW t \in Threads, RecordModKey(t) PROVE Shape'
  <2>1. op' \in [Threads -> Ops]
    <3>1. op[t].entry.version \in Nat
      BY DEF Ops, Entries
    <3>. QED  BY <1>6, <3>1 DEF RecordModKey, Ops
  <2>2. watch' \in Watches
    <3>1. op[t].stat \in Stats /\ op[t].stat.status # "none"
      BY <1>6 DEF RecordModKey, Goto, Ops, Places
    <3>. QED  BY <1>6, <3>1, AfterModKeyIs DEF RecordModKey
  <2>. QED  BY <1>6, <2>1, <2>2 DEF RecordModKey, Goto
<1>7. ASSUME NEW t \in Threads, ReadContents(t) PROVE Shape'
  BY <1>7 DEF ReadContents, Goto, Ops
<1>8. ASSUME NEW t \in Threads, RecordRead(t) PROVE Shape'
  <2>1. watch' \in Watches
    BY <1>8, AfterReadIs DEF RecordRead, Ops
  <2>. QED  BY <1>8, <2>1 DEF RecordRead, Goto
<1>9. ASSUME NEW t \in Threads, Insert(t) PROVE Shape'
  BY <1>9 DEF Insert, Goto, Ops, Stats, Entries
<1>10. ASSUME NEW t \in Threads, Return(t) PROVE Shape'
  BY <1>10 DEF Return, Goto, Ops, NoOp, NoEntry, NoStat, Entries, Stats
<1>11. CASE CopyWatchData
  BY <1>11 DEF CopyWatchData
<1>12. CASE FillModKey
  <2>1. callback' \in Watches
    BY <1>12, KeyOfTheFile DEF FillModKey, Watches, Stats
  <2>. QED  BY <1>12, <2>1 DEF FillModKey
<1>13. CASE NextBuild
  <2>1. Absent \in Watches
    BY DEF Absent, Watches
  <2>2. watch' \in Watches /\ callback' \in Watches
    BY <1>13, <2>1 DEF NextBuild
  <2>3. edited' \in BOOLEAN /\ torn' \in BOOLEAN
    BY <1>13 DEF NextBuild
  <2>. QED  BY <1>13, <2>2, <2>3 DEF NextBuild
<1>14. CASE UNCHANGED vars
  BY <1>14 DEF vars
<1>. QED
  BY <1>1, <1>3, <1>4, <1>5, <1>6, <1>7, <1>8, <1>9, <1>10, <1>11, <1>12, <1>13, <1>14,
     StepsOfTheFile DEF ThreadSteps

LEMMA PlacesStep == ASSUME Shape, Places, [Next]_vars PROVE Places'
<1>. USE WatchedFilesAssumption DEF Shape, Places, envVars, buildVars, watchVars
<1>1. CASE Tick
  BY <1>1 DEF Tick
<1>2. ASSUME NEW v \in Nat, Change(v), written' \in Nat, v <= written', written <= written' PROVE Places'
  <2>1. ASSUME NEW t \in Threads
        PROVE  /\ op'[t].version = op[t].version /\ op'[t].entry = op[t].entry
               /\ op'[t].cached = op[t].cached /\ op'[t].stat = op[t].stat
    BY <1>2 DEF Change, Ops
  <2>2. \A t \in Threads : op[t].version \in Nat /\ op[t].entry.version \in Nat /\ cache.version \in Nat
    BY DEF Ops, Entries
  <2>3. file'.version = v /\ UNCHANGED <<cache, watch, phase, callback, pc>>
    BY <1>2 DEF Change
  <2>4. \A n \in Nat : n <= written => n <= written'
    BY <1>2
  <2>5. file'.version <= written' /\ cache'.version <= written'
    BY <1>2, <2>2, <2>3, <2>4 DEF Entries
  <2>6. \A t \in Threads : op'[t].version <= written' /\ op'[t].entry.version <= written'
    BY <2>1, <2>2, <2>4
  <2>. HIDE DEF Shape
  <2>. QED  BY <2>1, <2>3, <2>5, <2>6
<1>3. CASE Write \/ Delete
  BY <1>2, <1>3 DEF Write, Delete
<1>4. ASSUME NEW t \in Threads, ReadCached(t) \/ ReadDirect(t) PROVE Places'
  BY <1>4, BeginsAnew DEF NewOp, NoStat
<1>5. ASSUME NEW t \in Threads, StatFile(t) PROVE Places'
  BY <1>5, KeyOfTheFile DEF StatFile, Goto, Ops
<1>6. ASSUME NEW t \in Threads, RecordModKey(t) PROVE Places'
  <2>1. watch'.state # "Absent"
    <3>1. op[t].stat \in Stats /\ op[t].stat.status # "none"
      BY <1>6 DEF RecordModKey, Goto, Ops
    <3>. QED  BY <1>6, <3>1, AfterModKeyIs DEF RecordModKey
  <2>2. /\ UNCHANGED <<file, written, cache, phase, callback>> /\ phase = "build"
        /\ \A u \in Threads \ {t} : pc'[u] = pc[u] /\ op'[u] = op[u]
        /\ pc[t] = "record" /\ pc'[t] \in {"read", "return"}
    BY <1>6 DEF RecordModKey, Goto
  <2>3. /\ op'[t].version \in {op[t].version, op[t].entry.version} /\ op'[t].entry = op[t].entry
        /\ op'[t].cached = op[t].cached /\ op'[t].stat = op[t].stat
    BY <1>6 DEF RecordModKey, Ops
  <2>. HIDE DEF Shape
  <2>. QED  BY <2>1, <2>2, <2>3
<1>7. ASSUME NEW t \in Threads, ReadContents(t) PROVE Places'
  BY <1>7 DEF ReadContents, Goto, Ops
<1>8. ASSUME NEW t \in Threads, RecordRead(t) PROVE Places'
  <2>1. watch'.state # "Absent"
    BY <1>8, AfterReadIs DEF RecordRead, Ops, Watches
  <2>. QED  BY <1>8, <2>1 DEF RecordRead, Goto, Ops
<1>9. ASSUME NEW t \in Threads, Insert(t) PROVE Places'
  BY <1>9 DEF Insert, Goto, Ops
<1>10. ASSUME NEW t \in Threads, Return(t) PROVE Places'
  BY <1>10 DEF Return, Goto, Ops, NoOp, NoEntry, NoStat
<1>11. CASE CopyWatchData
  BY <1>11 DEF CopyWatchData
<1>12. CASE FillModKey
  <2>1. callback.state \in WatchStates
    BY <1>12 DEF FillModKey, Watches
  <2>2. callback'.state \in WatchStates \ {"FileNeedModKey"}
    BY <1>12, <2>1, KeyOfTheFile DEF FillModKey, Watches
  <2>. QED  BY <1>12, <2>2 DEF FillModKey
<1>13. CASE NextBuild
  BY <1>13 DEF NextBuild
<1>14. CASE UNCHANGED vars
  BY <1>14 DEF vars
<1>. QED
  BY <1>1, <1>3, <1>4, <1>5, <1>6, <1>7, <1>8, <1>9, <1>10, <1>11, <1>12, <1>13, <1>14,
     StepsOfTheFile DEF ThreadSteps

\* An edit gives the file a key of this tick.
LEMMA Edits ==
    ASSUME Shape, Write \/ Delete
    PROVE  /\ clock' = clock /\ file'.mtime = clock /\ edited'
           /\ UNCHANGED <<pc, cache, watch, watchVars, buildVars>>
           /\ \A t \in Threads :
                 /\ op'[t].cached = op[t].cached /\ op'[t].entry = op[t].entry
                 /\ op'[t].stat = op[t].stat /\ op'[t].version = op[t].version
                 /\ pc[t] # "idle" => op'[t].during = op[t].during \cup {file'.version}
<1>. PICK v \in Nat : Change(v)
  BY DEF Write, Delete, Shape
<1>1. ASSUME NEW t \in Threads
      PROVE  op'[t] = IF pc[t] = "idle" THEN op[t] ELSE [op[t] EXCEPT !.during = @ \cup {v}]
  BY DEF Change
<1>2. file'.version = v /\ file'.mtime = clock /\ clock' = clock /\ edited'
  BY DEF Change
<1>3. \A t \in Threads : op[t] \in Ops
  BY DEF Shape
<1>. QED  BY <1>1, <1>2, <1>3 DEF Change, Ops

LEMMA Elsewhere == ASSUME [Next]_vars PROVE Tick \/ Write \/ Delete \/ UNCHANGED envVars
<1>1. ASSUME NEW t \in Threads, ThreadSteps(t) PROVE UNCHANGED envVars
  BY <1>1 DEF ThreadSteps, ReadCached, ReadDirect, Begin, StatFile, RecordModKey, ReadContents,
     RecordRead, Insert, Return
<1>2. CASE CopyWatchData \/ FillModKey \/ NextBuild \/ UNCHANGED vars
  BY <1>2 DEF CopyWatchData, FillModKey, NextBuild, vars
<1>. QED  BY <1>1, <1>2, StepsOfTheFile

\* A version stays sealed: a later edit gives the file a later key.
LEMMA SealsStay ==
    ASSUME Shape, [Next]_vars, NEW k \in Nat, NEW v, Seals(k, v)
    PROVE  k < clock' /\ (file'.mtime = k => file'.version = v)
<1>1. CASE Tick
  BY <1>1 DEF Tick, Seals, Shape
<1>2. CASE Write \/ Delete
  BY <1>2, Edits DEF Seals
<1>3. CASE UNCHANGED envVars
  BY <1>3 DEF envVars, Seals
<1>. QED  BY <1>1, <1>2, <1>3, Elsewhere

LEMMA OpTypes ==
    ASSUME Shape
    PROVE  /\ \A t \in Threads :
                 /\ op[t] \in Ops /\ op[t].entry \in Entries /\ op[t].stat \in Stats
                 /\ op[t].stat.key \in Nat /\ op[t].entry.key \in Nat
                 /\ op[t].version \in Nat /\ op[t].entry.version \in Nat
                 /\ op[t].cached \in BOOLEAN
           /\ cache.key \in Nat
BY DEF Shape, Ops, Entries, Stats

\* What is fresh stays so through the steps of others.
LEMMA FreshCallsStay ==
    ASSUME Shape, Fresh, [Next]_vars, NEW t \in Threads,
           pc'[t] = pc[t],
           \/ op'[t] = op[t] /\ UNCHANGED file
           \/ Write \/ Delete
    PROVE  FreshCall(t)'
<1>. SUFFICES ASSUME pc[t] # "idle" PROVE FreshCall(t)'
  BY DEF FreshCall
<1>1. /\ op'[t].entry = op[t].entry /\ op'[t].stat = op[t].stat /\ op'[t].version = op[t].version
      /\ op[t].during \subseteq op'[t].during /\ file'.version \in op'[t].during
  BY Edits DEF Fresh, FreshCall
<1>2. op[t].entry.usable => Seals(op[t].entry.key, op[t].entry.version)'
  BY <1>1, OpTypes, SealsStay DEF Fresh, FreshCall, Seals
<1>3. op[t].stat.status = "ok" /\ pc[t] \in {"recordRead", "insert", "return"} =>
         Seals(op[t].stat.key, op[t].version)'
  BY <1>1, OpTypes, SealsStay DEF Fresh, FreshCall, Seals
<1>4. clock <= clock' /\ clock \in Nat /\ clock' \in Nat
  BY Elsewhere, Edits DEF Tick, Shape, envVars
<1>5. op[t].stat.status = "ok" => op[t].stat.key < clock'
  BY <1>4, OpTypes DEF Fresh, FreshCall
<1>. QED  BY <1>1, <1>2, <1>3, <1>5 DEF Fresh, FreshCall, Hit, Seals

LEMMA FreshStep == ASSUME Shape, Places, Fresh, [Next]_vars PROVE Fresh'
<1>. USE DEF Fresh, envVars, buildVars, watchVars
<1>b. UNCHANGED cache => (cache.usable => Seals(cache.key, cache.version))'
  <2>1. cache.usable => /\ cache.key < clock'
                        /\ file'.mtime = cache.key => file'.version = cache.version
    BY OpTypes, SealsStay
  <2>. QED  BY <2>1 DEF Seals
<1>1. CASE Tick
  BY <1>1, <1>b, FreshCallsStay DEF Tick
<1>2. CASE Write \/ Delete
  BY <1>2, <1>b, Edits, FreshCallsStay
<1>3. ASSUME NEW t \in Threads, FreshCall(t)', UNCHANGED <<envVars, cache>>,
             \A u \in Threads \ {t} : pc'[u] = pc[u] /\ op'[u] = op[u]
      PROVE  Fresh'
  BY <1>b, <1>3, FreshCallsStay
<1>4. ASSUME NEW t \in Threads, ReadCached(t) \/ ReadDirect(t) PROVE Fresh'
  <2>1. FreshCall(t)'
    BY <1>4, BeginsAnew DEF FreshCall, NewOp, NoStat, Shape, Seals, Hit
  <2>. QED  BY <1>3, <1>4, <2>1, BeginsAnew DEF Shape
<1>5. ASSUME NEW t \in Threads, StatFile(t) PROVE Fresh'
  <2>1. op'[t] = [op[t] EXCEPT !.stat = ModificationKey] /\ pc[t] = "stat" /\ pc'[t] = "record"
        /\ UNCHANGED <<envVars, cache>> /\ \A u \in Threads \ {t} : pc'[u] = pc[u] /\ op'[u] = op[u]
    BY <1>5 DEF StatFile, Goto, Shape
  <2>2. FreshCall(t)'
    BY <2>1, OpTypes, KeyOfTheFile DEF FreshCall, Ops, Hit, Seals
  <2>. QED  BY <1>3, <2>1, <2>2
<1>6. ASSUME NEW t \in Threads, RecordModKey(t) PROVE Fresh'
  <2>1. /\ UNCHANGED <<envVars, cache>> /\ \A u \in Threads \ {t} : pc'[u] = pc[u] /\ op'[u] = op[u]
        /\ pc[t] = "record"
        /\ \/ Hit(op[t]) /\ pc'[t] = "return" /\ op'[t] = [op[t] EXCEPT !.version = op[t].entry.version]
           \/ pc'[t] = "read" /\ op'[t] = op[t]
    BY <1>6 DEF RecordModKey, Goto, Shape
  <2>2. FreshCall(t)'
    BY <2>1, OpTypes DEF FreshCall, Ops, Hit, Seals
  <2>. QED  BY <1>3, <2>1, <2>2
<1>7. ASSUME NEW t \in Threads, ReadContents(t) PROVE Fresh'
  <2>1. /\ UNCHANGED <<envVars, cache>> /\ \A u \in Threads \ {t} : pc'[u] = pc[u] /\ op'[u] = op[u]
        /\ pc[t] = "read" /\ pc'[t] = "recordRead" /\ op'[t] = [op[t] EXCEPT !.version = file.version]
    BY <1>7 DEF ReadContents, Goto, Shape
  <2>2. FreshCall(t)'
    BY <2>1, OpTypes DEF FreshCall, Ops, Hit, Seals
  <2>. QED  BY <1>3, <2>1, <2>2
<1>8. ASSUME NEW t \in Threads, RecordRead(t) PROVE Fresh'
  <2>1. /\ UNCHANGED <<envVars, cache, op>> /\ \A u \in Threads \ {t} : pc'[u] = pc[u]
        /\ pc[t] = "recordRead" /\ pc'[t] \in {"insert", "return"}
    BY <1>8 DEF RecordRead, Goto, Shape
  <2>2. FreshCall(t)'
    BY <2>1 DEF FreshCall, Seals
  <2>. QED  BY <1>3, <2>1, <2>2
<1>9. ASSUME NEW t \in Threads, Insert(t) PROVE Fresh'
  <2>1. /\ UNCHANGED <<envVars, op>> /\ \A u \in Threads \ {t} : pc'[u] = pc[u]
        /\ pc[t] = "insert" /\ pc'[t] = "return"
        /\ cache' = [version |-> op[t].version, key |-> op[t].stat.key, usable |-> op[t].stat.status = "ok"]
    BY <1>9 DEF Insert, Goto, Shape
  <2>2. (cache.usable => Seals(cache.key, cache.version))' /\ FreshCall(t)'
    BY <2>1 DEF FreshCall, Seals
  <2>3. \A u \in Threads \ {t} : FreshCall(u)'
    BY <2>1, FreshCallsStay
  <2>. QED  BY <2>2, <2>3
<1>10. ASSUME NEW t \in Threads, Return(t) PROVE Fresh'
  <2>1. /\ UNCHANGED <<envVars, cache>> /\ \A u \in Threads \ {t} : pc'[u] = pc[u] /\ op'[u] = op[u]
        /\ pc'[t] = "idle"
    BY <1>10 DEF Return, Goto, Shape
  <2>. QED  BY <1>3, <2>1 DEF FreshCall
<1>11. CASE CopyWatchData \/ FillModKey \/ NextBuild \/ UNCHANGED vars
  <2>1. UNCHANGED <<envVars, cache, pc, op>>
    BY <1>11 DEF CopyWatchData, FillModKey, NextBuild, vars
  <2>. QED  BY <1>b, <2>1, FreshCallsStay
<1>. QED
  BY <1>1, <1>2, <1>4, <1>5, <1>6, <1>7, <1>8, <1>9, <1>10, <1>11, StepsOfTheFile DEF ThreadSteps

-----------------------------------------------------------------------------
(* A build that reads the file once: its steps.                            *)

LEMMA SinceStays ==
    ASSUME Shape, [Next]_vars, UNCHANGED readAt, NEW v, Since(v)
    PROVE  readAt > 0 /\ (file'.mtime < readAt => file'.version = v)
<1>1. CASE Tick
  BY <1>1 DEF Tick, Since
<1>2. CASE Write \/ Delete
  BY <1>2, Edits DEF Since, Shape
<1>3. CASE UNCHANGED envVars
  BY <1>3 DEF envVars, Since
<1>. QED  BY <1>1, <1>2, <1>3, Elsewhere

LEMMA RecordedStays ==
    ASSUME Shape, [Next]_vars, UNCHANGED <<watch, readAt, torn>>,
           NEW c \in BOOLEAN, NEW v, Recorded(c, v)
    PROVE  \/ c /\ watch.state = "FileHasModKey"
              /\ watch.key < clock' /\ (file'.mtime = watch.key => file'.version = v)
           \/ c /\ watch.state = "FileUnusableModKey" /\ watch.contents = v
           \/ watch.state = "FileMissing" /\ (v = 0 \/ torn)
           \/ /\ ~c /\ watch.state = "FileNeedModKey" /\ watch.contents = v
              /\ readAt > 0 /\ (file'.mtime < readAt => file'.version = v)
<1>1. watch.key \in Nat
  BY DEF Shape, Watches
<1>. QED  BY <1>1, SealsStay, SinceStays DEF Recorded

\* A step by which only the file, the clock and what calls remember of it
\* change.
LEMMA ReadOnceStays ==
    ASSUME Shape, ReadOnce, [Next]_vars,
           UNCHANGED <<pc, watch, watchVars, buildVars>>,
           \A t \in Threads : /\ op'[t].cached = op[t].cached /\ op'[t].stat = op[t].stat
                              /\ op'[t].version = op[t].version
    PROVE  ReadOnce'
<1>. USE DEF ReadOnce, watchVars, buildVars
<1>1. Untouched'
  BY DEF Untouched, AllIdle, Blank
<1>2. ASSUME NEW t \in Threads PROVE FirstCall(t)'
  <2>. SUFFICES ASSUME Alone(t) PROVE FirstCall(t)'
    BY DEF FirstCall, Alone
  <2>1. pc[t] \in {"insert", "return"} => Recorded(op[t].cached, op[t].version)'
    BY OpTypes, RecordedStays DEF FirstCall, Recorded, Seals, Since
  <2>2. pc[t] = "recordRead" => Since(op[t].version)'
    BY SinceStays DEF FirstCall, Since
  <2>3. pc[t] \in {"read", "recordRead"} => Looked(op[t])'
    BY DEF FirstCall, Looked
  <2>. QED  BY <2>1, <2>2, <2>3 DEF FirstCall, Blank
<1>3. WasRead'
  <2>. SUFFICES ASSUME reads = 1, AllIdle, phase # "watch" PROVE WasRead'
    BY DEF WasRead, AllIdle
  <2>1. PICK v \in used : used = {v} /\ Recorded(directs = 0, v)
    BY DEF WasRead
  <2>2. Recorded(directs = 0, v)'
    BY <2>1, RecordedStays DEF Recorded, Seals, Since
  <2>. QED  BY <2>1, <2>2 DEF WasRead
<1>4. IsWatched'
  <2>. SUFFICES ASSUME reads = 1, phase = "watch" PROVE IsWatched'
    BY DEF IsWatched
  <2>1. PICK v \in used : used = {v} /\ Watched(v)
    BY DEF IsWatched
  <2>2. callback.key \in Nat
    BY DEF Shape, Watches
  <2>3. Watched(v)'
    BY <2>1, <2>2, SealsStay DEF Watched, Seals, Quick
  <2>. QED  BY <2>1, <2>3 DEF IsWatched
<1>. QED  BY <1>1, <1>2, <1>3, <1>4

\* A step of a call that goes on: only the first call of the build matters.
LEMMA ReadOnceByCall ==
    ASSUME Shape, ReadOnce, NEW t \in Threads, pc'[t] # "idle",
           \A u \in Threads \ {t} : pc'[u] = pc[u],
           UNCHANGED reads, phase' = "build",
           Alone(t)' => FirstCall(t)'
    PROVE  ReadOnce'
<1>1. ~AllIdle'
  BY DEF AllIdle
<1>2. ASSUME NEW u \in Threads \ {t} PROVE ~Alone(u)'
  BY DEF Alone
<1>. QED  BY <1>1, <1>2 DEF ReadOnce, Untouched, WasRead, IsWatched, FirstCall

LEMMA ReadOnceStep == ASSUME Shape, Places, Fresh, ReadOnce, [Next]_vars PROVE ReadOnce'
<1>. USE DEF envVars, buildVars, watchVars
<1>1. CASE Tick
  BY <1>1, ReadOnceStays DEF Tick
<1>2. CASE Write \/ Delete
  BY <1>2, Edits, ReadOnceStays
<1>3. ASSUME NEW t \in Threads, ReadCached(t) \/ ReadDirect(t) PROVE ReadOnce'
  <2>1. ASSUME Alone(t)' PROVE FirstCall(t)'
    <3>1. reads = 0 /\ AllIdle /\ phase = "build"
      BY <1>3, <2>1, BeginsAnew DEF Alone, AllIdle, Shape
    <3>2. Blank /\ watch = Absent
      BY <3>1 DEF ReadOnce, Untouched
    <3>. QED  BY <1>3, <3>2, BeginsAnew DEF FirstCall, Blank, Looked, NewOp, Shape
  <2>. QED  BY <1>3, <2>1, BeginsAnew, ReadOnceByCall DEF Shape
<1>4. ASSUME NEW t \in Threads, StatFile(t) PROVE ReadOnce'
  <2>1. /\ UNCHANGED <<watch, watchVars, buildVars>> /\ \A u \in Threads \ {t} : pc'[u] = pc[u]
        /\ pc[t] = "stat" /\ pc'[t] = "record" /\ phase = "build"
    BY <1>4 DEF StatFile, Goto, Shape, Places
  <2>2. Alone(t)' => FirstCall(t)'
    BY <2>1 DEF FirstCall, Alone, Blank, ReadOnce
  <2>. QED  BY <2>1, <2>2, ReadOnceByCall
<1>5. ASSUME NEW t \in Threads, RecordModKey(t) PROVE ReadOnce'
  <2>1. /\ UNCHANGED <<envVars, watchVars, buildVars>> /\ \A u \in Threads \ {t} : pc'[u] = pc[u]
        /\ pc[t] = "record" /\ phase = "build" /\ op[t].cached
        /\ \/ Hit(op[t]) /\ pc'[t] = "return" /\ op'[t] = [op[t] EXCEPT !.version = op[t].entry.version]
           \/ pc'[t] = "read" /\ op'[t] = op[t]
        /\ watch' = AfterModKey(op[t].stat)
    BY <1>5 DEF RecordModKey, Goto, Shape, Places
  <2>2. op[t].stat.status # "none" /\ op[t].stat \in Stats
    BY <2>1, OpTypes DEF Places
  <2>3. ASSUME Alone(t)' PROVE FirstCall(t)'
    <3>1. watch = Absent /\ Blank
      BY <2>1, <2>3 DEF ReadOnce, FirstCall, Alone
    <3>2. watch'.state = StateFor(op[t].stat) /\ (op[t].stat.status = "ok" => watch'.key = op[t].stat.key)
      BY <2>1, <2>2, <3>1, AfterModKeyIs DEF Absent
    <3>3. CASE pc'[t] = "return"
      <4>1. op[t].stat.status = "ok" /\ Seals(op[t].stat.key, op[t].entry.version)
        BY <2>1, <3>3 DEF Hit, Fresh, FreshCall
      <4>2. op'[t].cached /\ op'[t].version = op[t].entry.version
        BY <2>1, <3>3, OpTypes DEF Ops
      <4>3. watch'.state = "FileHasModKey"
        BY <3>2, <4>1 DEF StateFor
      <4>4. Recorded(op[t].cached, op[t].version)'
        BY <2>1, <3>2, <4>1, <4>2, <4>3 DEF Recorded, Seals
      <4>. QED  BY <2>1, <3>1, <3>3, <4>4 DEF FirstCall, Blank
    <3>4. CASE pc'[t] = "read"
      BY <2>1, <3>1, <3>2, <3>4 DEF FirstCall, Blank, Looked
    <3>. QED  BY <2>1, <3>3, <3>4
  <2>. QED  BY <2>1, <2>3, ReadOnceByCall
<1>6. ASSUME NEW t \in Threads, ReadContents(t) PROVE ReadOnce'
  <2>1. /\ UNCHANGED <<envVars, watch, watchVars, used, reads, directs>>
        /\ \A u \in Threads \ {t} : pc'[u] = pc[u]
        /\ pc[t] = "read" /\ pc'[t] = "recordRead" /\ phase = "build"
        /\ op'[t] = [op[t] EXCEPT !.version = file.version]
        /\ readAt' = IF readAt = 0 THEN clock ELSE readAt
    BY <1>6 DEF ReadContents, Goto, Shape, Places
  <2>2. torn' <=> (torn \/ (op[t].stat.status = "missing" /\ file.version # 0))
    BY <1>6 DEF ReadContents
  <2>3. op'[t].version = file.version /\ op'[t].cached = op[t].cached /\ op'[t].stat = op[t].stat
    BY <2>1, OpTypes DEF Ops
  <2>4. ASSUME Alone(t)' PROVE FirstCall(t)'
    <3>1. Blank /\ Looked(op[t])
      BY <2>1, <2>4 DEF ReadOnce, FirstCall, Alone
    <3>2. Looked(op[t])'
      BY <2>1, <2>3, <3>1 DEF Looked
    <3>3. Since(op[t].version)'
      BY <2>1, <2>3, <3>1 DEF Since, Blank, Shape
    <3>4. torn' <=> (op'[t].stat.status = "missing" /\ op'[t].version # 0)
      BY <2>2, <2>3, <3>1 DEF Blank
    <3>. QED  BY <2>1, <3>1, <3>2, <3>3, <3>4 DEF FirstCall, Blank
  <2>. QED  BY <2>1, <2>4, ReadOnceByCall
<1>7. ASSUME NEW t \in Threads, RecordRead(t) PROVE ReadOnce'
  <2>1. /\ UNCHANGED <<envVars, watchVars, op, buildVars>> /\ \A u \in Threads \ {t} : pc'[u] = pc[u]
        /\ pc[t] = "recordRead" /\ pc'[t] \in {"insert", "return"} /\ phase = "build"
        /\ watch' = AfterRead(op[t].version)
    BY <1>7 DEF RecordRead, Goto, Shape, Places
  <2>2. ASSUME Alone(t)' PROVE FirstCall(t)'
    <3>. DEFINE v == op[t].version  stat == op[t].stat
    <3>1. /\ used = {} /\ directs = 0 /\ Looked(op[t]) /\ Since(v)
          /\ torn <=> (stat.status = "missing" /\ v # 0)
      BY <2>1, <2>2 DEF ReadOnce, FirstCall, Alone
    <3>2. v \in Nat /\ stat \in Stats /\ op[t].cached \in BOOLEAN
      BY OpTypes
    <3>3. /\ watch'.contents = v /\ watch'.key = watch.key
          /\ watch'.state = IF v = 0 THEN "FileMissing"
                           ELSE IF watch.state = "Absent" THEN "FileNeedModKey" ELSE watch.state
      BY <2>1, <3>2, AfterReadIs
    <3>4. Recorded(op[t].cached, v)'
      <4>1. CASE v = 0
        BY <2>1, <3>3, <4>1 DEF Recorded
      <4>2. CASE v # 0 /\ ~op[t].cached
        <5>1. watch.state = "Absent"
          BY <3>1, <4>2 DEF Looked, Absent
        <5>. QED  BY <2>1, <3>1, <3>3, <4>2, <5>1 DEF Recorded, Since
      <4>3. CASE v # 0 /\ op[t].cached
        <5>1. stat.status \in {"ok", "unusable", "missing"}
          BY <2>1, <3>2, <4>3 DEF Places, Stats
        <5>2. watch.state = StateFor(stat) /\ (stat.status = "ok" => watch.key = stat.key)
          BY <3>1, <4>3 DEF Looked
        <5>3. watch.state = CASE stat.status = "ok" -> "FileHasModKey"
                              [] stat.status = "unusable" -> "FileUnusableModKey"
                              [] stat.status = "missing" -> "FileMissing"
          BY <5>2 DEF StateFor
        <5>4. stat.status = "ok" => Seals(stat.key, v)
          BY <2>1 DEF Fresh, FreshCall
        <5>5. watch'.state = watch.state
          BY <3>3, <4>3, <5>1, <5>3
        <5>6. CASE stat.status = "ok"
          <6>1. watch'.state = "FileHasModKey"
            BY <5>3, <5>5, <5>6
          <6>. QED  BY <2>1, <3>3, <4>3, <5>2, <5>4, <5>6, <6>1 DEF Recorded, Seals
        <5>7. CASE stat.status = "unusable"
          BY <2>1, <3>3, <4>3, <5>3, <5>5, <5>7 DEF Recorded
        <5>8. CASE stat.status = "missing"
          BY <2>1, <3>1, <4>3, <5>3, <5>5, <5>8 DEF Recorded
        <5>. QED  BY <5>1, <5>6, <5>7, <5>8
      <4>. QED  BY <3>2, <4>1, <4>2, <4>3
    <3>. QED  BY <2>1, <3>1, <3>4 DEF FirstCall
  <2>. QED  BY <2>1, <2>2, ReadOnceByCall
<1>8. ASSUME NEW t \in Threads, Insert(t) PROVE ReadOnce'
  <2>1. /\ UNCHANGED <<envVars, watch, watchVars, op, buildVars>> /\ \A u \in Threads \ {t} : pc'[u] = pc[u]
        /\ pc[t] = "insert" /\ pc'[t] = "return" /\ phase = "build"
    BY <1>8 DEF Insert, Goto, Shape, Places
  <2>2. ASSUME Alone(t)' PROVE FirstCall(t)'
    <3>1. used = {} /\ directs = 0 /\ Recorded(op[t].cached, op[t].version)
      BY <2>1, <2>2 DEF ReadOnce, FirstCall, Alone
    <3>2. Recorded(op[t].cached, op[t].version)'
      BY <2>1, <3>1 DEF Recorded, Seals, Since
    <3>. QED  BY <2>1, <3>1, <3>2 DEF FirstCall
  <2>. QED  BY <2>1, <2>2, ReadOnceByCall
<1>9. ASSUME NEW t \in Threads, Return(t) PROVE ReadOnce'
  <2>1. /\ UNCHANGED <<envVars, watch, watchVars, readAt>> /\ \A u \in Threads \ {t} : pc'[u] = pc[u]
        /\ pc[t] = "return" /\ pc'[t] = "idle" /\ phase = "build"
        /\ used' = used \cup {op[t].version} /\ reads' = reads + 1
        /\ directs' = IF op[t].cached THEN directs ELSE directs + 1
    BY <1>9 DEF Return, Goto, Shape, Places
  <2>2. UNCHANGED torn
    BY <1>9 DEF Return
  <2>3. Untouched' /\ IsWatched' /\ \A u \in Threads : FirstCall(u)'
    BY <2>1 DEF Untouched, IsWatched, FirstCall, Alone, Shape
  <2>4. ASSUME reads' = 1, AllIdle' PROVE WasRead'
    <3>1. Alone(t)
      BY <2>1, <2>4 DEF Alone, AllIdle, Shape
    <3>2. used = {} /\ directs = 0 /\ Recorded(op[t].cached, op[t].version)
      BY <2>1, <3>1 DEF ReadOnce, FirstCall
    <3>3. (directs' = 0) <=> op[t].cached
      BY <2>1, <3>2
    <3>4. Recorded(directs' = 0, op[t].version) <=> Recorded(op[t].cached, op[t].version)
      BY <3>3 DEF Recorded
    <3>5. \A v : Recorded(directs' = 0, v) => Recorded(directs = 0, v)'
      BY <2>1, <2>2 DEF Recorded, Seals, Since
    <3>6. used' = {op[t].version}
      BY <2>1, <3>2
    <3>. QED  BY <3>2, <3>4, <3>5, <3>6 DEF WasRead
  <2>5. WasRead'
    BY <2>4 DEF WasRead
  <2>. QED  BY <2>3, <2>5 DEF ReadOnce
<1>10. CASE CopyWatchData
  <2>1. /\ UNCHANGED <<envVars, watch, pc, op, used, reads, directs, readAt>>
        /\ phase = "build" /\ phase' = "keys"
    BY <1>10 DEF CopyWatchData
  <2>2. UNCHANGED torn
    BY <1>10 DEF CopyWatchData
  <2>3. WasRead => WasRead'
    BY <2>1, <2>2 DEF WasRead, AllIdle, Recorded, Seals, Since
  <2>. QED  BY <2>1, <2>3 DEF ReadOnce, Untouched, IsWatched, FirstCall, Alone
<1>11. CASE FillModKey
  <2>1. /\ UNCHANGED <<envVars, watch, pc, op, used, reads, directs, readAt>>
        /\ phase = "keys" /\ phase' = "watch" /\ keyAt' = clock /\ callback = watch
        /\ AllIdle
    BY <1>11 DEF FillModKey, Places, AllIdle
  <2>2. UNCHANGED torn
    BY <1>11 DEF FillModKey
  <2>3. ASSUME reads = 1 PROVE IsWatched'
    <3>1. PICK v \in used : used = {v} /\ Recorded(directs = 0, v)
      BY <2>1, <2>3 DEF ReadOnce, WasRead
    <3>2. Watched(v)'
      <4>1. CASE callback.state # "FileNeedModKey"
        <5>1. callback' = callback
          BY <1>11, <4>1 DEF FillModKey
        <5>. QED  BY <2>1, <2>2, <3>1, <4>1, <5>1 DEF Recorded, Watched, Seals
      <4>2. CASE callback.state = "FileNeedModKey"
        <5>. DEFINE key == ModificationKey
        <5>1. callback' = [callback EXCEPT !.state = StateFor(key),
                              !.key = IF key.status = "ok" THEN key.key ELSE @]
          BY <1>11, <4>2 DEF FillModKey
        <5>2. /\ callback'.state = StateFor(key) /\ callback'.contents = callback.contents
              /\ callback'.key = IF key.status = "ok" THEN key.key ELSE callback.key
          BY <5>1 DEF Shape, Watches
        <5>3. /\ key.status \in {"ok", "unusable", "missing"}
              /\ key.status = "ok" => key.key = file.mtime /\ file.mtime + Gap <= clock /\ file.mtime < clock
          BY KeyOfTheFile DEF Stats
        <5>4. callback'.state = CASE key.status = "ok" -> "FileHasModKey"
                                  [] key.status = "unusable" -> "FileUnusableModKey"
                                  [] key.status = "missing" -> "FileMissing"
          BY <5>2 DEF StateFor
        <5>. HIDE DEF key
        <5>5. directs # 0 /\ callback.contents = v /\ Since(v)
          BY <2>1, <3>1, <4>2 DEF Recorded
        <5>6. CASE key.status = "ok"
          <6>1. Quick' => file.mtime < readAt
            BY <2>1, <5>3, <5>6, WatchedFilesAssumption DEF Quick, Shape
          <6>2. Quick' => Seals(callback.key, v)'
            BY <2>1, <5>2, <5>3, <5>5, <5>6, <6>1 DEF Seals, Since
          <6>3. callback'.state = "FileHasModKey"
            BY <5>4, <5>6
          <6>. QED  BY <2>1, <5>5, <6>2, <6>3 DEF Watched, Seals
        <5>7. CASE key.status = "unusable"
          BY <5>2, <5>4, <5>5, <5>7 DEF Watched
        <5>8. CASE key.status = "missing"
          BY <2>1, <5>4, <5>5, <5>8 DEF Watched
        <5>. QED  BY <5>3, <5>6, <5>7, <5>8
      <4>. QED  BY <4>1, <4>2
    <3>. QED  BY <2>1, <3>1, <3>2 DEF IsWatched
  <2>4. IsWatched'
    BY <2>1, <2>3 DEF IsWatched
  <2>. QED  BY <2>1, <2>4 DEF ReadOnce, Untouched, WasRead, FirstCall, Alone
<1>12. CASE NextBuild
  <2>1. /\ phase' = "build" /\ reads' = 0 /\ AllIdle' /\ watch' = Absent
        /\ used' = {} /\ directs' = 0 /\ readAt' = 0
    BY <1>12 DEF NextBuild, AllIdle, Places
  <2>2. torn' = FALSE
    BY <1>12 DEF NextBuild
  <2>3. Blank'
    BY <2>1, <2>2 DEF Blank
  <2>. QED  BY <2>1, <2>3 DEF ReadOnce, Untouched, WasRead, IsWatched, FirstCall, Alone, AllIdle, Absent
<1>13. CASE UNCHANGED vars
  BY <1>13, ReadOnceStays DEF vars
<1>. QED
  BY <1>1, <1>2, <1>3, <1>4, <1>5, <1>6, <1>7, <1>8, <1>9, <1>10, <1>11, <1>12, <1>13,
     StepsOfTheFile DEF ThreadSteps

-----------------------------------------------------------------------------
(* A build during which the file is not edited: its steps.                 *)

\* What a read got is what there is.
LEMMA GotTheFile ==
    ASSUME Fresh, Unedited, ~edited, NEW t \in Threads, pc[t] \in {"recordRead", "return"}
    PROVE  op[t].version = file.version
BY DEF Fresh, FreshCall, Unedited, Seen

\* A step of one call, by which builds that read in both ways stay so.
LEMMA UneditedByCall ==
    ASSUME Shape, Unedited, NEW t \in Threads,
           UNCHANGED <<file, clock, edited>>, phase = "build", phase' = "build",
           \A u \in Threads \ {t} : pc'[u] = pc[u] /\ op'[u] = op[u],
           ~edited => Seen(t)',
           ~edited /\ Matches /\ (CachedOnly \/ DirectOnly) /\ (CachedOnly' \/ DirectOnly') => Matches',
           CachedOnly' => CachedOnly, DirectOnly' => DirectOnly
    PROVE  Unedited'
<1>. SUFFICES ASSUME ~edited PROVE Unedited'
  BY DEF Unedited
<1>1. \A u \in Threads \ {t} : Seen(u)'
  BY DEF Unedited, Seen, Sees
<1>2. CachedOnly' \/ DirectOnly' => Matches'
  BY DEF Unedited
<1>. QED  BY <1>1, <1>2 DEF Unedited

\* Only a build that has not begun to read reads in both ways.
LEMMA BothWays ==
    ASSUME Shape, Untouched, CachedOnly, DirectOnly, phase = "build"
    PROVE  watch.state = "Absent"
<1>1. AllIdle /\ reads = 0
  BY OpTypes DEF CachedOnly, DirectOnly, AllIdle
<1>. QED  BY <1>1 DEF Untouched, Absent

LEMMA UneditedStep ==
    ASSUME Shape, Places, Fresh, Untouched, Unedited, [Next]_vars
    PROVE  Unedited'
<1>. USE DEF envVars, buildVars, watchVars
<1>1. CASE Tick
  <2>. SUFFICES ASSUME ~edited PROVE Unedited'
    BY <1>1 DEF Tick, Unedited
  <2>1. clock' = clock + 1 /\ UNCHANGED <<file, written, cache, watch, watchVars, pc, op>>
    BY <1>1 DEF Tick
  <2>2. UNCHANGED <<used, reads, directs, readAt>>
    BY <1>1 DEF Tick
  <2>3. UNCHANGED <<CachedOnly, DirectOnly, BeingRead>>
    BY <2>1, <2>2 DEF CachedOnly, DirectOnly, BeingRead
  <2>4. file.mtime + Gap <= clock => file.mtime + Gap <= clock'
    BY <2>1, WatchedFilesAssumption DEF Shape
  <2>5. \A t \in Threads : Seen(t)'
    BY <2>1, <2>4 DEF Unedited, Seen, Sees
  <2>6. Matches => Matches'
    BY <2>1, <2>3, <2>4 DEF Matches
  <2>7. phase = "watch" /\ ~Dirty => ~Dirty'
    <3>1. phase = "watch" => callback.state \in {"FileHasModKey", "FileMissing", "FileUnusableModKey"}
      BY DEF Places, WatchStates
    <3>2. CASE callback.state = "FileHasModKey"
      <4>. SUFFICES ASSUME ~Dirty PROVE ~Dirty'
        OBVIOUS
      <4>1. file.version # 0 /\ callback.key = file.mtime /\ file.mtime + Gap <= clock
        BY <3>2, KeyOfTheFile DEF Dirty, Stats
      <4>2. ModificationKey' = [status |-> "ok", key |-> file.mtime]
        BY <2>1, <2>4, <4>1, WatchedFilesAssumption DEF ModificationKey, Shape
      <4>. QED  BY <2>1, <3>2, <4>1, <4>2 DEF Dirty
    <3>3. CASE callback.state \in {"FileMissing", "FileUnusableModKey"}
      BY <2>1, <3>3 DEF Dirty
    <3>. QED  BY <3>1, <3>2, <3>3
  <2>. QED  BY <2>1, <2>2, <2>3, <2>5, <2>6, <2>7 DEF Unedited
<1>2. CASE Write \/ Delete
  BY <1>2, Edits DEF Unedited
<1>3. ASSUME NEW t \in Threads, ReadCached(t) \/ ReadDirect(t) PROVE Unedited'
  <2>1. /\ \A u \in Threads \ {t} : pc'[u] = pc[u] /\ op'[u] = op[u]
        /\ phase = "build" /\ pc[t] = "idle"
        /\ \/ pc'[t] = "stat" /\ op'[t] = NewOp(TRUE)
           \/ pc'[t] = "read" /\ op'[t] = NewOp(FALSE)
        /\ UNCHANGED <<envVars, watch, phase, reads, directs>>
    BY <1>3, BeginsAnew DEF Shape
  <2>2. UNCHANGED edited
    BY <1>3, BeginsAnew
  <2>3. Seen(t)'
    BY <2>1 DEF Seen, NewOp
  <2>4. (CachedOnly' => CachedOnly) /\ (DirectOnly' => DirectOnly)
    BY <2>1 DEF CachedOnly, DirectOnly
  <2>5. Matches /\ (CachedOnly \/ DirectOnly) /\ (CachedOnly' \/ DirectOnly') => Matches'
    <3>1. BeingRead => BeingRead'
      BY <2>1 DEF BeingRead
    <3>. QED  BY <2>1, <2>4, <3>1, BothWays DEF Matches
  <2>. QED  BY <2>1, <2>2, <2>3, <2>4, <2>5, UneditedByCall
<1>4. ASSUME NEW t \in Threads, StatFile(t) PROVE Unedited'
  <2>1. /\ \A u \in Threads \ {t} : pc'[u] = pc[u] /\ op'[u] = op[u]
        /\ phase = "build" /\ pc[t] = "stat" /\ pc'[t] = "record"
        /\ op'[t] = [op[t] EXCEPT !.stat = ModificationKey]
        /\ UNCHANGED <<envVars, watch, phase, reads, directs>>
    BY <1>4 DEF StatFile, Goto, Shape, Places
  <2>2. UNCHANGED edited
    BY <1>4 DEF StatFile
  <2>3. op'[t].during = op[t].during /\ op'[t].cached = op[t].cached /\ op'[t].stat = ModificationKey
    BY <2>1, OpTypes DEF Ops
  <2>4. Sees(ModificationKey)'
    BY <2>1, <2>3, WatchedFilesAssumption DEF Sees, ModificationKey, Shape
  <2>5. ~edited => Seen(t)'
    BY <2>1, <2>3, WatchedFilesAssumption DEF Unedited, Seen, Sees, ModificationKey, Shape
  <2>6. (CachedOnly' <=> CachedOnly) /\ (DirectOnly' <=> DirectOnly) /\ (BeingRead' <=> BeingRead)
    BY <2>1, <2>3 DEF CachedOnly, DirectOnly, BeingRead
  <2>7. Matches => Matches'
    BY <2>1, <2>6 DEF Matches
  <2>. QED  BY <2>1, <2>2, <2>5, <2>6, <2>7, UneditedByCall
<1>5. ASSUME NEW t \in Threads, RecordModKey(t) PROVE Unedited'
  <2>1. /\ \A u \in Threads \ {t} : pc'[u] = pc[u] /\ op'[u] = op[u]
        /\ phase = "build" /\ pc[t] = "record" /\ op[t].cached
        /\ \/ op[t].stat.status = "ok" /\ pc'[t] = "return"
              /\ op'[t] = [op[t] EXCEPT !.version = op[t].entry.version]
           \/ pc'[t] = "read" /\ op'[t] = op[t]
        /\ watch' = AfterModKey(op[t].stat)
        /\ UNCHANGED <<envVars, phase, reads, directs>>
    BY <1>5 DEF RecordModKey, Goto, Hit, Shape, Places
  <2>2. UNCHANGED edited
    BY <1>5 DEF RecordModKey
  <2>3. op'[t].during = op[t].during /\ op'[t].cached = op[t].cached /\ op'[t].stat = op[t].stat
    BY <2>1, OpTypes DEF Ops
  <2>4. ~edited => Seen(t)'
    BY <2>1, <2>3 DEF Unedited, Seen
  <2>5. ~DirectOnly /\ ~DirectOnly' /\ (CachedOnly' <=> CachedOnly)
    BY <2>1, <2>3 DEF CachedOnly, DirectOnly
  <2>6. ASSUME ~edited, Matches, CachedOnly PROVE Matches'
    <3>. DEFINE stat == op[t].stat
    <3>1. Sees(stat) /\ stat \in Stats /\ stat.status # "none"
      BY <2>1, <2>6, OpTypes DEF Unedited, Seen, Places
    <3>2. /\ watch'.contents = watch.contents
          /\ watch'.key = IF stat.status = "ok" THEN stat.key ELSE watch.key
          /\ watch.state = "Absent" => watch'.state = StateFor(stat)
          /\ watch.state \notin {"Absent", "FileNeedModKey"} => watch'.state = watch.state
      BY <2>1, <3>1, AfterModKeyIs
    <3>3. StateFor(stat) = CASE stat.status = "ok" -> "FileHasModKey"
                             [] stat.status = "unusable" -> "FileUnusableModKey"
                             [] stat.status = "missing" -> "FileMissing"
      BY DEF StateFor
    <3>4. BeingRead => BeingRead'
      BY <2>1 DEF BeingRead
    <3>5. stat.status # "ok" => BeingRead'
      BY <2>1 DEF BeingRead
    <3>6. CASE file.version = 0
      BY <2>1, <2>6, <3>1, <3>2, <3>3, <3>6 DEF Matches, Sees
    <3>7. CASE file.version # 0
      <4>1. CASE stat.status = "ok"
        <5>1. StateFor(stat) = "FileHasModKey"
          BY <3>3, <4>1
        <5>2. stat.key = file.mtime /\ file.mtime + Gap <= clock
          BY <3>1, <3>7, <4>1 DEF Sees
        <5>. QED  BY <2>1, <2>5, <2>6, <3>2, <3>4, <3>7, <4>1, <5>1, <5>2 DEF Matches
      <4>2. CASE stat.status = "unusable"
        <5>1. StateFor(stat) = "FileUnusableModKey"
          BY <3>3, <4>2
        <5>. QED  BY <2>1, <2>5, <2>6, <3>2, <3>5, <3>7, <4>2, <5>1 DEF Matches
      <4>. QED  BY <3>1, <3>7, <4>1, <4>2 DEF Sees
    <3>. QED  BY <3>6, <3>7
  <2>. QED  BY <2>1, <2>2, <2>4, <2>5, <2>6, UneditedByCall
<1>6. ASSUME NEW t \in Threads, ReadContents(t) PROVE Unedited'
  <2>1. /\ \A u \in Threads \ {t} : pc'[u] = pc[u] /\ op'[u] = op[u]
        /\ phase = "build" /\ pc[t] = "read" /\ pc'[t] = "recordRead"
        /\ op'[t] = [op[t] EXCEPT !.version = file.version]
        /\ UNCHANGED <<envVars, watch, phase, reads, directs>>
    BY <1>6 DEF ReadContents, Goto, Shape, Places
  <2>2. UNCHANGED edited
    BY <1>6 DEF ReadContents
  <2>3. op'[t].during = op[t].during /\ op'[t].cached = op[t].cached
    BY <2>1, OpTypes DEF Ops
  <2>4. ~edited => Seen(t)'
    BY <2>1, <2>3 DEF Unedited, Seen
  <2>5. (CachedOnly' <=> CachedOnly) /\ (DirectOnly' <=> DirectOnly) /\ (BeingRead' <=> BeingRead)
    BY <2>1, <2>3 DEF CachedOnly, DirectOnly, BeingRead
  <2>6. Matches => Matches'
    BY <2>1, <2>5 DEF Matches
  <2>. QED  BY <2>1, <2>2, <2>4, <2>5, <2>6, UneditedByCall
<1>7. ASSUME NEW t \in Threads, RecordRead(t) PROVE Unedited'
  <2>1. /\ \A u \in Threads \ {t} : pc'[u] = pc[u] /\ op'[u] = op[u]
        /\ phase = "build" /\ pc[t] = "recordRead" /\ pc'[t] \in {"insert", "return"} /\ op'[t] = op[t]
        /\ watch' = AfterRead(op[t].version)
        /\ UNCHANGED <<envVars, phase, reads, directs>>
    BY <1>7 DEF RecordRead, Goto, Shape, Places
  <2>2. UNCHANGED edited
    BY <1>7 DEF RecordRead
  <2>3. ~edited => Seen(t)'
    BY <2>1 DEF Unedited, Seen
  <2>4. (CachedOnly' <=> CachedOnly) /\ (DirectOnly' <=> DirectOnly)
    BY <2>1 DEF CachedOnly, DirectOnly
  <2>5. ASSUME ~edited, Matches, CachedOnly \/ DirectOnly PROVE Matches'
    <3>1. op[t].version = file.version
      BY <2>1, <2>5, GotTheFile
    <3>2. /\ watch'.contents = file.version /\ watch'.key = watch.key
          /\ watch'.state = IF file.version = 0 THEN "FileMissing"
                           ELSE IF watch.state = "Absent" THEN "FileNeedModKey" ELSE watch.state
      BY <2>1, <3>1, OpTypes, AfterReadIs
    <3>3. watch.state = "Absent" /\ file.version # 0 => DirectOnly
      BY <2>1, <2>5 DEF Places, CachedOnly
    <3>. QED  BY <2>1, <2>4, <2>5, <3>2, <3>3 DEF Matches
  <2>. QED  BY <2>1, <2>2, <2>3, <2>4, <2>5, UneditedByCall
<1>8. ASSUME NEW t \in Threads, Insert(t) PROVE Unedited'
  <2>1. /\ \A u \in Threads \ {t} : pc'[u] = pc[u] /\ op'[u] = op[u]
        /\ phase = "build" /\ pc[t] = "insert" /\ pc'[t] = "return" /\ op'[t] = op[t]
        /\ UNCHANGED <<envVars, watch, phase, reads, directs>>
    BY <1>8 DEF Insert, Goto, Shape, Places
  <2>2. UNCHANGED edited
    BY <1>8 DEF Insert
  <2>3. ~edited => Seen(t)'
    BY <2>1 DEF Unedited, Seen
  <2>4. (CachedOnly' <=> CachedOnly) /\ (DirectOnly' <=> DirectOnly) /\ (BeingRead' <=> BeingRead)
    BY <2>1 DEF CachedOnly, DirectOnly, BeingRead
  <2>5. Matches => Matches'
    BY <2>1, <2>4 DEF Matches
  <2>. QED  BY <2>1, <2>2, <2>3, <2>4, <2>5, UneditedByCall
<1>9. ASSUME NEW t \in Threads, Return(t) PROVE Unedited'
  <2>1. /\ \A u \in Threads \ {t} : pc'[u] = pc[u] /\ op'[u] = op[u]
        /\ phase = "build" /\ pc[t] = "return" /\ pc'[t] = "idle"
        /\ UNCHANGED <<envVars, watch, phase>>
        /\ reads' = reads + 1 /\ directs' = IF op[t].cached THEN directs ELSE directs + 1
    BY <1>9 DEF Return, Goto, Shape, Places
  <2>2. UNCHANGED edited
    BY <1>9 DEF Return
  <2>3. Seen(t)'
    BY <2>1 DEF Seen
  <2>4. (CachedOnly' => CachedOnly) /\ (DirectOnly' => DirectOnly) /\ (BeingRead' <=> BeingRead)
        /\ ~(CachedOnly' /\ DirectOnly') /\ (CachedOnly' \/ DirectOnly' => ~(CachedOnly /\ DirectOnly))
    BY <2>1, OpTypes DEF CachedOnly, DirectOnly, BeingRead, Shape
  <2>5. Matches /\ (CachedOnly' \/ DirectOnly') => Matches'
    BY <2>1, <2>4 DEF Matches
  <2>. QED  BY <2>1, <2>2, <2>3, <2>4, <2>5, UneditedByCall
<1>10. CASE CopyWatchData
  <2>1. phase = "build" /\ phase' = "keys" /\ UNCHANGED <<envVars, watch, pc, op, reads, directs>>
    BY <1>10 DEF CopyWatchData
  <2>2. UNCHANGED edited
    BY <1>10 DEF CopyWatchData
  <2>3. (CachedOnly' <=> CachedOnly) /\ (DirectOnly' <=> DirectOnly) /\ (BeingRead' <=> BeingRead)
    BY <2>1 DEF CachedOnly, DirectOnly, BeingRead
  <2>4. Matches' <=> Matches
    BY <2>1, <2>3 DEF Matches
  <2>. QED  BY <2>1, <2>2, <2>3, <2>4 DEF Unedited, Seen, Sees
<1>11. CASE FillModKey
  <2>. SUFFICES ASSUME ~edited PROVE Unedited'
    BY <1>11 DEF FillModKey, Unedited
  <2>1. /\ phase = "keys" /\ phase' = "watch" /\ UNCHANGED <<envVars, watch, pc, op, reads, directs>>
        /\ callback = watch /\ AllIdle /\ callback.state # "Absent"
    BY <1>11 DEF FillModKey, Places, AllIdle
  <2>2. \A t \in Threads : Seen(t)'
    BY <2>1 DEF Seen, AllIdle
  <2>3. ASSUME directs \in {0, reads} PROVE ~Dirty'
    <3>1. Matches /\ ~BeingRead
      BY <2>1, <2>3 DEF Unedited, CachedOnly, DirectOnly, AllIdle, BeingRead
    <3>2. ModificationKey' = ModificationKey
      BY <2>1 DEF ModificationKey
    <3>3. CASE callback.state # "FileNeedModKey"
      <4>1. callback' = callback
        BY <1>11, <3>3 DEF FillModKey
      <4>2. CASE callback.state = "FileMissing"
        BY <2>1, <3>1, <4>1, <4>2 DEF Matches, Dirty
      <4>3. CASE callback.state = "FileHasModKey"
        <5>1. file.version # 0 /\ callback.key = file.mtime /\ file.mtime + Gap <= clock
          BY <2>1, <3>1, <4>3 DEF Matches
        <5>2. ModificationKey = [status |-> "ok", key |-> file.mtime]
          BY <5>1, WatchedFilesAssumption DEF ModificationKey, Shape
        <5>. QED  BY <3>2, <4>1, <4>3, <5>1, <5>2 DEF Dirty
      <4>4. CASE callback.state = "FileUnusableModKey"
        <5>1. file.version # 0 /\ callback.contents = file.version
          BY <2>1, <3>1, <4>4 DEF Matches
        <5>. QED  BY <2>1, <4>1, <4>4, <5>1 DEF Dirty
      <4>. QED  BY <2>1, <3>1, <3>3, <4>2, <4>3, <4>4 DEF Matches
    <3>4. CASE callback.state = "FileNeedModKey"
      <4>. DEFINE key == ModificationKey
      <4>1. file.version # 0 /\ callback.contents = file.version
        BY <2>1, <3>1, <3>4 DEF Matches
      <4>2. /\ callback'.state = StateFor(key) /\ callback'.contents = callback.contents
            /\ callback'.key = IF key.status = "ok" THEN key.key ELSE callback.key
        BY <1>11, <3>4 DEF FillModKey, Shape, Watches
      <4>3. key.status \in {"ok", "unusable"} /\ (key.status = "ok" => key.key = file.mtime)
        BY <4>1, KeyOfTheFile DEF Stats
      <4>4. callback'.state = CASE key.status = "ok" -> "FileHasModKey"
                                [] key.status = "unusable" -> "FileUnusableModKey"
                                [] key.status = "missing" -> "FileMissing"
        BY <4>2 DEF StateFor
      <4>. HIDE DEF key
      <4>5. CASE key.status = "ok"
        <5>1. callback'.state = "FileHasModKey" /\ callback'.key = key.key
          BY <4>2, <4>4, <4>5
        <5>. QED  BY <3>2, <4>5, <5>1 DEF Dirty, key
      <4>6. CASE key.status = "unusable"
        <5>1. callback'.state = "FileUnusableModKey" /\ callback'.contents = file.version
          BY <4>1, <4>2, <4>4, <4>6
        <5>. QED  BY <2>1, <4>1, <5>1 DEF Dirty
      <4>. QED  BY <4>3, <4>5, <4>6
    <3>. QED  BY <3>3, <3>4
  <2>. QED  BY <2>1, <2>2, <2>3 DEF Unedited
<1>12. CASE NextBuild
  <2>1. phase' = "build" /\ watch' = Absent /\ UNCHANGED <<envVars, pc, op>> /\ AllIdle
    BY <1>12 DEF NextBuild, Places, AllIdle
  <2>2. Matches' /\ \A t \in Threads : Seen(t)'
    BY <2>1 DEF Matches, Absent, Seen, AllIdle
  <2>. QED  BY <2>1, <2>2 DEF Unedited
<1>13. CASE UNCHANGED vars
  <2>1. UNCHANGED <<clock, file, watch, phase, callback, pc, op, reads, directs>>
    BY <1>13 DEF vars
  <2>2. UNCHANGED edited
    BY <1>13 DEF vars
  <2>3. UNCHANGED <<Matches, CachedOnly, DirectOnly, Dirty>> /\ \A t \in Threads : Seen(t) => Seen(t)'
    BY <2>1 DEF Matches, CachedOnly, DirectOnly, BeingRead, Dirty, ModificationKey, Seen, Sees
  <2>. QED  BY <2>1, <2>2, <2>3 DEF Unedited
<1>. QED
  BY <1>1, <1>2, <1>3, <1>4, <1>5, <1>6, <1>7, <1>8, <1>9, <1>10, <1>11, <1>12, <1>13,
     StepsOfTheFile DEF ThreadSteps

-----------------------------------------------------------------------------
(* The files: the theorems.                                                *)

LEMMA FileInitially == Init => FileInv
<1>. SUFFICES ASSUME Init PROVE FileInv
  OBVIOUS
<1>. USE WatchedFilesAssumption DEF Init
<1>1. Shape
  <2>1. NoEntry \in Entries /\ NoStat \in Stats /\ Absent \in Watches
    BY DEF NoEntry, NoStat, Entries, Stats, Absent, Watches
  <2>2. NoOp \in Ops
    BY <2>1 DEF NoOp, Ops
  <2>3. file \in [version : Nat, mtime : Nat \ {0}] /\ file.mtime <= clock
    OBVIOUS
  <2>4. torn \in BOOLEAN /\ edited \in BOOLEAN
    OBVIOUS
  <2>. QED  BY <2>1, <2>2, <2>3, <2>4 DEF Shape
<1>2. AllIdle
  BY DEF AllIdle
<1>3. Places
  BY <1>2 DEF Places, AllIdle, NoEntry, NoOp
<1>4. Fresh
  BY <1>2 DEF AllIdle, Fresh, FreshCall, NoEntry
<1>5. ReadOnce
  BY <1>2 DEF ReadOnce, Untouched, Blank, FirstCall, Alone, AllIdle, WasRead, IsWatched, Absent
<1>6. Unedited
  BY <1>2 DEF Unedited, Seen, AllIdle, Matches, Absent
<1>. QED  BY <1>1, <1>3, <1>4, <1>5, <1>6 DEF FileInv

LEMMA FileStep == FileInv /\ [Next]_vars => FileInv'
BY ShapeStep, PlacesStep, FreshStep, ReadOnceStep, UneditedStep DEF FileInv, ReadOnce

LEMMA FileTypes == FileInv => TypeOK
BY DEF FileInv, Shape, Places, TypeOK, Entries, Watches

\* A key that seals a version reports every other one.
LEMMA FileEditsSeen == FileInv => EditsAreSeen
<1>. SUFFICES ASSUME FileInv, phase = "watch", reads = 1,
                     directs = 0 \/ (Quick /\ file.version # 0),
                     torn => file.version # 0,
                     file.version \notin used
              PROVE  Dirty
  BY DEF EditsAreSeen
<1>1. PICK v \in used : Watched(v)
  BY DEF FileInv, ReadOnce, IsWatched
<1>2. file.version # v
  OBVIOUS
<1>3. CASE callback.state = "FileHasModKey"
  <2>1. Seals(callback.key, v)
    BY <1>1, <1>3 DEF Watched
  <2>2. ~(ModificationKey.status = "ok" /\ ModificationKey.key = callback.key)
    BY <1>2, <2>1, KeyOfTheFile DEF Seals, FileInv
  <2>. QED  BY <1>3, <2>2 DEF Dirty
<1>4. CASE callback.state = "FileUnusableModKey"
  BY <1>1, <1>2, <1>4 DEF Watched, Dirty
<1>5. CASE callback.state = "FileMissing"
  BY <1>1, <1>2, <1>5 DEF Watched, Dirty
<1>. QED  BY <1>1, <1>3, <1>4, <1>5 DEF Watched

LEMMA FileAlarms == FileInv => NoFalseAlarm
BY DEF FileInv, Unedited, NoFalseAlarm

LEMMA FileFresh == FileInv => CacheIsFresh
BY DEF FileInv, Fresh, FreshCall, CacheIsFresh

\* A read through FsCache returns contents the file had during the call, for
\* any number of threads that fill the cache and any positive safety gap.
THEOREM CacheStaysFresh == Spec => []CacheIsFresh
BY FileInitially, FileStep, FileFresh, PTL DEF Spec

-----------------------------------------------------------------------------
(* The limit on open files, for every limit and every finite set of threads. *)

LimitInv == OpenTypeOK /\ PlacesAreHandedOn

(* The sets of threads are finite, so that their sizes are numbers.        *)
LEMMA OpenersAreFinite ==
    /\ IsFiniteSet(Open) /\ IsFiniteSet(Woken)
    /\ Cardinality(Open) \in Nat /\ Cardinality(Woken) \in Nat
<1>1. Open \subseteq Openers /\ Woken \subseteq Openers
  BY DEF Open, Woken
<1>. QED BY <1>1, LimitAssumption, FS_Subset, FS_CardinalityType

(* The step of a thread that has the mutex and looks at the counter, from  *)
(* outside or from the condition variable.                                 *)
LEMMA RecheckKeepsLimit ==
    ASSUME LimitInv, NEW t \in Openers, opening[t] \in {"idle", "woken"}, Recheck(t)
    PROVE LimitInv'
<1>. USE OpenersAreFinite, LimitAssumption DEF LimitInv, OpenTypeOK, PlacesAreHandedOn, LimitHolds, NoWakeupIsLost
<1>1. CASE count >= Limit
  <2>1. Open' = Open
    BY <1>1 DEF Recheck, Open
  <2>2. count' = count /\ count' >= Limit
    BY <1>1 DEF Recheck
  <2>3. Cardinality(Woken)' \in Nat
    <3>1. Woken' \subseteq Openers
      BY DEF Woken
    <3>. QED BY <3>1, FS_Subset, FS_CardinalityType
  <2>4. OpenTypeOK'
    BY <1>1 DEF Recheck
  <2>. QED BY <2>1, <2>2, <2>3, <2>4
<1>2. CASE count < Limit
  <2>1. Open' = Open \cup {t} /\ t \notin Open
    BY <1>2 DEF Recheck, Open
  <2>2. Cardinality(Open') = Cardinality(Open) + 1
    BY <2>1, FS_AddElement
  <2>3. count' = count + 1 /\ OpenTypeOK'
    BY <1>2 DEF Recheck
  <2>4. Waiting' = Waiting
    BY <1>2 DEF Recheck, Waiting
  <2>5. Woken' = Woken \ {t}
    BY <1>2 DEF Recheck, Woken
  <2>6. Cardinality(Woken') \in Nat /\ Cardinality(Woken') >= Cardinality(Woken) - 1
    <3>1. CASE t \in Woken
      <4>1. Cardinality(Woken \ {t}) = Cardinality(Woken) - 1 /\ IsFiniteSet(Woken \ {t})
        BY <3>1, FS_RemoveElement
      <4>. QED BY <2>5, <4>1, FS_CardinalityType
    <3>2. CASE t \notin Woken
      <4>1. Woken' = Woken
        BY <2>5, <3>2
      <4>. QED BY <4>1
    <3>. QED BY <3>1, <3>2
  <2>. QED BY <1>2, <2>2, <2>3, <2>4, <2>6
<1>. QED BY <1>1, <1>2

(* A thread that closes its file frees its place and wakes another one for *)
(* it, if any waits.                                                       *)
LEMMA CloseKeepsLimit ==
    ASSUME LimitInv, NEW t \in Openers, AfterFileClose(t)
    PROVE LimitInv'
<1>. USE OpenersAreFinite, LimitAssumption DEF LimitInv, OpenTypeOK, PlacesAreHandedOn, LimitHolds, NoWakeupIsLost
<1>1. t \in Open
  BY DEF AfterFileClose, Open
<1>2. Cardinality(Open \ {t}) = Cardinality(Open) - 1
  BY <1>1, FS_RemoveElement
<1>3. count' = count - 1 /\ count' \in Nat
  <2>1. Cardinality(Open) # 0
    BY <1>1, FS_EmptySet
  <2>. QED BY <2>1 DEF AfterFileClose
<1>4. CASE Waiting = {}
  <2>1. opening' = [opening EXCEPT ![t] = "idle"]
    BY <1>4 DEF AfterFileClose, NotifyOne
  <2>2. Open' = Open \ {t} /\ Waiting' = {}
    BY <1>4, <2>1 DEF Open, Waiting
  <2>. QED BY <1>2, <1>3, <2>1, <2>2
<1>5. CASE Waiting # {}
  <2>1. PICK u \in Waiting : opening' = [opening EXCEPT ![t] = "idle", ![u] = "woken"]
    BY <1>5 DEF AfterFileClose, NotifyOne
  <2>2. u \in Openers /\ u # t /\ u \notin Woken
    BY <1>1 DEF Waiting, Woken, Open
  <2>3. Open' = Open \ {t}
    BY <2>1, <2>2 DEF Open, Waiting
  <2>4. Woken' = Woken \cup {u}
    BY <1>1, <2>1, <2>2 DEF Open, Woken
  <2>5. Cardinality(Woken') = Cardinality(Woken) + 1
    BY <2>2, <2>4, FS_AddElement
  <2>6. OpenTypeOK'
    BY <1>3, <2>1, <2>2
  <2>. QED BY <1>2, <1>3, <1>5, <2>3, <2>5, <2>6
<1>. QED BY <1>4, <1>5

LEMMA LimitInitially == OpenInit => LimitInv
<1>. SUFFICES ASSUME OpenInit PROVE LimitInv
  OBVIOUS
<1>1. Open = {} /\ Waiting = {}
  BY DEF OpenInit, Open, Waiting
<1>. QED BY <1>1, FS_EmptySet, LimitAssumption
         DEF OpenInit, LimitInv, OpenTypeOK, PlacesAreHandedOn, LimitHolds, NoWakeupIsLost

LEMMA LimitStep == LimitInv /\ [OpenNext]_openVars => LimitInv'
<1>. SUFFICES ASSUME LimitInv, [OpenNext]_openVars PROVE LimitInv'
  OBVIOUS
<1>1. ASSUME NEW t \in Openers, BeforeFileOpen(t) PROVE LimitInv'
  BY <1>1, RecheckKeepsLimit DEF BeforeFileOpen
<1>2. ASSUME NEW t \in Openers, WaitReturns(t) PROVE LimitInv'
  BY <1>2, RecheckKeepsLimit DEF WaitReturns
<1>3. ASSUME NEW t \in Openers, WakeSpuriously(t) PROVE LimitInv'
  <2>1. Open' = Open
    BY <1>3 DEF WakeSpuriously, Open
  <2>2. Woken' = Woken \cup {t} /\ t \notin Woken
    BY <1>3 DEF WakeSpuriously, Woken, LimitInv, OpenTypeOK
  <2>3. Cardinality(Woken') = Cardinality(Woken) + 1
    BY <2>2, OpenersAreFinite, FS_AddElement
  <2>4. t \in Waiting
    BY <1>3 DEF WakeSpuriously, Waiting
  <2>5. OpenTypeOK'
    BY <1>3 DEF WakeSpuriously, LimitInv, OpenTypeOK
  <2>. QED BY <1>3, <2>1, <2>3, <2>4, <2>5, OpenersAreFinite, LimitAssumption
           DEF WakeSpuriously, LimitInv, OpenTypeOK, PlacesAreHandedOn, LimitHolds, NoWakeupIsLost
<1>4. ASSUME NEW t \in Openers, AfterFileClose(t) PROVE LimitInv'
  BY <1>4, CloseKeepsLimit
<1>5. CASE UNCHANGED openVars
  BY <1>5 DEF openVars, LimitInv, OpenTypeOK, PlacesAreHandedOn, LimitHolds, NoWakeupIsLost,
              Open, Woken, Waiting
<1>. QED BY <1>1, <1>2, <1>3, <1>4, <1>5 DEF OpenNext

(* At most Limit files are open at a time, and while a thread waits every  *)
(* free place has a thread on its way to it.  NoWakeupIsLost is inductive  *)
(* because it counts the woken threads: closing a file turns a used place  *)
(* into a woken thread, and a thread that overtakes uses it up.            *)
THEOREM OpenFilesAreLimited == OpenSpec => []PlacesAreHandedOn
<1>1. LimitInv => PlacesAreHandedOn
  BY DEF LimitInv
<1>. QED BY <1>1, LimitInitially, LimitStep, PTL DEF OpenSpec

-----------------------------------------------------------------------------
(* The directory.                                                          *)

LowerNames == {Fold(n) : n \in Names}

DirEntries ==
    [made : BOOLEAN, unreadable : BOOLEAN,
     data : UNION {[F -> Names] : F \in SUBSET LowerNames},
     present : UNION {[F -> BOOLEAN] : F \in SUBSET LowerNames},
     all : {<<>>} \cup {<<S>> : S \in SUBSET Names},
     listed : SUBSET Names]

DirShape ==
    /\ names \subseteq Names /\ readable \in BOOLEAN
    /\ entries \in [Threads -> DirEntries]
    /\ cached \in Threads \cup {Nobody} /\ watched \in Threads \cup {Nobody}
    /\ uses \in [Threads -> Threads \cup {Nobody}]
    /\ readerAt \in [Threads -> {"idle", "read", "record", "cache", "use"}]

\* Whatever is cached, watched or in use was read.
AllMade ==
    /\ cached # Nobody => entries[cached].made
    /\ watched # Nobody => entries[watched].made
    /\ \A t \in Threads :
          /\ readerAt[t] \in {"record", "cache"} => entries[t].made
          /\ readerAt[t] = "use" => uses[t] # Nobody /\ entries[uses[t]].made

\* The answers given are those of the names that were listed.
Lists(f, ns) == DOMAIN f = {Fold(n) : n \in ns} /\ \A k \in DOMAIN f : f[k] \in ns /\ Fold(f[k]) = k
Truthful(e) ==
    /\ \A k \in DOMAIN e.present : e.present[k] = (k \in DOMAIN e.data)
    /\ e.all # <<>> => e.all = <<{e.data[k] : k \in DOMAIN e.data}>>
    /\ e.made /\ ~e.unreadable => Lists(e.data, e.listed)

AnswersAreTrue == \A t \in Threads : Truthful(entries[t])

DirInv == DirShape /\ AllMade /\ AnswersAreTrue

LEMMA DirSteps ==
    ASSUME [D!Next]_dirVars
    PROVE  \/ D!ChangeDisk \/ D!NextBuild
           \/ \E t \in Threads : D!Lookup(t) \/ D!ReadDir(t) \/ D!RecordDir(t) \/ D!CacheDir(t)
           \/ \E t \in Threads : D!SortedKeys(t) \/ \E n \in Names : D!Get(t, n)
           \/ UNCHANGED dirVars
BY DEF D!Next

LEMMA TablesAre ==
    ASSUME NEW ns \in SUBSET Names, NEW f \in D!Tables(ns)
    PROVE  Lists(f, ns) /\ f \in UNION {[F -> Names] : F \in SUBSET LowerNames}
<1>1. Lists(f, ns) /\ f \in [DOMAIN f -> ns]
  BY DEF D!Tables, Lists
<1>2. DOMAIN f \in SUBSET LowerNames /\ f \in [DOMAIN f -> Names]
  BY <1>1 DEF Lists, LowerNames
<1>. QED  BY <1>1, <1>2

LEMMA NoEntriesAre == D!NoEntries \in DirEntries
<1>1. <<>> \in [{} -> Names] /\ <<>> \in [{} -> BOOLEAN]
  OBVIOUS
<1>2. {} \in SUBSET LowerNames
  OBVIOUS
<1>. QED  BY <1>1, <1>2 DEF D!NoEntries, DirEntries

\* An answer that is looked up, or a list that is made, is true of the names.
LEMMA DirAnswers ==
    ASSUME DirInv, NEW t \in Threads, readerAt[t] = "use", NEW d \in DirEntries,
           d.made = entries[uses[t]].made, d.unreadable = entries[uses[t]].unreadable,
           d.data = entries[uses[t]].data, d.listed = entries[uses[t]].listed,
           Truthful(d),
           entries' = [entries EXCEPT ![uses[t]] = d],
           UNCHANGED <<names, readable, cached, watched, uses, readerAt>>
    PROVE  DirInv'
<1>1. uses[t] \in Threads /\ entries[uses[t]].made
  BY DEF DirInv, DirShape, AllMade
<1>2. \A u \in Threads : entries'[u] = IF u = uses[t] THEN d ELSE entries[u]
  BY <1>1 DEF DirInv, DirShape
<1>3. DirShape'
  BY <1>1 DEF DirInv, DirShape
<1>4. AllMade'
  BY <1>1, <1>2 DEF DirInv, DirShape, AllMade
<1>5. AnswersAreTrue'
  BY <1>2 DEF DirInv, AnswersAreTrue
<1>. QED  BY <1>3, <1>4, <1>5 DEF DirInv

LEMMA EntriesKept == AnswersAreTrue /\ UNCHANGED entries => AnswersAreTrue'
BY DEF AnswersAreTrue

LEMMA DirInitially == D!Init => DirInv
<1>. SUFFICES ASSUME D!Init PROVE DirInv
  OBVIOUS
<1>1. DirShape
  BY NoEntriesAre DEF D!Init, DirShape
<1>2. AllMade /\ AnswersAreTrue
  BY DEF D!Init, D!NoEntries, AllMade, AnswersAreTrue, Truthful
<1>. QED  BY <1>1, <1>2 DEF DirInv

LEMMA DirStep == ASSUME DirInv, [D!Next]_dirVars PROVE DirInv'
<1>. USE NobodyAssumption
<1>1. CASE D!ChangeDisk
  <2>1. names' \subseteq Names /\ readable' \in BOOLEAN
    BY <1>1 DEF D!ChangeDisk, DirInv, DirShape
  <2>2. UNCHANGED <<entries, cached, watched, uses, readerAt>>
    BY <1>1 DEF D!ChangeDisk
  <2>. QED  BY <2>1, <2>2, EntriesKept DEF DirInv, DirShape, AllMade
<1>2. CASE D!NextBuild
  <2>1. /\ entries' = [t \in Threads |-> D!NoEntries] /\ cached' = Nobody /\ watched' = Nobody
        /\ uses' = [t \in Threads |-> Nobody] /\ readerAt' = [t \in Threads |-> "idle"]
        /\ UNCHANGED <<names, readable>>
    BY <1>2 DEF D!NextBuild, D!diskVars
  <2>2. DirShape'
    BY <2>1, NoEntriesAre DEF DirInv, DirShape
  <2>3. AllMade' /\ AnswersAreTrue'
    BY <2>1 DEF AllMade, AnswersAreTrue, Truthful, D!NoEntries
  <2>. QED  BY <2>2, <2>3 DEF DirInv
<1>3. ASSUME NEW t \in Threads, D!Lookup(t) PROVE DirInv'
  BY <1>3, EntriesKept DEF D!Lookup, D!diskVars, DirInv, DirShape, AllMade
<1>4. ASSUME NEW t \in Threads, D!ReadDir(t) PROVE DirInv'
  <2>1. PICK table \in IF readable THEN D!Tables(names) ELSE {<<>>} :
           entries' = [entries EXCEPT ![t] = [made |-> TRUE, unreadable |-> ~readable, data |-> table,
                                              present |-> <<>>, all |-> <<>>, listed |-> names]]
    BY <1>4 DEF D!ReadDir
  <2>. DEFINE d == [made |-> TRUE, unreadable |-> ~readable, data |-> table,
                    present |-> <<>>, all |-> <<>>, listed |-> names]
  <2>3. table \in UNION {[F -> Names] : F \in SUBSET LowerNames}
    <3>1. CASE readable
      BY <2>1, <3>1, TablesAre DEF DirInv, DirShape
    <3>2. CASE ~readable
      BY <2>1, <3>2, NoEntriesAre DEF D!NoEntries, DirEntries
    <3>. QED  BY <3>1, <3>2 DEF DirInv, DirShape
  <2>4. d \in DirEntries
    BY <2>3, NoEntriesAre DEF D!NoEntries, DirEntries, DirInv, DirShape
  <2>5. /\ d.made /\ (d.unreadable <=> ~readable) /\ d.data = table /\ d.present = <<>> /\ d.all = <<>>
        /\ d.listed = names
    OBVIOUS
  <2>. HIDE DEF d
  <2>6. \A u \in Threads : entries'[u] = IF u = t THEN d ELSE entries[u]
    BY <2>1 DEF d, DirInv, DirShape
  <2>7. /\ readerAt' = [readerAt EXCEPT ![t] = "record"] /\ readerAt[t] = "read"
        /\ UNCHANGED <<names, readable, cached, watched, uses>>
    BY <1>4 DEF D!ReadDir, D!diskVars
  <2>8. DirShape'
    BY <2>1, <2>4, <2>7 DEF d, DirInv, DirShape
  <2>9. AllMade'
    BY <2>5, <2>6, <2>7 DEF DirInv, DirShape, AllMade
  <2>10. AnswersAreTrue'
    <3>1. Truthful(d)
      BY <2>1, <2>5, TablesAre DEF Truthful, DirInv, DirShape
    <3>. QED  BY <2>6, <3>1 DEF DirInv, AnswersAreTrue
  <2>. QED  BY <2>8, <2>9, <2>10 DEF DirInv
<1>5. ASSUME NEW t \in Threads, D!RecordDir(t) \/ D!CacheDir(t) PROVE DirInv'
  BY <1>5, EntriesKept DEF D!RecordDir, D!CacheDir, D!diskVars, DirInv, DirShape, AllMade
<1>6. ASSUME NEW t \in Threads, NEW n \in Names, D!Get(t, n) PROVE DirInv'
  <2>. DEFINE e == entries[uses[t]]
              asked == [k \in DOMAIN e.present \cup {Fold(n)} |->
                           IF k = Fold(n) THEN k \in DOMAIN e.data ELSE e.present[k]]
              d == [e EXCEPT !.present = asked]
  <2>1. readerAt[t] = "use" /\ UNCHANGED <<names, readable, cached, watched, uses, readerAt>>
    BY <1>6 DEF D!Get, D!diskVars
  <2>2. uses[t] \in Threads /\ e \in DirEntries
    BY <2>1 DEF DirInv, DirShape, AllMade
  <2>3. entries' = [entries EXCEPT ![uses[t]] = d]
    BY <1>6, <2>2 DEF D!Get, DirInv, DirShape
  <2>4. DOMAIN e.present \in SUBSET LowerNames /\ \A k \in DOMAIN e.present : e.present[k] \in BOOLEAN
    BY <2>2 DEF DirEntries
  <2>5. DOMAIN e.present \cup {Fold(n)} \in SUBSET LowerNames
    BY <2>4 DEF LowerNames
  <2>t. Truthful(e)
    BY <2>2 DEF DirInv, AnswersAreTrue
  <2>a. \A k : (k \in DOMAIN e.data) \in BOOLEAN
    OBVIOUS
  <2>b. asked = [k \in DOMAIN e.present \cup {Fold(n)} |-> k \in DOMAIN e.data]
    BY <2>t DEF Truthful
  <2>6. asked \in [DOMAIN e.present \cup {Fold(n)} -> BOOLEAN]
    BY <2>a, <2>b
  <2>7. \A k \in DOMAIN asked : asked[k] = (k \in DOMAIN e.data)
    BY <2>b
  <2>. HIDE DEF asked
  <2>8. /\ d \in DirEntries
        /\ d.made = e.made /\ d.unreadable = e.unreadable /\ d.data = e.data /\ d.listed = e.listed
        /\ d.all = e.all /\ d.present = asked
    BY <2>2, <2>5, <2>6 DEF DirEntries
  <2>. HIDE DEF d
  <2>9. Truthful(d)
    BY <2>t, <2>7, <2>8 DEF Truthful
  <2>. QED  BY <2>1, <2>3, <2>8, <2>9, DirAnswers
<1>7. ASSUME NEW t \in Threads, D!SortedKeys(t) PROVE DirInv'
  <2>. DEFINE e == entries[uses[t]]
              list == <<{e.data[k] : k \in DOMAIN e.data}>>
              d == [e EXCEPT !.all = list]
  <2>1. readerAt[t] = "use" /\ UNCHANGED <<names, readable, cached, watched, uses, readerAt>>
    BY <1>7 DEF D!SortedKeys, D!diskVars
  <2>2. uses[t] \in Threads /\ e \in DirEntries
    BY <2>1 DEF DirInv, DirShape, AllMade
  <2>3. entries' = [entries EXCEPT ![uses[t]] = d]
    BY <1>7, <2>2 DEF D!SortedKeys, DirInv, DirShape
  <2>4. {e.data[k] : k \in DOMAIN e.data} \in SUBSET Names
    BY <2>2 DEF DirEntries
  <2>5. list \in {<<>>} \cup {<<S>> : S \in SUBSET Names}
    BY <2>4
  <2>. HIDE DEF list
  <2>6. /\ d \in DirEntries
        /\ d.made = e.made /\ d.unreadable = e.unreadable /\ d.data = e.data /\ d.listed = e.listed
        /\ d.all = list /\ d.present = e.present
    BY <2>2, <2>5 DEF DirEntries
  <2>7. Truthful(d)
    BY <2>2, <2>6 DEF list, DirInv, AnswersAreTrue, Truthful
  <2>. HIDE DEF d
  <2>. QED  BY <2>1, <2>3, <2>6, <2>7, DirAnswers
<1>8. CASE UNCHANGED dirVars
  BY <1>8, EntriesKept DEF dirVars, DirInv, DirShape, AllMade
<1>. QED  BY <1>1, <1>2, <1>3, <1>4, <1>5, <1>6, <1>7, <1>8, DirSteps

LEMMA DirTypes == DirInv => D!TypeOK
<1>. SUFFICES ASSUME DirInv PROVE D!TypeOK
  OBVIOUS
<1>1. ASSUME NEW t \in Threads
      PROVE  /\ readerAt[t] \in {"idle", "read", "record", "cache", "use"}
             /\ readerAt[t] = "use" => uses[t] # Nobody /\ entries[uses[t]].made
             /\ DOMAIN entries[t].data \subseteq D!Folds /\ DOMAIN entries[t].present \subseteq D!Folds
             /\ \A k \in DOMAIN entries[t].present : entries[t].present[k] = (k \in DOMAIN entries[t].data)
  <2>1. entries[t] \in DirEntries /\ Truthful(entries[t])
    BY DEF DirInv, DirShape, AnswersAreTrue
  <2>2. DOMAIN entries[t].data \subseteq D!Folds /\ DOMAIN entries[t].present \subseteq D!Folds
    BY <2>1 DEF DirEntries, LowerNames, D!Folds
  <2>. QED  BY <2>1, <2>2 DEF DirInv, DirShape, AllMade, Truthful
<1>. QED  BY <1>1 DEF D!TypeOK, DirInv, DirShape

\* Unless names collide, the list of a directory is what was read of it.
LEMMA ListsAreFull ==
    ASSUME NEW ns, NEW f, Lists(f, ns), ~D!Collide(ns)
    PROVE  {f[k] : k \in DOMAIN f} = ns
<1>1. ASSUME NEW n \in ns PROVE f[Fold(n)] = n /\ Fold(n) \in DOMAIN f
  BY <1>1 DEF Lists, D!Collide
<1>. QED  BY <1>1 DEF Lists

\* A name that is asked for is present when the entries list it.
LEMMA AnswersAre ==
    ASSUME NEW e, Truthful(e), e.made, ~e.unreadable, NEW k \in DOMAIN e.present
    PROVE  e.present[k] = \E n \in e.listed : Fold(n) = k
<1>1. e.present[k] = (k \in DOMAIN e.data)
  BY DEF Truthful
<1>2. DOMAIN e.data = {Fold(n) : n \in e.listed}
  BY DEF Truthful, Lists
<1>3. (k \in DOMAIN e.data) <=> \E n \in e.listed : Fold(n) = k
  BY <1>2
<1>4. CASE k \in DOMAIN e.data
  <2>1. (\E n \in e.listed : Fold(n) = k) = TRUE
    BY <1>3, <1>4
  <2>2. e.present[k] = TRUE
    BY <1>1, <1>4
  <2>. QED  BY <2>1, <2>2
<1>5. CASE k \notin DOMAIN e.data
  <2>1. (\E n \in e.listed : Fold(n) = k) = FALSE
    BY <1>3, <1>5
  <2>2. (k \in DOMAIN e.data) = FALSE
    BY <1>5
  <2>. QED  BY <1>1, <2>1, <2>2
<1>. QED  BY <1>4, <1>5

LEMMA DirChangesSeen == DirInv => D!ChangesAreSeen
<1>. SUFFICES ASSUME DirInv, NEW t \in Threads, watched # Nobody, entries[t].made,
                     ~entries[t].unreadable, ~D!Raced
              PROVE  LET e == entries[t]
                     IN  /\ e.all = <<>> /\ (\E k \in DOMAIN e.present :
                               D!Present(k) # \E n \in e.listed : Fold(n) = k) => D!Dirty
                         /\ e.all # <<>> /\ ~D!Collide(e.listed) /\ names # e.listed => D!Dirty
  BY DEF D!ChangesAreSeen
<1>. DEFINE e == entries[t]
<1>1. watched = t
  BY DEF DirInv, DirShape, AllMade, D!Raced
<1>2. Truthful(e) /\ e.made
  BY DEF DirInv, AnswersAreTrue
<1>3. D!Dirty <=> D!Changed(e)
  BY <1>1 DEF D!Dirty
<1>4. ASSUME e.all = <<>>, NEW k \in DOMAIN e.present, D!Present(k) # \E n \in e.listed : Fold(n) = k
      PROVE  D!Dirty
  BY <1>2, <1>3, <1>4, AnswersAre DEF D!Changed
<1>5. ASSUME e.all # <<>>, ~D!Collide(e.listed), names # e.listed
      PROVE  D!Dirty
  <2>1. Lists(e.data, e.listed) /\ e.all = <<{e.data[k] : k \in DOMAIN e.data}>>
    BY <1>2, <1>5 DEF Truthful
  <2>2. {e.data[k] : k \in DOMAIN e.data} = e.listed
    BY <1>5, <2>1, ListsAreFull
  <2>3. e.all[1] = e.listed
    BY <2>1, <2>2
  <2>. QED  BY <1>3, <1>5, <2>3 DEF D!Changed
<1>. QED  BY <1>4, <1>5

LEMMA DirAlarms == DirInv => D!NoFalseAlarm
<1>. SUFFICES ASSUME DirInv, watched # Nobody, names = entries[watched].listed,
                     readable = ~entries[watched].unreadable, ~D!Collide(names)
              PROVE  ~D!Dirty
  BY DEF D!NoFalseAlarm
<1>. DEFINE e == entries[watched]
<1>1. Truthful(e) /\ e.made
  BY DEF DirInv, DirShape, AllMade, AnswersAreTrue
<1>2. CASE e.unreadable
  BY <1>2 DEF D!Dirty
<1>3. CASE ~e.unreadable
  <2>1. ASSUME e.all # <<>> PROVE e.all[1] = names
    <3>1. Lists(e.data, names) /\ e.all = <<{e.data[k] : k \in DOMAIN e.data}>>
      BY <1>1, <1>3, <2>1 DEF Truthful
    <3>2. {e.data[k] : k \in DOMAIN e.data} = names
      BY <3>1, ListsAreFull
    <3>. QED  BY <3>1, <3>2
  <2>2. \A k \in DOMAIN e.present : e.present[k] = D!Present(k)
    BY <1>1, <1>3, AnswersAre DEF D!Present
  <2>3. readable
    BY <1>3
  <2>4. ~D!Changed(e)
    BY <2>1, <2>2, <2>3 DEF D!Changed
  <2>. QED  BY <1>3, <2>4 DEF D!Dirty
<1>. QED  BY <1>2, <1>3

-----------------------------------------------------------------------------
(* A file, a directory and the limit together.                             *)

PathInv == FileInv /\ DirInv /\ LimitInv

LEMMA PathInitially == PathInit => PathInv
BY FileInitially, DirInitially, LimitInitially DEF PathInit, PathInv

LEMMA PathStep == PathInv /\ [PathNext]_<<vars, dirVars, openVars, kind>> => PathInv'
<1>. SUFFICES ASSUME PathInv, [PathNext]_<<vars, dirVars, openVars, kind>> PROVE PathInv'
  OBVIOUS
<1>1. [Next]_vars /\ [D!Next]_dirVars /\ [OpenNext]_openVars
  BY DEF PathNext
<1>. QED  BY <1>1, FileStep, DirStep, LimitStep DEF PathInv

LEMMA PathInvariant == PathSpec => []PathInv
BY PathInitially, PathStep, PTL DEF PathSpec

\* Types; the watch data are complete when a build is over, and whatever is
\* cached or watched of a directory was read.
THEOREM PathTypes == PathSpec => []PathTypeOK
<1>1. PathInv => PathTypeOK
  BY FileTypes, DirTypes DEF PathInv, LimitInv, PathTypeOK
<1>. QED  BY <1>1, PathInvariant, PTL

\* A change of a file or of a directory after the build looked at it is
\* reported, whatever threads read it and in whatever order.
THEOREM ChangesGetSeen == PathSpec => []ChangesAreSeen
<1>1. PathInv => ChangesAreSeen
  BY FileEditsSeen, DirChangesSeen DEF PathInv, ChangesAreSeen
<1>. QED  BY <1>1, PathInvariant, PTL

\* No file and no directory is reported that did not change.
THEOREM AlarmsAreTrue == PathSpec => []NoAlarmIsFalse
<1>1. PathInv => NoAlarmIsFalse
  BY FileAlarms, DirAlarms DEF PathInv, NoAlarmIsFalse
<1>. QED  BY <1>1, PathInvariant, PTL

\* What is proved of files and of open files alone holds of them together:
\* the cache answers with contents of the time of the call, and the places
\* for open files are handed on.
THEOREM PartsStayRight == PathSpec => [](CacheIsFresh /\ PlacesAreHandedOn)
<1>1. PathInv => CacheIsFresh /\ PlacesAreHandedOn
  BY FileFresh DEF PathInv, LimitInv
<1>. QED  BY <1>1, PathInvariant, PTL
=============================================================================
