----------------------------- MODULE WatchData ------------------------------
(***************************************************************************)
(* What the threads of a build share in the file system: one path of the   *)
(* watch data, the map RealFs.watch_data, a file (WatchedFiles) or a       *)
(* directory (WatchedDirectory), or the limit on open files (OpenFiles).   *)
(* What is remembered of one path does not depend on the others, and no    *)
(* thread asks for a place to open a file while it has the watch data's    *)
(* mutex, so the three do not affect each other.                           *)
(***************************************************************************)
EXTENDS WatchedFiles, OpenFiles, Sequences, TLC

CONSTANTS Names, Fold(_), Nobody

ASSUME NobodyAssumption == Nobody \notin Threads

VARIABLES
    kind,                                               \* which of them is followed
    names, readable, entries, cached, watched, uses,    \* of WatchedDirectory
    readerAt                                            \* its pc

D == INSTANCE WatchedDirectory WITH Readers <- Threads, pc <- readerAt

dirVars == <<names, readable, entries, cached, watched, uses, readerAt>>

PathInit ==
    /\ Init /\ D!Init /\ OpenInit
    /\ \/ kind = "file" /\ names = {} /\ readable
       \/ kind = "directory" /\ written = 0
       \/ kind = "limit" /\ names = {} /\ readable /\ written = 0

PathNext ==
    /\ kind' = kind
    /\ \/ kind = "file" /\ Next /\ UNCHANGED <<dirVars, openVars>>
       \/ kind = "directory" /\ D!Next /\ UNCHANGED <<vars, openVars>>
       \/ kind = "limit" /\ OpenNext /\ UNCHANGED <<vars, dirVars>>

PathSpec == PathInit /\ [][PathNext]_<<vars, dirVars, openVars, kind>>

-----------------------------------------------------------------------------
PathTypeOK == TypeOK /\ D!TypeOK /\ OpenTypeOK

\* A change of a path after the build looked at it is reported: other contents than the
\* build used, or a directory that would now give another answer than it gave.
ChangesAreSeen ==
    /\ kind = "file" => EditsAreSeen
    /\ kind = "directory" => D!ChangesAreSeen

\* The watcher reports no file and no directory that did not change.
NoAlarmIsFalse ==
    /\ kind = "file" => NoFalseAlarm
    /\ kind = "directory" => D!NoFalseAlarm
=============================================================================
