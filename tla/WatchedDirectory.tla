-------------------------- MODULE WatchedDirectory --------------------------
(***************************************************************************)
(* What a build remembers of a directory (fs/mod.rs DirEntries, fs/real.rs *)
(* read_directory and directory_change).  The build reads the directory    *)
(* once and then asks for single names, whatever their case, or for all of *)
(* them; the watcher's callback compares the directory with the answers it *)
(* gave, not with what it read.                                            *)
(*                                                                         *)
(* The readers are the thread of the build and those that run resolve() of *)
(* its plugins: they share the build's file system.                        *)
(***************************************************************************)
EXTENDS FiniteSets, Sequences

CONSTANTS
    Names,          \* file names
    Fold(_),        \* a name's lower case
    Readers,        \* threads of the build
    Nobody

Folds == {Fold(n) : n \in Names}

VARIABLES
    names,          \* the names on disk
    readable,       \* whether the directory can be read
    entries,        \* the DirEntries each reader made, with their AccessedEntries
    cached,         \* RealFs.entries[dir]: the reader whose entries these are
    watched,        \* RealFs.watch_data[dir]: the reader whose accessed entries these are
    uses,           \* the entries each reader was given
    pc              \* where each reader is in read_directory

diskVars == <<names, readable>>
vars == <<diskVars, entries, cached, watched, uses, pc>>

\* data: lower case -> name; present: was_present, lower case -> answer given;
\* all: all_entries, <<>> or <<set of names>>; listed: the names on disk when read.
NoEntries == [made |-> FALSE, unreadable |-> FALSE, data |-> <<>>,
              present |-> <<>>, all |-> <<>>, listed |-> {}]

Init ==
    /\ names \in SUBSET Names /\ readable \in BOOLEAN
    /\ entries = [t \in Readers |-> NoEntries] /\ cached = Nobody /\ watched = Nobody
    /\ uses = [t \in Readers |-> Nobody] /\ pc = [t \in Readers |-> "idle"]

ChangeDisk ==
    /\ \/ \E n \in Names : names' \in {names \cup {n}, names \ {n}} /\ readable' = readable
       \/ names' = names /\ readable' = ~readable
    /\ UNCHANGED <<entries, cached, watched, uses, pc>>

(***************************************************************************)
(* read_directory: the cache, then the directory, then the watch data and  *)
(* the cache, each under a mutex of its own.                               *)
(***************************************************************************)
Lookup(t) ==
    /\ pc[t] \in {"idle", "use"}
    /\ pc' = [pc EXCEPT ![t] = IF cached # Nobody THEN "use" ELSE "read"]
    /\ uses' = [uses EXCEPT ![t] = cached]
    /\ UNCHANGED <<diskVars, entries, cached, watched>>

\* One entry per lower case: of names that differ in case only, any may be the last
\* one read_dir lists.
Tables(ns) ==
    LET folds == {Fold(n) : n \in ns}
    IN  {f \in [folds -> ns] : \A k \in folds : Fold(f[k]) = k}

ReadDir(t) ==
    /\ pc[t] = "read"
    /\ pc' = [pc EXCEPT ![t] = "record"]
    /\ \E table \in IF readable THEN Tables(names) ELSE {<<>>} :
          entries' = [entries EXCEPT ![t] =
             [made |-> TRUE, unreadable |-> ~readable, data |-> table,
              present |-> <<>>, all |-> <<>>, listed |-> names]]
    /\ UNCHANGED <<diskVars, cached, watched, uses>>

RecordDir(t) ==
    /\ pc[t] = "record"
    /\ pc' = [pc EXCEPT ![t] = "cache"]
    /\ watched' = t
    /\ UNCHANGED <<diskVars, entries, cached, uses>>

CacheDir(t) ==
    /\ pc[t] = "cache"
    /\ pc' = [pc EXCEPT ![t] = "use"]
    /\ cached' = t
    /\ uses' = [uses EXCEPT ![t] = t]
    /\ UNCHANGED <<diskVars, entries, watched>>

(***************************************************************************)
(* Questions to the entries.                                               *)
(***************************************************************************)
Get(t, query) ==
    /\ pc[t] = "use"
    /\ entries' = [entries EXCEPT ![uses[t]].present =
          [k \in DOMAIN @ \cup {Fold(query)} |->
              IF k = Fold(query) THEN k \in DOMAIN entries[uses[t]].data ELSE @[k]]]
    /\ UNCHANGED <<diskVars, cached, watched, uses, pc>>

SortedKeys(t) ==
    /\ pc[t] = "use"
    /\ LET data == entries[uses[t]].data
       IN  entries' = [entries EXCEPT ![uses[t]].all = <<{data[k] : k \in DOMAIN data}>>]
    /\ UNCHANGED <<diskVars, cached, watched, uses, pc>>

\* The next build starts with a file system of its own.
NextBuild ==
    /\ watched # Nobody /\ \A t \in Readers : pc[t] \in {"idle", "use"}
    /\ entries' = [t \in Readers |-> NoEntries] /\ cached' = Nobody /\ watched' = Nobody
    /\ uses' = [t \in Readers |-> Nobody] /\ pc' = [t \in Readers |-> "idle"]
    /\ UNCHANGED diskVars

Next ==
    \/ ChangeDisk \/ NextBuild
    \/ \E t \in Readers :
          \/ Lookup(t) \/ ReadDir(t) \/ RecordDir(t) \/ CacheDir(t) \/ SortedKeys(t)
          \/ \E n \in Names : Get(t, n)

Spec == Init /\ [][Next]_vars

-----------------------------------------------------------------------------
Present(k) == \E n \in names : Fold(n) = k

\* directory_change: what the callback answers if it runs now.
Changed(e) ==
    \/ ~readable
    \/ e.all # <<>> /\ e.all[1] # names
    \/ e.all = <<>> /\ \E k \in DOMAIN e.present : e.present[k] # Present(k)

\* The callback that watch_data() makes for the directory.
Dirty ==
    LET e == entries[watched]
    IN  IF e.unreadable THEN readable ELSE Changed(e)

TypeOK ==
    /\ names \subseteq Names /\ readable \in BOOLEAN
    /\ {cached, watched} \subseteq Readers \cup {Nobody}
    /\ \A t \in Readers :
          /\ pc[t] \in {"idle", "read", "record", "cache", "use"}
          /\ pc[t] = "use" => uses[t] # Nobody /\ entries[uses[t]].made
          /\ LET e == entries[t]
             IN  /\ DOMAIN e.data \subseteq Folds /\ DOMAIN e.present \subseteq Folds
                 /\ \A k \in DOMAIN e.present : e.present[k] = (k \in DOMAIN e.data)

\* Two readers that look before either has cached make a table each, and only the last
\* one recorded is watched: answers of the other are not.
Raced == \E t, u \in Readers : t # u /\ entries[t].made /\ entries[u].made

\* Names that differ in case only: the one lost to the other is missed by sorted_keys,
\* and a directory listed in full then looks changed from the start.
Collide(ns) == \E n, o \in ns : n # o /\ Fold(n) = Fold(o)

\* If an answer that any reader was given about the directory would be another one now,
\* the callback reports it: a name that came or went, or any change of a directory that
\* was listed in full (directory_change).
ChangesAreSeen ==
    \A t \in Readers :
        LET e == entries[t]
        IN  watched # Nobody /\ e.made /\ ~e.unreadable /\ ~Raced =>
               /\ e.all = <<>> /\ (\E k \in DOMAIN e.present : Present(k) # \E n \in e.listed : Fold(n) = k) => Dirty
               /\ e.all # <<>> /\ ~Collide(e.listed) /\ names # e.listed => Dirty

\* A directory that is as it was read is not reported, so that rebuilds do not follow
\* each other for nothing (unless names collide).
NoFalseAlarm ==
    watched # Nobody =>
        LET e == entries[watched]
        IN  (names = e.listed /\ readable = ~e.unreadable /\ ~Collide(e.listed)) => ~Dirty
=============================================================================
