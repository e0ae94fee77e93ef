------------------------------ MODULE OpenFiles ------------------------------
(***************************************************************************)
(* The limit on open files, shared by all builds of the process            *)
(* (before_file_open and after_file_close, src/internal/fs/mod.rs): a      *)
(* counter under a mutex and a condition variable that wakes one thread    *)
(* at a time.  Every read of the file system holds a FileOpenGuard.        *)
(***************************************************************************)
EXTENDS Integers, FiniteSets

CONSTANTS
    Openers,    \* the threads that read files
    Limit       \* FILE_OPEN_LIMIT

ASSUME LimitAssumption == IsFiniteSet(Openers) /\ Limit \in Nat \ {0}

VARIABLES
    count,      \* the counter
    opening     \* per thread: "idle", "wait" (in the condition variable),
                \* "woken" (out of it, before the mutex) or "open"

openVars == <<count, opening>>

OpenInit == count = 0 /\ opening = [t \in Openers |-> "idle"]

(* With the mutex held: the condition of the loop, then the counter or the *)
(* wait.                                                                   *)
Recheck(t) ==
    IF count >= Limit
    THEN opening' = [opening EXCEPT ![t] = "wait"] /\ UNCHANGED count
    ELSE opening' = [opening EXCEPT ![t] = "open"] /\ count' = count + 1

(* A thread that comes may overtake those that were woken.                 *)
BeforeFileOpen(t) == opening[t] = "idle" /\ Recheck(t)

WaitReturns(t) == opening[t] = "woken" /\ Recheck(t)

(* A condition variable may return without being notified.                 *)
WakeSpuriously(t) ==
    /\ opening[t] = "wait"
    /\ opening' = [opening EXCEPT ![t] = "woken"]
    /\ UNCHANGED count

Waiting == {t \in Openers : opening[t] = "wait"}

(* Mutant: a thread is woken only when the limit was reached.              *)
NotifyOne_AtLimit(t) ==
    IF Waiting = {} \/ count # Limit
    THEN opening' = [opening EXCEPT ![t] = "idle"]
    ELSE \E u \in Waiting : opening' = [opening EXCEPT ![t] = "idle", ![u] = "woken"]

NotifyOne(t) ==
    IF Waiting = {}
    THEN opening' = [opening EXCEPT ![t] = "idle"]
    ELSE \E u \in Waiting : opening' = [opening EXCEPT ![t] = "idle", ![u] = "woken"]

(* The counter saturates at zero.                                          *)
AfterFileClose(t) ==
    /\ opening[t] = "open"
    /\ count' = IF count = 0 THEN 0 ELSE count - 1
    /\ NotifyOne(t)

OpenNext ==
    \E t \in Openers :
        BeforeFileOpen(t) \/ WaitReturns(t) \/ WakeSpuriously(t) \/ AfterFileClose(t)

OpenSpec == OpenInit /\ [][OpenNext]_openVars
-----------------------------------------------------------------------------
OpenTypeOK ==
    /\ count \in Nat
    /\ opening \in [Openers -> {"idle", "wait", "woken", "open"}]

Open == {t \in Openers : opening[t] = "open"}
Woken == {t \in Openers : opening[t] = "woken"}

(* The counter is the number of threads that hold a guard, never more than *)
(* the limit.                                                              *)
LimitHolds == count = Cardinality(Open) /\ count <= Limit

(* While a thread waits, every free place has a woken thread on its way to *)
(* it: no wakeup is lost, although only one thread is notified at a time   *)
(* and others may take the place first.                                    *)
NoWakeupIsLost == Waiting # {} => count + Cardinality(Woken) >= Limit

(* Reads of files are limited, and a read waits only while the limit is    *)
(* used up (before_file_open, after_file_close).                           *)
PlacesAreHandedOn == LimitHolds /\ NoWakeupIsLost
==============================================================================
