----------------------- MODULE ServiceContexts_proofs -----------------------
(***************************************************************************)
(* Theorems about ServiceContexts, for any number of build keys, request   *)
(* threads and requests: its safety invariants, and that a cancel request  *)
(* is answered after the rebuilds admitted before it.  What has to be      *)
(* strengthened is who keeps a context in use: the operations admitted to  *)
(* it, its creator, the one thread that cleans it up, and its flight.      *)
(***************************************************************************)
EXTENDS ServiceContexts, TLAPS

USE DEF Actors

\* The steps of the service, one disjunct for each kind of thread.
LEMMA StepsOfTheService ==
    ASSUME [Next]_vars
    PROVE  \/ \E w \in Workers, k \in Keys :
                 \/ ReadBuild(w, k) \/ ReadRebuild(w, k) \/ ReadWatch(w, k)
                 \/ ReadResolve(w, k) \/ ReadCancel(w, k) \/ ReadDispose(w, k)
           \/ ReadEof
           \/ \E w \in Workers :
                 \/ MarkGroup(w)
                 \/ Create(w) \/ CreateRefused(w) \/ CreateComplete(w) \/ CreateFails(w)
                 \/ Rebuild(w) \/ Watch(w) \/ Resolve(w) \/ Cancel(w) \/ GroupWait(w)
                 \/ DropOperation(w)
           \/ \E a \in Actors :
                 \/ Dispose(a) \/ AwaitDisposed(a) \/ Drain(a)
                 \/ NativeDispose(a) \/ NativeDisposed(a) \/ Settle(a) \/ Remove(a)
           \/ \E c \in Contexts :
                 \/ OnStart(c) \/ Build(c) \/ OnEndReport(c) \/ OnEndLog(c) \/ Finish(c)
                 \/ AutomaticBuild(c)
           \/ \E k \in Keys : Shutdown(k)
           \/ UNCHANGED vars
BY DEF Next, Reader, Worker, Disposal, Flight

Operations == {"rebuild", "flying", "watch", "resolve", "marking", "cancel", "cancelWait",
               "groupWait", "drop"}
Cleaning == {"drain", "native", "nativeWait", "settle"}
Disposing == {"dispose", "await", "remove"} \cup Cleaning

-----------------------------------------------------------------------------
(* The threads.                                                            *)

\* An operation is admitted to the context its thread works on until its
\* thread drops it; the reader is busy with the cancel it is admitting; the
\* thread that shuts down does nothing before EOF.
Threads ==
    /\ \A a \in Actors :
        /\ pc[a] = "free" => ctx[a] = None
        /\ pc[a] = "create" => key[a] \in Keys
        /\ pc[a] \in Operations \cup Disposing \cup {"creating"} => ctx[a] \in Contexts
        /\ pc[a] \in Operations => a \in admitted[ctx[a]]
        /\ pc[a] = "marking" <=> reader = a
    /\ \A c \in Contexts : \A w \in admitted[c] : pc[w] \in Operations /\ ctx[w] = c
    /\ pc[Main] \in {"free"} \cup Disposing
    /\ pc[Main] # "free" => reader = "closed"

Shape == TypeOK /\ Threads

\* A flight that ends wakes those who wait for it and moves nobody else.
LEMMA FinishWakes ==
    ASSUME TypeOK, NEW c \in Contexts, Finish(c)
    PROVE  /\ pc' \in [Actors -> Positions]
           /\ \A a \in Actors :
                 \/ pc'[a] = pc[a] /\ (ctx[a] = c => pc[a] \notin {"flying", "cancelWait"})
                 \/ ctx[a] = c /\ pc[a] = "flying" /\ pc'[a] = "drop"
                 \/ ctx[a] = c /\ pc[a] = "cancelWait" /\ pc'[a] = "groupWait"
<1>1. ASSUME NEW a \in Actors
      PROVE  \/ pc'[a] = pc[a] /\ (ctx[a] = c => pc[a] \notin {"flying", "cancelWait"})
             \/ ctx[a] = c /\ pc[a] = "flying" /\ pc'[a] = "drop"
             \/ ctx[a] = c /\ pc[a] = "cancelWait" /\ pc'[a] = "groupWait"
  <2>1. pc'[a] = IF ctx[a] # c THEN pc[a]
                 ELSE CASE pc[a] = "flying" -> "drop"
                        [] pc[a] = "cancelWait" -> "groupWait"
                        [] OTHER -> pc[a]
    BY <1>1 DEF Finish
  <2>. QED  BY <2>1
<1>2. DOMAIN pc' = Actors /\ pc' = [a \in Actors |-> pc'[a]]
  BY DEF Finish
<1>3. \A a \in Actors : pc[a] \in Positions
  BY DEF TypeOK
<1>. QED  BY <1>1, <1>2, <1>3 DEF Positions

\* The first disposer cleans up, the next ones wait for it.
LEMMA DisposeMoves ==
    ASSUME NEW a \in Actors, Dispose(a)
    PROVE  \/ phase[ctx[a]] = "Disposed" /\ phase' = phase /\ Goto(a, "remove")
           \/ phase[ctx[a]] = "Cleaning" /\ phase' = phase /\ Goto(a, "await")
           \/ /\ phase[ctx[a]] \notin {"Cleaning", "Disposed"}
              /\ phase' = [phase EXCEPT ![ctx[a]] = "Cleaning"]
              /\ Goto(a, "drain")
BY DEF Dispose

LEMMA ShapeStep == ASSUME Shape, [Next]_vars PROVE Shape'
<1>. USE ServiceAssumption
     DEF Shape, TypeOK, Threads, registryVars, groupVars, flightVars, threadVars, Goto, Answer,
         Operations, Cleaning, Disposing, Positions, Phases, Steps
<1>1. ASSUME NEW w \in Workers, NEW k \in Keys, ReadBuild(w, k) PROVE Shape'
  BY <1>1 DEF ReadBuild, Read
<1>2. ASSUME NEW w \in Workers, NEW k \in Keys, ReadRebuild(w, k) PROVE Shape'
  BY <1>2 DEF ReadRebuild, Read, Admit
<1>3. ASSUME NEW w \in Workers, NEW k \in Keys, ReadWatch(w, k) PROVE Shape'
  BY <1>3 DEF ReadWatch, Read, Admit
<1>4. ASSUME NEW w \in Workers, NEW k \in Keys, ReadResolve(w, k) PROVE Shape'
  BY <1>4 DEF ReadResolve, Read
<1>5. ASSUME NEW w \in Workers, NEW k \in Keys, ReadCancel(w, k) PROVE Shape'
  BY <1>5 DEF ReadCancel, Read, Admit
<1>6. ASSUME NEW w \in Workers, NEW k \in Keys, ReadDispose(w, k) PROVE Shape'
  BY <1>6 DEF ReadDispose, Read
<1>7. CASE ReadEof
  BY <1>7 DEF ReadEof
<1>8. ASSUME NEW w \in Workers, MarkGroup(w) PROVE Shape'
  BY <1>8 DEF MarkGroup
<1>9. ASSUME NEW w \in Workers, Create(w) PROVE Shape'
  BY <1>9 DEF Create
<1>10. ASSUME NEW w \in Workers, CreateRefused(w) \/ CreateComplete(w) \/ CreateFails(w)
       PROVE Shape'
  BY <1>10 DEF CreateRefused, CreateComplete, CreateFails
<1>11. ASSUME NEW w \in Workers,
              Rebuild(w) \/ Watch(w) \/ Resolve(w) \/ Cancel(w) \/ GroupWait(w)
       PROVE Shape'
  BY <1>11 DEF Rebuild, Watch, Resolve, Cancel, GroupWait
<1>12. ASSUME NEW w \in Workers, DropOperation(w) PROVE Shape'
  BY <1>12 DEF DropOperation
<1>13. ASSUME NEW a \in Actors, Dispose(a) PROVE Shape'
  BY <1>13, DisposeMoves DEF Dispose
<1>14. ASSUME NEW a \in Actors,
              AwaitDisposed(a) \/ Drain(a) \/ NativeDispose(a) \/ NativeDisposed(a) \/ Settle(a)
       PROVE Shape'
  BY <1>14 DEF AwaitDisposed, Drain, NativeDispose, NativeDisposed, Settle
<1>15. ASSUME NEW a \in Actors, Remove(a) PROVE Shape'
  BY <1>15 DEF Remove
<1>16. ASSUME NEW c \in Contexts,
              OnStart(c) \/ Build(c) \/ OnEndReport(c) \/ OnEndLog(c) \/ AutomaticBuild(c)
       PROVE Shape'
  BY <1>16 DEF OnStart, Build, OnEndReport, OnEndLog, AutomaticBuild
<1>17. ASSUME NEW c \in Contexts, Finish(c) PROVE Shape'
  BY <1>17, FinishWakes DEF Finish
<1>18. ASSUME NEW k \in Keys, Shutdown(k) PROVE Shape'
  BY <1>18 DEF Shutdown
<1>19. CASE UNCHANGED vars
  BY <1>19 DEF vars
<1>. QED
  BY <1>1, <1>2, <1>3, <1>4, <1>5, <1>6, <1>7, <1>8, <1>9, <1>10, <1>11, <1>12, <1>13, <1>14,
     <1>15, <1>16, <1>17, <1>18, <1>19, StepsOfTheService

-----------------------------------------------------------------------------
(* The life of a context.                                                  *)

\* Operations keep the native context, which only its cleaner disposes.
Held ==
    \A c \in Contexts :
        /\ admitted[c] # {} => c \in native
        /\ c \in native => c \in alive /\ c \notin creating
        /\ c \in alive \ native => \E a \in Actors : pc[a] = "native" /\ ctx[a] = c
        /\ step[c] # "none" =>
              c \in alive \/ \E a \in Actors : pc[a] = "nativeWait" /\ ctx[a] = c

\* A context has at most one creator and at most one cleaner.
Creators ==
    \A a \in Actors : pc[a] = "creating" =>
        /\ ctx[a] \in creating
        /\ \A b \in Actors : pc[b] = "creating" /\ ctx[b] = ctx[a] => b = a

Cleaners ==
    \A a \in Actors : pc[a] \in Cleaning =>
        /\ phase[ctx[a]] = "Cleaning"
        /\ \A b \in Actors : pc[b] \in Cleaning /\ ctx[b] = ctx[a] => b = a
        /\ pc[a] # "drain" => ctx[a] \notin creating \cup native
        /\ pc[a] \in {"nativeWait", "settle"} => ctx[a] \notin alive
        /\ pc[a] = "settle" => step[ctx[a]] = "none"

\* Nothing of a disposed context is left, those who wait for disposal see
\* it, and a context leaves the registry disposed, except in the shutdown.
Ended ==
    /\ \A c \in Contexts : phase[c] = "Disposed" =>
          c \notin creating \cup native \cup alive /\ step[c] = "none"
    /\ \A a \in Actors :
          /\ pc[a] = "await" => phase[ctx[a]] \in {"Cleaning", "Disposed"}
          /\ pc[a] = "remove" => phase[ctx[a]] = "Disposed"
    /\ \A c \in Contexts : (\A k \in Keys : builds[k] # c) =>
          phase[c] = "Disposed" \/ ctx[Main] = c

Life == Held /\ Creators /\ Cleaners /\ Ended

LEMMA LifeStep == ASSUME Shape, Life, [Next]_vars PROVE Life'
<1>. USE ServiceAssumption
     DEF Shape, TypeOK, Threads, Life, Held, Creators, Cleaners, Ended, registryVars, groupVars,
         flightVars, threadVars, Goto, Answer, Operations, Cleaning, Disposing
<1>1. ASSUME NEW w \in Workers, NEW k \in Keys, ReadBuild(w, k) PROVE Life'
  BY <1>1 DEF ReadBuild, Read
<1>2. ASSUME NEW w \in Workers, NEW k \in Keys, ReadRebuild(w, k) PROVE Life'
  BY <1>2 DEF ReadRebuild, Read, Admit
<1>3. ASSUME NEW w \in Workers, NEW k \in Keys, ReadWatch(w, k) PROVE Life'
  BY <1>3 DEF ReadWatch, Read, Admit
<1>4. ASSUME NEW w \in Workers, NEW k \in Keys, ReadResolve(w, k) PROVE Life'
  BY <1>4 DEF ReadResolve, Read
<1>5. ASSUME NEW w \in Workers, NEW k \in Keys, ReadCancel(w, k) PROVE Life'
  BY <1>5 DEF ReadCancel, Read, Admit
<1>6. ASSUME NEW w \in Workers, NEW k \in Keys, ReadDispose(w, k) PROVE Life'
  BY <1>6 DEF ReadDispose, Read
<1>7. CASE ReadEof
  BY <1>7 DEF ReadEof
<1>8. ASSUME NEW w \in Workers, MarkGroup(w) PROVE Life'
  BY <1>8 DEF MarkGroup
<1>9. ASSUME NEW w \in Workers, Create(w) PROVE Life'
  BY <1>9 DEF Create, UnusedContext
<1>10. ASSUME NEW w \in Workers, CreateRefused(w) PROVE Life'
  BY <1>10 DEF CreateRefused
<1>11. ASSUME NEW w \in Workers, CreateComplete(w) PROVE Life'
  BY <1>11 DEF CreateComplete
<1>12. ASSUME NEW w \in Workers, CreateFails(w) PROVE Life'
  BY <1>12 DEF CreateFails
<1>13. ASSUME NEW w \in Workers, Rebuild(w) PROVE Life'
  BY <1>13 DEF Rebuild
<1>14. ASSUME NEW w \in Workers, Watch(w) \/ Resolve(w) \/ Cancel(w) \/ GroupWait(w) PROVE Life'
  BY <1>14 DEF Watch, Resolve, Cancel, GroupWait
<1>15. ASSUME NEW w \in Workers, DropOperation(w) PROVE Life'
  BY <1>15 DEF DropOperation
<1>16. ASSUME NEW a \in Actors, Dispose(a) PROVE Life'
  BY <1>16, DisposeMoves DEF Dispose
<1>17. ASSUME NEW a \in Actors, AwaitDisposed(a) PROVE Life'
  BY <1>17 DEF AwaitDisposed
<1>18. ASSUME NEW a \in Actors, Drain(a) PROVE Life'
  BY <1>18 DEF Drain
<1>19. ASSUME NEW a \in Actors, NativeDispose(a) PROVE Life'
  BY <1>19 DEF NativeDispose
<1>20. ASSUME NEW a \in Actors, NativeDisposed(a) PROVE Life'
  BY <1>20 DEF NativeDisposed
<1>21. ASSUME NEW a \in Actors, Settle(a) PROVE Life'
  BY <1>21 DEF Settle
<1>22. ASSUME NEW a \in Actors, Remove(a) PROVE Life'
  BY <1>22 DEF Remove
<1>23. ASSUME NEW c \in Contexts, OnStart(c) \/ Build(c) \/ OnEndReport(c) \/ OnEndLog(c)
       PROVE Life'
  BY <1>23 DEF OnStart, Build, OnEndReport, OnEndLog
<1>24. ASSUME NEW c \in Contexts, AutomaticBuild(c) PROVE Life'
  BY <1>24 DEF AutomaticBuild
<1>25. ASSUME NEW c \in Contexts, Finish(c) PROVE Life'
  BY <1>25, FinishWakes DEF Finish
<1>26. ASSUME NEW k \in Keys, Shutdown(k) PROVE Life'
  BY <1>26 DEF Shutdown
<1>27. CASE UNCHANGED vars
  BY <1>27 DEF vars
<1>. QED
  BY <1>1, <1>2, <1>3, <1>4, <1>5, <1>6, <1>7, <1>8, <1>9, <1>10, <1>11, <1>12, <1>13, <1>14,
     <1>15, <1>16, <1>17, <1>18, <1>19, <1>20, <1>21, <1>22, <1>23, <1>24, <1>25, <1>26, <1>27,
     StepsOfTheService

-----------------------------------------------------------------------------
(* Rebuild groups and cancellation.                                        *)

\* Contexts have groups of their own, with the rebuilds admitted to them.
GroupsMatch ==
    /\ \A c \in Contexts : group[c] # None =>
          /\ members[group[c]] # {}
          /\ members[group[c]] \subseteq admitted[c]
          /\ \A d \in Contexts : group[d] = group[c] => d = c
    /\ \A c \in Contexts : \A w \in admitted[c] : pc[w] \in {"rebuild", "flying"} =>
          group[c] # None /\ w \in members[group[c]]
    /\ \A g \in Groups : (\A c \in Contexts : group[c] # g) => members[g] = {}

\* The rebuilds a cancel has to outlast are members of the group it covers.
Covered ==
    \A w \in Workers :
        /\ pc[w] \in {"cancel", "cancelWait", "groupWait"} =>
              IF covers[w] = None THEN before[w] = {} ELSE before[w] \subseteq members[covers[w]]
        /\ pc[w] = "marking" =>
              IF group[ctx[w]] = None THEN before[w] = {}
              ELSE before[w] \subseteq members[group[ctx[w]]]

LEMMA GroupsStep == ASSUME Shape, Life, GroupsMatch, [Next]_vars PROVE GroupsMatch'
<1>. USE ServiceAssumption
     DEF Shape, TypeOK, Threads, GroupsMatch, registryVars, groupVars, flightVars, threadVars,
         Goto, Answer, Operations, Disposing, Cleaning
<1>1. ASSUME NEW w \in Workers, NEW k \in Keys, ReadRebuild(w, k) PROVE GroupsMatch'
  <2>. DEFINE c == builds[k]
  <2>1. /\ c \in Contexts
        /\ admitted' = [admitted EXCEPT ![c] = @ \cup {w}]
        /\ pc[w] = "free" /\ pc' = [pc EXCEPT ![w] = "rebuild"]
    BY <1>1 DEF ReadRebuild, Read, Admit
  <2>2. PICK g \in Groups :
          /\ GroupOf(c, g)
          /\ group' = [group EXCEPT ![c] = g]
          /\ members' = [members EXCEPT ![g] = @ \cup {w}]
    BY <1>1 DEF ReadRebuild
  <2>3. \A d \in Contexts : w \notin admitted[d]
    BY <2>1
  <2>. HIDE DEF c
  <2>4. members[g] \subseteq admitted[c] /\ \A d \in Contexts \ {c} : group[d] # g
    BY <2>1, <2>2 DEF GroupOf, UnusedGroup
  <2>5. \A v \in admitted[c] : pc[v] \in {"rebuild", "flying"} => v \in members[g]
    BY <2>1, <2>2 DEF GroupOf
  <2>6. ASSUME NEW d \in Contexts, group'[d] # None
        PROVE  /\ members'[group'[d]] # {} /\ members'[group'[d]] \subseteq admitted'[d]
               /\ \A e \in Contexts : group'[e] = group'[d] => e = d
    <3>1. CASE d = c
      BY <2>1, <2>2, <2>4, <2>6, <3>1
    <3>2. CASE d # c
      BY <2>1, <2>2, <2>4, <2>6, <3>2
    <3>. QED  BY <3>1, <3>2
  <2>7. ASSUME NEW d \in Contexts, NEW v \in admitted'[d], pc'[v] \in {"rebuild", "flying"}
        PROVE  group'[d] # None /\ v \in members'[group'[d]]
    <3>1. CASE d = c
      BY <2>1, <2>2, <2>3, <2>5, <2>7, <3>1
    <3>2. CASE d # c
      BY <2>1, <2>2, <2>3, <2>4, <2>7, <3>2
    <3>. QED  BY <3>1, <3>2
  <2>8. ASSUME NEW h \in Groups, \A d \in Contexts : group'[d] # h PROVE members'[h] = {}
    BY <2>1, <2>2, <2>4, <2>8 DEF GroupOf
  <2>. QED  BY <2>6, <2>7, <2>8
<1>2. ASSUME NEW w \in Workers, NEW k \in Keys,
             ReadBuild(w, k) \/ ReadWatch(w, k) \/ ReadResolve(w, k) \/ ReadCancel(w, k)
             \/ ReadDispose(w, k)
      PROVE GroupsMatch'
  BY <1>2 DEF ReadBuild, ReadWatch, ReadResolve, ReadCancel, ReadDispose, Read, Admit
<1>3. CASE ReadEof
  BY <1>3 DEF ReadEof
<1>4. ASSUME NEW w \in Workers,
             MarkGroup(w) \/ CreateRefused(w) \/ CreateComplete(w) \/ CreateFails(w)
      PROVE GroupsMatch'
  BY <1>4 DEF MarkGroup, CreateRefused, CreateComplete, CreateFails
<1>5. ASSUME NEW w \in Workers, Create(w) PROVE GroupsMatch'
  BY <1>5 DEF Create
<1>6. ASSUME NEW w \in Workers,
             Rebuild(w) \/ Watch(w) \/ Resolve(w) \/ Cancel(w) \/ GroupWait(w)
      PROVE GroupsMatch'
  BY <1>6 DEF Rebuild, Watch, Resolve, Cancel, GroupWait
<1>7. ASSUME NEW w \in Workers, DropOperation(w) PROVE GroupsMatch'
  BY <1>7 DEF DropOperation
<1>8. ASSUME NEW a \in Actors, Dispose(a) PROVE GroupsMatch'
  BY <1>8, DisposeMoves DEF Dispose
<1>9. ASSUME NEW a \in Actors,
             AwaitDisposed(a) \/ Drain(a) \/ NativeDispose(a) \/ NativeDisposed(a) \/ Settle(a)
             \/ Remove(a)
      PROVE GroupsMatch'
  BY <1>9 DEF AwaitDisposed, Drain, NativeDispose, NativeDisposed, Settle, Remove
<1>10. ASSUME NEW c \in Contexts,
              OnStart(c) \/ Build(c) \/ OnEndReport(c) \/ OnEndLog(c) \/ AutomaticBuild(c)
       PROVE GroupsMatch'
  BY <1>10 DEF OnStart, Build, OnEndReport, OnEndLog, AutomaticBuild
<1>11. ASSUME NEW c \in Contexts, Finish(c) PROVE GroupsMatch'
  BY <1>11, FinishWakes DEF Finish
<1>12. ASSUME NEW k \in Keys, Shutdown(k) PROVE GroupsMatch'
  BY <1>12 DEF Shutdown
<1>13. CASE UNCHANGED vars
  BY <1>13 DEF vars
<1>. QED
  BY <1>1, <1>2, <1>3, <1>4, <1>5, <1>6, <1>7, <1>8, <1>9, <1>10, <1>11, <1>12, <1>13,
     StepsOfTheService

\* A group is retired empty, and one that a cancel covers is not reused.
LEMMA CoveredStep == ASSUME Shape, GroupsMatch, Covered, [Next]_vars PROVE Covered'
<1>. USE ServiceAssumption
     DEF Shape, TypeOK, Threads, GroupsMatch, Covered, registryVars, groupVars, flightVars,
         threadVars, Goto, Answer, Operations, Disposing, Cleaning
<1>1. ASSUME NEW w \in Workers, NEW k \in Keys, ReadRebuild(w, k) PROVE Covered'
  BY <1>1 DEF ReadRebuild, Read, Admit, GroupOf, UnusedGroup
<1>2. ASSUME NEW w \in Workers, NEW k \in Keys, ReadCancel(w, k) PROVE Covered'
  BY <1>2 DEF ReadCancel, Read, Admit
<1>3. ASSUME NEW w \in Workers, NEW k \in Keys,
             ReadBuild(w, k) \/ ReadWatch(w, k) \/ ReadResolve(w, k) \/ ReadDispose(w, k)
      PROVE Covered'
  BY <1>3 DEF ReadBuild, ReadWatch, ReadResolve, ReadDispose, Read, Admit
<1>4. CASE ReadEof
  BY <1>4 DEF ReadEof
<1>5. ASSUME NEW w \in Workers, MarkGroup(w) PROVE Covered'
  BY <1>5 DEF MarkGroup
<1>6. ASSUME NEW w \in Workers,
             Create(w) \/ CreateRefused(w) \/ CreateComplete(w) \/ CreateFails(w)
      PROVE Covered'
  BY <1>6 DEF Create, CreateRefused, CreateComplete, CreateFails
<1>7. ASSUME NEW w \in Workers,
             Rebuild(w) \/ Watch(w) \/ Resolve(w) \/ Cancel(w) \/ GroupWait(w)
      PROVE Covered'
  BY <1>7 DEF Rebuild, Watch, Resolve, Cancel, GroupWait
<1>8. ASSUME NEW w \in Workers, DropOperation(w) PROVE Covered'
  BY <1>8 DEF DropOperation
<1>9. ASSUME NEW a \in Actors, Dispose(a) PROVE Covered'
  BY <1>9, DisposeMoves DEF Dispose
<1>10. ASSUME NEW a \in Actors,
              AwaitDisposed(a) \/ Drain(a) \/ NativeDispose(a) \/ NativeDisposed(a) \/ Settle(a)
              \/ Remove(a)
       PROVE Covered'
  BY <1>10 DEF AwaitDisposed, Drain, NativeDispose, NativeDisposed, Settle, Remove
<1>11. ASSUME NEW c \in Contexts,
              OnStart(c) \/ Build(c) \/ OnEndReport(c) \/ OnEndLog(c) \/ AutomaticBuild(c)
       PROVE Covered'
  BY <1>11 DEF OnStart, Build, OnEndReport, OnEndLog, AutomaticBuild
<1>12. ASSUME NEW c \in Contexts, Finish(c) PROVE Covered'
  BY <1>12, FinishWakes DEF Finish
<1>13. ASSUME NEW k \in Keys, Shutdown(k) PROVE Covered'
  BY <1>13 DEF Shutdown
<1>14. CASE UNCHANGED vars
  BY <1>14 DEF vars
<1>. QED
  BY <1>1, <1>2, <1>3, <1>4, <1>5, <1>6, <1>7, <1>8, <1>9, <1>10, <1>11, <1>12, <1>13, <1>14,
     StepsOfTheService

\* OnStart flags a flight of a canceled group: the group has a member, so
\* the native context is there.  A group that is new has not been canceled,
\* and one that is being canceled has a cancel on its way to the flight.
LEMMA ReachStep ==
    ASSUME Shape, Life, GroupsMatch, CancelReachesFlights, [Next]_vars
    PROVE  CancelReachesFlights'
<1>. USE ServiceAssumption
     DEF Shape, TypeOK, Threads, GroupsMatch, CancelReachesFlights, registryVars, groupVars,
         flightVars, threadVars, Goto, Answer, Operations, Disposing, Cleaning
<1>1. ASSUME NEW w \in Workers, NEW k \in Keys, ReadRebuild(w, k) PROVE CancelReachesFlights'
  BY <1>1 DEF ReadRebuild, Read, Admit, GroupOf, UnusedGroup
<1>2. ASSUME NEW w \in Workers, NEW k \in Keys,
             ReadBuild(w, k) \/ ReadWatch(w, k) \/ ReadResolve(w, k) \/ ReadCancel(w, k)
             \/ ReadDispose(w, k)
      PROVE CancelReachesFlights'
  BY <1>2 DEF ReadBuild, ReadWatch, ReadResolve, ReadCancel, ReadDispose, Read, Admit
<1>3. CASE ReadEof
  BY <1>3 DEF ReadEof
<1>4. ASSUME NEW w \in Workers, MarkGroup(w) PROVE CancelReachesFlights'
  BY <1>4 DEF MarkGroup
<1>5. ASSUME NEW w \in Workers,
             Create(w) \/ CreateRefused(w) \/ CreateComplete(w) \/ CreateFails(w)
      PROVE CancelReachesFlights'
  BY <1>5 DEF Create, CreateRefused, CreateComplete, CreateFails
<1>6. ASSUME NEW w \in Workers,
             Rebuild(w) \/ Watch(w) \/ Resolve(w) \/ Cancel(w) \/ GroupWait(w)
      PROVE CancelReachesFlights'
  BY <1>6 DEF Rebuild, Watch, Resolve, Cancel, GroupWait
<1>7. ASSUME NEW w \in Workers, DropOperation(w) PROVE CancelReachesFlights'
  BY <1>7 DEF DropOperation
<1>8. ASSUME NEW a \in Actors, Dispose(a) PROVE CancelReachesFlights'
  BY <1>8, DisposeMoves DEF Dispose
<1>9. ASSUME NEW a \in Actors,
             AwaitDisposed(a) \/ Drain(a) \/ NativeDispose(a) \/ NativeDisposed(a) \/ Settle(a)
             \/ Remove(a)
      PROVE CancelReachesFlights'
  BY <1>9 DEF AwaitDisposed, Drain, NativeDispose, NativeDisposed, Settle, Remove
<1>10. ASSUME NEW c \in Contexts, OnStart(c) PROVE CancelReachesFlights'
  <2>1. group[c] \in cancelled => c \in native /\ c \in alive
    BY DEF Life, Held
  <2>. QED  BY <1>10, <2>1 DEF OnStart
<1>11. ASSUME NEW c \in Contexts,
              Build(c) \/ OnEndReport(c) \/ OnEndLog(c) \/ AutomaticBuild(c)
       PROVE CancelReachesFlights'
  BY <1>11 DEF Build, OnEndReport, OnEndLog, AutomaticBuild
<1>12. ASSUME NEW c \in Contexts, Finish(c) PROVE CancelReachesFlights'
  BY <1>12, FinishWakes DEF Finish
<1>13. ASSUME NEW k \in Keys, Shutdown(k) PROVE CancelReachesFlights'
  BY <1>13 DEF Shutdown
<1>14. CASE UNCHANGED vars
  BY <1>14 DEF vars
<1>. QED
  BY <1>1, <1>2, <1>3, <1>4, <1>5, <1>6, <1>7, <1>8, <1>9, <1>10, <1>11, <1>12, <1>13, <1>14,
     StepsOfTheService

-----------------------------------------------------------------------------
(* The theorems.                                                           *)

IInv == Shape /\ Life /\ GroupsMatch /\ Covered /\ CancelReachesFlights

LEMMA IInvHolds == Spec => []IInv
<1>1. Init => IInv
  <2>. SUFFICES ASSUME Init PROVE IInv
    OBVIOUS
  <2>. USE ServiceAssumption DEF Init
  <2>1. TypeOK
    BY DEF TypeOK, Positions, Phases, Steps
  <2>2. Threads
    BY DEF Threads, Operations, Disposing, Cleaning
  <2>3. Life
    BY DEF Life, Held, Creators, Cleaners, Ended, Cleaning
  <2>4. GroupsMatch
    BY DEF GroupsMatch
  <2>5. Covered /\ CancelReachesFlights
    BY DEF Covered, CancelReachesFlights
  <2>. QED  BY <2>1, <2>2, <2>3, <2>4, <2>5 DEF IInv, Shape
<1>2. IInv /\ [Next]_vars => IInv'
  BY ShapeStep, LifeStep, GroupsStep, CoveredStep, ReachStep DEF IInv
<1>. QED  BY <1>1, <1>2, PTL DEF Spec

\* The registry's data are consistent: types, and rebuild groups that are
\* retired exactly when their last rebuild is dropped.
THEOREM RegistryStaysConsistent == Spec => []RegistryIsConsistent
<1>1. IInv => RegistryIsConsistent
  <2>1. ASSUME IInv PROVE GroupsMatchRebuilds
    BY <2>1 DEF IInv, Shape, GroupsMatch, GroupsMatchRebuilds
  <2>. QED  BY <2>1 DEF IInv, Shape, RegistryIsConsistent
<1>. QED  BY <1>1, IInvHolds, PTL

\* An admitted operation never meets a disposed native context.
THEOREM OperationsKeepTheNative == Spec => []NativeOutlivesOperations
<1>1. IInv => NativeOutlivesOperations
  BY DEF IInv, Life, Held, NativeOutlivesOperations
<1>. QED  BY <1>1, IInvHolds, PTL

\* Disposal is over for nobody before it is over, neither for a second
\* disposer nor for a new context under the same key.
THEOREM DisposalIsABarrier == Spec => []CleanupComesFirst
<1>1. IInv => CleanupComesFirst
  <2>. SUFFICES ASSUME IInv PROVE CleanupComesFirst
    OBVIOUS
  <2>. USE DEF IInv, Shape, Life
  <2>1. DisposersSeeCleanup
    BY DEF DisposersSeeCleanup, Ended, Threads, Disposing
  <2>2. KeyReuseIsSafe
    <3>1. reader # "closed" => ctx[Main] = None
      BY DEF Threads
    <3>. QED  BY <3>1, ServiceAssumption DEF KeyReuseIsSafe, Ended, Held
  <2>. QED  BY <2>1, <2>2 DEF CleanupComesFirst
<1>. QED  BY <1>1, IInvHolds, PTL

\* No flight of a canceled group is missed.
THEOREM CancelsReachFlights == Spec => []CancelReachesFlights
<1>1. IInv => CancelReachesFlights
  BY DEF IInv
<1>. QED  BY <1>1, IInvHolds, PTL

\* A cancel request is answered only after every rebuild admitted before it.
THEOREM CancelsCoverAdmitted == Spec => CancelCoversAdmitted
<1>. DEFINE Leaves ==
       \A w \in Workers : pc[w] = "groupWait" /\ pc'[w] # "groupWait" => before[w] = {}
<1>1. ASSUME IInv, [Next]_vars, NEW w \in Workers, pc[w] = "groupWait", pc'[w] # "groupWait"
      PROVE  before[w] = {}
  <2>. USE <1>1, ServiceAssumption
       DEF IInv, Shape, TypeOK, registryVars, groupVars, flightVars, threadVars, Goto, Answer
  <2>1. GroupWait(w)
    <3>1. \A a \in Workers, k \in Keys :
             ~(\/ ReadBuild(a, k) \/ ReadRebuild(a, k) \/ ReadWatch(a, k)
               \/ ReadResolve(a, k) \/ ReadCancel(a, k) \/ ReadDispose(a, k))
      BY DEF ReadBuild, ReadRebuild, ReadWatch, ReadResolve, ReadCancel, ReadDispose, Read
    <3>2. \A a \in Workers :
             ~(\/ Create(a) \/ CreateRefused(a) \/ CreateComplete(a) \/ CreateFails(a)
               \/ Rebuild(a) \/ Watch(a) \/ Resolve(a) \/ Cancel(a) \/ DropOperation(a))
      BY DEF Create, CreateRefused, CreateComplete, CreateFails, Rebuild, Watch, Resolve, Cancel,
             DropOperation
    <3>3. \A a \in Workers : ~MarkGroup(a)
      BY DEF MarkGroup, Threads
    <3>4. \A a \in Actors :
             ~(\/ AwaitDisposed(a) \/ Drain(a) \/ NativeDispose(a) \/ NativeDisposed(a)
               \/ Settle(a) \/ Remove(a))
      BY DEF AwaitDisposed, Drain, NativeDispose, NativeDisposed, Settle, Remove
    <3>5. \A a \in Actors : ~Dispose(a)
      BY DisposeMoves DEF Dispose
    <3>6. \A c \in Contexts :
             ~(OnStart(c) \/ Build(c) \/ OnEndReport(c) \/ OnEndLog(c) \/ AutomaticBuild(c))
      BY DEF OnStart, Build, OnEndReport, OnEndLog, AutomaticBuild
    <3>7. \A c \in Contexts : ~Finish(c)
      BY FinishWakes
    <3>8. \A k \in Keys : ~Shutdown(k)
      BY DEF Shutdown
    <3>9. ~ReadEof /\ ~UNCHANGED vars
      BY DEF ReadEof, vars
    <3>10. \A a \in Workers : GroupWait(a) => a = w
      BY DEF GroupWait
    <3>. QED
      BY <3>1, <3>2, <3>3, <3>4, <3>5, <3>6, <3>7, <3>8, <3>9, <3>10, StepsOfTheService
  <2>. QED  BY <2>1 DEF GroupWait, Covered
<1>2. IInv /\ [Next]_vars => [Leaves]_vars
  BY <1>1
<1>. QED  BY <1>2, IInvHolds, PTL DEF Spec, CancelCoversAdmitted
=============================================================================
