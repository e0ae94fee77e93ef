--------------------------- MODULE Watcher_proofs ---------------------------
(***************************************************************************)
(* Theorems about Watcher for any number of paths, callers and versions:   *)
(* a stop is final, a sweep over the watched paths is bounded, and reports *)
(* are of the watch data in force.                                         *)
(***************************************************************************)
EXTENDS Watcher, FiniteSetTheorems, SequenceTheorems, WellFoundedInduction, TLAPS

StopSteps == {"idle", "disposed", "take", "join", "joined", "returned"}

-----------------------------------------------------------------------------
(* start and stop                                                          *)

\* Who is past its flag finds the watcher stopped; who is past taking the handle
\* finds it taken; and a worker nobody holds a handle of has ended, stops itself or
\* is being joined.
StopInv ==
    /\ stopping \in [Actors -> StopSteps]
    /\ \A a \in Actors : stopping[a] \in {"take", "join", "joined", "returned"} => shouldStop = TRUE
    /\ \A a \in Actors : stopping[a] \in {"join", "joined", "returned"} => handle = FALSE
    /\ \A a \in Callers : stopping[a] = "joined" => WorkerGone
    /\ handle = FALSE => WorkerGone \/ stopping[Worker] = "returned" \/ \E a \in Callers : stopping[a] = "join"

\* The worker's own steps neither start it again nor touch the calls of stop.
LEMMA WorkerStepKeeps ==
    ASSUME WorkerStep
    PROVE  /\ at \notin {"none", "done"}
           /\ UNCHANGED <<stopping, shouldStop, handle>>
<1>. USE DEF ToWorker
<1>1. CASE IntervalEnds  BY <1>1 DEF IntervalEnds, WaitEnds
<1>2. CASE ScanCandidates  BY <1>2 DEF ScanCandidates
<1>3. CASE ScanEnds  BY <1>3 DEF ScanEnds
<1>4. CASE CallCallback  BY <1>4 DEF CallCallback
<1>5. CASE Recheck  BY <1>5 DEF Recheck
<1>6. CASE RecordDirty  BY <1>6 DEF RecordDirty
<1>7. CASE DelayEnds  BY <1>7 DEF DelayEnds, WaitEnds
<1>8. CASE RebuildReads  BY <1>8 DEF RebuildReads
<1>9. CASE RebuildPublishes  BY <1>9 DEF RebuildPublishes
<1>10. CASE RebuildPanics  BY <1>10 DEF RebuildPanics
<1>11. CASE RebuildJoins  BY <1>11 DEF RebuildJoins
<1>12. CASE RebuildJoined  BY <1>12 DEF RebuildJoined
<1>13. CASE RebuildRefused  BY <1>13 DEF RebuildRefused
<1>. QED
  BY <1>1, <1>2, <1>3, <1>4, <1>5, <1>6, <1>7, <1>8, <1>9, <1>10, <1>11, <1>12, <1>13 DEF WorkerStep

LEMMA StopInvariant == Spec => []StopInv
<1>. USE WatcherAssumption DEF Actors, StopSteps
<1>1. Init => StopInv
  BY DEF Init, StopInv, WorkerGone
<1>2. StopInv /\ [Next]_vars => StopInv'
  <2>. SUFFICES ASSUME StopInv, [Next]_vars PROVE StopInv'
    OBVIOUS
  <2>. USE DEF StopInv, WorkerGone
  <2>1. CASE WorkerStep
    BY <2>1, WorkerStepKeeps
  <2>2. ASSUME NEW a \in Actors, Dispose(a) PROVE StopInv'
    BY <2>2 DEF Dispose
  <2>3. ASSUME NEW a \in Actors, StopFlag(a) PROVE StopInv'
    BY <2>3 DEF StopFlag
  <2>4. ASSUME NEW a \in Actors, StopTake(a) PROVE StopInv'
    <3>1. a # Worker => a \in Callers
      OBVIOUS
    <3>2. CASE handle = TRUE /\ a # Worker
      BY <2>4, <3>1, <3>2 DEF StopTake
    <3>3. CASE handle = TRUE /\ a = Worker
      BY <2>4, <3>3 DEF StopTake
    <3>4. CASE handle # TRUE
      BY <2>4, <3>4 DEF StopTake
    <3>. QED  BY <3>2, <3>3, <3>4
  <2>5. ASSUME NEW a \in Actors, StopJoin(a) PROVE StopInv'
    BY <2>5 DEF StopJoin
  <2>6. CASE DropContext
    BY <2>6 DEF DropContext
  <2>7. ASSUME NEW c \in Callers, Start(c) PROVE StopInv'
    BY <2>7 DEF Start
  <2>8. ASSUME NEW c \in Callers, BuildReads(c) PROVE StopInv'
    BY <2>8 DEF BuildReads
  <2>9. ASSUME NEW c \in Callers, BuildPublishes(c) PROVE StopInv'
    BY <2>9 DEF BuildPublishes
  <2>10. ASSUME NEW p \in Paths, Edit(p) PROVE StopInv'
    BY <2>10 DEF Edit
  <2>11. CASE UNCHANGED vars
    BY <2>11 DEF vars
  <2>. QED
    BY <2>1, <2>2, <2>3, <2>4, <2>5, <2>6, <2>7, <2>8, <2>9, <2>10, <2>11 DEF Next
<1>. QED  BY <1>1, <1>2, PTL DEF Spec

\* However starts, stops, disposals and the worker interleave, a thread that has joined
\* the worker finds it gone for good, and no worker is left that nobody joins.
THEOREM StopsAreFinal == Spec => []StopIsFinal
<1>1. StopInv => StopIsFinal
  BY DEF StopInv, StopIsFinal, Actors, StopSteps
<1>. QED  BY <1>1, StopInvariant, PTL

-----------------------------------------------------------------------------
(* The sweep                                                               *)

\* What is left to scan fits into the rounds that are left.
SweepInv ==
    /\ DOMAIN data \subseteq Paths
    /\ \A a \in Actors : DOMAIN snapshot[a] \subseteq Paths
    /\ snapshot = [a \in Actors |-> snapshot[a]]
    /\ toScan \in Seq(Paths)
    /\ perInterval \in Nat
    /\ round \in 0..MaxIntervals
    /\ toScan # <<>> => Len(toScan) <= (MaxIntervals - round) * perInterval

\* Rounding up, the intervals together hold all the items (scan_candidates, div_ceil).
LEMMA CeilDivCovers ==
    ASSUME NEW a \in Nat, NEW b \in Nat \ {0}
    PROVE  CeilDiv(a, b) \in Nat /\ a <= b * CeilDiv(a, b)
BY DEF CeilDiv

LEMMA RefillCovers ==
    ASSUME NEW n \in Nat
    PROVE  LET per == Larger(CeilDiv(n, MaxIntervals), MinPerInterval)
           IN  per \in Nat /\ n <= MaxIntervals * per
<1>. DEFINE q == CeilDiv(n, MaxIntervals)
            per == Larger(q, MinPerInterval)
<1>1. MaxIntervals \in Nat \ {0} /\ MinPerInterval \in Nat
  BY WatcherAssumption
<1>2. q \in Nat /\ n <= MaxIntervals * q
  BY <1>1, CeilDivCovers
<1>3. per \in Nat /\ q <= per
  BY <1>1, <1>2 DEF Larger
<1>4. \A m, x, y \in Nat : x <= y => m * x <= m * y
  OBVIOUS
<1>5. MaxIntervals * q <= MaxIntervals * per
  BY <1>1, <1>2, <1>3, <1>4
<1>6. MaxIntervals * q \in Nat /\ MaxIntervals * per \in Nat
  BY <1>1, <1>2, <1>3
<1>. HIDE DEF q, per
<1>7. n <= MaxIntervals * per
  BY <1>2, <1>5, <1>6
<1>. QED  BY <1>3, <1>7 DEF per, q

\* A round of per items leaves no more than the remaining rounds can take.
LEMMA RoundFits ==
    ASSUME NEW items \in Seq(Paths), NEW per \in Nat, NEW rounds \in Nat,
           rounds >= 1, Len(items) <= rounds * per, TakeCandidates(items, per)
    PROVE  /\ toScan' \in Seq(Paths)
           /\ perInterval' = per
           /\ toScan' # <<>> => Len(toScan') <= (rounds - 1) * per
<1>. DEFINE first == Larger(Len(items) - per, 0)
<1>1. first \in 0..Len(items)
  BY DEF Larger
<1>2. toScan' = SubSeq(items, 1, first) /\ perInterval' = per
  BY DEF TakeCandidates
<1>3. toScan' \in Seq(Paths) /\ Len(toScan') = first
  BY <1>1, <1>2
<1>4. (rounds - 1) * per = rounds * per - per
  OBVIOUS
<1>5. first > 0 => first <= (rounds - 1) * per
  BY <1>4 DEF Larger
<1>. QED  BY <1>1, <1>2, <1>3, <1>5

LEMMA OrdersAreLists ==
    ASSUME DOMAIN data \subseteq Paths, NEW items \in Orders
    PROVE  items \in Seq(Paths)
<1>1. IsFiniteSet(DOMAIN data)
  BY FS_Subset, WatcherAssumption
<1>2. Cardinality(DOMAIN data) \in Nat
  BY <1>1, FS_CardinalityType
<1>. QED  BY <1>2 DEF Orders

LEMMA ScanKeepsSweep == ASSUME SweepInv, ScanCandidates PROVE SweepInv'
<1>. USE DEF SweepInv
<1>0. UNCHANGED <<data, snapshot>> /\ MaxIntervals \in Nat \ {0}
  BY WatcherAssumption DEF ScanCandidates
<1>1. CASE toScan = <<>>
  <2>1. PICK items \in Orders :
           TakeCandidates(items, Larger(CeilDiv(Len(items), MaxIntervals), MinPerInterval))
    BY <1>1 DEF ScanCandidates
  <2>2. round' = 1
    BY <1>1 DEF ScanCandidates
  <2>3. items \in Seq(Paths)
    BY OrdersAreLists
  <2>. DEFINE per == Larger(CeilDiv(Len(items), MaxIntervals), MinPerInterval)
  <2>4. per \in Nat /\ Len(items) <= MaxIntervals * per
    BY <2>3, RefillCovers
  <2>5. /\ toScan' \in Seq(Paths) /\ perInterval' = per
        /\ toScan' # <<>> => Len(toScan') <= (MaxIntervals - 1) * per
    <3>. HIDE DEF per
    <3>. QED  BY <1>0, <2>1, <2>3, <2>4, RoundFits DEF per
  <2>. HIDE DEF per
  <2>. QED  BY <1>0, <2>2, <2>4, <2>5
<1>2. CASE toScan # <<>>
  <2>1. TakeCandidates(toScan, perInterval) /\ round' = round + 1
    BY <1>2 DEF ScanCandidates
  <2>2. Len(toScan) >= 1
    BY <1>2
  <2>3. MaxIntervals - round \in Nat /\ MaxIntervals - round >= 1
    BY <1>0, <1>2, <2>2
  <2>4. /\ toScan' \in Seq(Paths) /\ perInterval' = perInterval
        /\ toScan' # <<>> => Len(toScan') <= ((MaxIntervals - round) - 1) * perInterval
    BY <1>2, <2>1, <2>3, RoundFits
  <2>5. (MaxIntervals - round) - 1 = MaxIntervals - round'
    BY <1>0, <2>1
  <2>. QED  BY <1>0, <2>1, <2>3, <2>4, <2>5
<1>. QED  BY <1>1, <1>2

\* New watch data start a new sweep.
LEMMA PublishKeepsSweep ==
    ASSUME SweepInv, NEW a \in Actors, SetWatchData(snapshot[a]),
           snapshot' = [snapshot EXCEPT ![a] = <<>>]
    PROVE  SweepInv'
<1>1. data' = snapshot[a] /\ toScan' = <<>> /\ perInterval' = 0 /\ round' = 0
  BY DEF SetWatchData
<1>2. DOMAIN data' \subseteq Paths
  BY <1>1 DEF SweepInv
<1>3. snapshot' = [b \in Actors |-> IF b = a THEN <<>> ELSE snapshot[b]]
  BY DEF SweepInv
<1>4. \A b \in Actors : DOMAIN snapshot'[b] \subseteq Paths
  <2>1. DOMAIN <<>> = {}
    OBVIOUS
  <2>2. \A b \in Actors : snapshot'[b] = <<>> \/ snapshot'[b] = snapshot[b]
    BY <1>3
  <2>. QED BY <2>1, <2>2 DEF SweepInv
<1>5. snapshot' = [b \in Actors |-> snapshot'[b]]
  BY <1>3
<1>6. MaxIntervals \in Nat /\ 0 \in 0..MaxIntervals
  BY WatcherAssumption
<1>7. toScan' \in Seq(Paths)
  BY <1>1
<1>. QED BY <1>1, <1>2, <1>4, <1>5, <1>6, <1>7 DEF SweepInv

LEMMA SweepInvariant == Spec => []SweepInv
<1>1. Init => SweepInv
  BY WatcherAssumption DEF Init, SweepInv
<1>2. SweepInv /\ [Next]_vars => SweepInv'
  <2>. SUFFICES ASSUME SweepInv, [Next]_vars PROVE SweepInv'
    OBVIOUS
  <2>. USE DEF ToWorker, scanVars
  <2>1. CASE ScanCandidates
    BY <2>1, ScanKeepsSweep
  <2>2. ASSUME NEW c \in Callers, BuildPublishes(c) PROVE SweepInv'
    BY <2>2, PublishKeepsSweep DEF BuildPublishes, Actors
  <2>3. CASE RebuildPublishes
    BY <2>3, PublishKeepsSweep DEF RebuildPublishes, Actors
  <2>4. ASSUME NEW c \in Callers, BuildReads(c) PROVE SweepInv'
    BY <2>4 DEF BuildReads, SweepInv
  <2>5. CASE RebuildReads
    BY <2>5 DEF RebuildReads, SweepInv, Actors
  <2>6. CASE RebuildPanics
    <3>1. DOMAIN <<>> \subseteq Paths
      OBVIOUS
    <3>2. \A a \in Actors : DOMAIN snapshot'[a] \subseteq Paths
      BY <2>6, <3>1 DEF RebuildPanics, SweepInv, Actors
    <3>. QED  BY <2>6, <3>2 DEF RebuildPanics, SweepInv, Actors
  <2>7. CASE UNCHANGED <<data, toScan, perInterval, round, snapshot>>
    BY <2>7 DEF SweepInv
  <2>8. WorkerStep => \/ ScanCandidates \/ RebuildPublishes \/ RebuildReads \/ RebuildPanics
                      \/ UNCHANGED <<data, toScan, perInterval, round, snapshot>>
    BY DEF WorkerStep, IntervalEnds, WaitEnds, ScanEnds, CallCallback, Recheck, RecordDirty, DelayEnds,
           RebuildJoins, RebuildJoined, RebuildRefused
  <2>9. \A a \in Actors : Dispose(a) \/ StopFlag(a) \/ StopTake(a) \/ StopJoin(a) =>
                            UNCHANGED <<data, toScan, perInterval, round, snapshot>>
    BY DEF Dispose, StopFlag, StopTake, StopJoin
  <2>10. \A c \in Callers : Start(c) => UNCHANGED <<data, toScan, perInterval, round, snapshot>>
    BY DEF Start
  <2>11. \A p \in Paths : Edit(p) => UNCHANGED <<data, toScan, perInterval, round, snapshot>>
    BY DEF Edit
  <2>12. DropContext => UNCHANGED <<data, toScan, perInterval, round, snapshot>>
    BY DEF DropContext
  <2>13. UNCHANGED vars => UNCHANGED <<data, toScan, perInterval, round, snapshot>>
    BY DEF vars
  <2>. QED
    BY <2>1, <2>2, <2>3, <2>4, <2>5, <2>6, <2>7, <2>8, <2>9, <2>10, <2>11, <2>12, <2>13 DEF Next
<1>. QED  BY <1>1, <1>2, PTL DEF Spec

\* While the watch data stay, the ordinary paths are all checked within MaxIntervals
\* rounds of the worker, however many there are (scan_candidates).
THEOREM SweepsAreBounded == Spec => []SweepIsBounded
<1>1. SweepInv => SweepIsBounded
  BY WatcherAssumption DEF SweepInv, SweepIsBounded
<1>. QED  BY <1>1, SweepInvariant, PTL

-----------------------------------------------------------------------------
(* Induction over natural numbers, from the least element of a set of them *)

\* A set of numbers has a least one.
LEMMA NatMin == ASSUME NEW T \in SUBSET Nat, T # {} PROVE \E m \in T : \A n \in T : m <= n
<1>. DEFINE R == {r \in Nat \X Nat : r[1] < r[2]}
<1>1. IsWellFoundedOn(R, Nat)
  BY NatLessThanWellFounded DEF OpToRel
<1>2. PICK m \in T : \A n \in T : ~ (<<n, m>> \in R)
  BY <1>1, WFMin
<1>3. ASSUME NEW n \in T PROVE m <= n
  <2>1. ~ (<<n, m>> \in R)
    BY <1>2
  <2>2. ~ (n < m)
    BY <2>1
  <2>. QED  BY <2>2
<1>. QED  BY <1>3

LEMMA NatSets == ASSUME NEW T \in SUBSET Nat, 0 \in T, \A n \in T : n + 1 \in T PROVE T = Nat
<1>. SUFFICES ASSUME T # Nat PROVE FALSE
  OBVIOUS
<1>1. PICK m \in Nat \ T : \A n \in Nat \ T : m <= n
  BY NatMin
<1>2. m # 0 /\ m - 1 \in Nat
  BY <1>1
<1>3. m - 1 \in T
  BY <1>1, <1>2
<1>. QED  BY <1>1, <1>2, <1>3

-----------------------------------------------------------------------------
(* The lists of paths                                                      *)

\* What is retained of a list are elements of it that are to be kept.
LEMMA RetainedIs ==
    ASSUME NEW S, NEW items \in Seq(S), NEW keep
    PROVE  Retained(items, keep) \in Seq(S \cap keep) /\ Len(Retained(items, keep)) <= Len(items)
<1>. DEFINE L == Len(items)
            Step(g, n) == IF n = 0 THEN <<>>
                          ELSE IF items[n] \in keep THEN Append(g[n - 1], items[n]) ELSE g[n - 1]
            Good(g, n) == g[n] \in Seq(S \cap keep) /\ Len(g[n]) <= n
<1>0. L \in Nat /\ \A n \in 1..L : items[n] \in S
  OBVIOUS
<1>1. ASSUME NEW n \in 1..L, NEW g, Good(g, n - 1)
      PROVE  Step(g, n) \in Seq(S \cap keep) /\ Len(Step(g, n)) <= n
  <2>1. g[n - 1] \in Seq(S \cap keep) /\ Len(g[n - 1]) <= n - 1 /\ items[n] \in S /\ n # 0
    BY <1>0, <1>1
  <2>. QED  BY <2>1
<1>a. \A g : Step(g, 0) = <<>>
  OBVIOUS
<1>b. \A g, h : \A n \in 1..L : g[n - 1] = h[n - 1] => Step(g, n) = Step(h, n)
  BY <1>0
<1>. HIDE DEF L, Step
<1>2. \E g : g = [n \in 0..L |-> Step(g, n)]
  <2>. DEFINE Upto(m) == \E g : g = [n \in 0..m |-> Step(g, n)]
              T == {m \in Nat : m <= L => Upto(m)}
  <2>1. 0 \in T
    <3>. DEFINE g == [n \in 0..0 |-> <<>>]
    <3>1. g = [n \in 0..0 |-> Step(g, n)]
      BY <1>a
    <3>. QED  BY <3>1
  <2>2. ASSUME NEW m \in T PROVE m + 1 \in T
    <3>. SUFFICES ASSUME m + 1 <= L
                  PROVE  \E h : h = [n \in 0..(m + 1) |-> Step(h, n)]
      OBVIOUS
    <3>1. PICK g : g = [n \in 0..m |-> Step(g, n)]
      BY <1>0
    <3>. DEFINE h == [n \in 0..(m + 1) |-> IF n = m + 1 THEN Step(g, n) ELSE g[n]]
    <3>a. \A n \in 0..m : g[n] = Step(g, n)
      <4>. DEFINE k == [n \in 0..m |-> Step(g, n)]
      <4>1. \A n \in 0..m : k[n] = Step(g, n)
        OBVIOUS
      <4>2. g = k
        BY <3>1
      <4>. HIDE DEF k
      <4>. QED  BY <4>1, <4>2
    <3>2. \A n \in 0..m : h[n] = g[n]
      OBVIOUS
    <3>3. h[m + 1] = Step(g, m + 1) /\ DOMAIN h = 0..(m + 1)
      OBVIOUS
    <3>c. h = [n \in 0..(m + 1) |-> h[n]]
      OBVIOUS
    <3>. HIDE DEF h
    <3>4. ASSUME NEW n \in 0..(m + 1) PROVE Step(h, n) = Step(g, n)
      <4>1. CASE n = 0
        BY <1>a, <4>1
      <4>2. CASE n # 0
        <5>1. n \in 1..L /\ n - 1 \in 0..m
          BY <1>0, <4>2
        <5>. QED  BY <1>b, <3>2, <5>1
      <4>. QED  BY <4>1, <4>2
    <3>5. \A n \in 0..(m + 1) : h[n] = Step(h, n)
      <4>1. \A n \in 0..(m + 1) : n = m + 1 \/ n \in 0..m
        OBVIOUS
      <4>. QED  BY <3>a, <3>2, <3>3, <3>4, <4>1
    <3>6. h = [n \in 0..(m + 1) |-> Step(h, n)]
      BY <3>c, <3>5
    <3>. QED  BY <3>6
  <2>3. L \in T
    <3>. HIDE DEF T
    <3>1. T \in SUBSET Nat
      BY DEF T
    <3>. QED  BY <1>0, <2>1, <2>2, <3>1, NatSets
  <2>. QED  BY <1>0, <2>3
<1>. DEFINE f == CHOOSE f : f = [n \in 0..L |-> IF n = 0 THEN <<>>
                   ELSE IF items[n] \in keep THEN Append(f[n - 1], items[n]) ELSE f[n - 1]]
<1>3. Retained(items, keep) = f[L]
  BY DEF Retained, L
<1>c. f = CHOOSE g : g = [n \in 0..L |-> Step(g, n)]
  BY DEF Step
<1>. HIDE DEF f
<1>4. f = [n \in 0..L |-> Step(f, n)]
  BY <1>2, <1>c
<1>d. \A n \in 0..L : f[n] = Step(f, n)
  <2>. DEFINE k == [n \in 0..L |-> Step(f, n)]
  <2>1. \A n \in 0..L : k[n] = Step(f, n)
    OBVIOUS
  <2>2. f = k
    BY <1>4
  <2>. HIDE DEF k
  <2>. QED  BY <2>1, <2>2
<1>5. \A m \in 0..L : Good(f, m)
  <2>. DEFINE T == {m \in Nat : m <= L => Good(f, m)}
  <2>1. 0 \in T
    <3>1. f[0] = <<>>
      BY <1>0, <1>a, <1>d
    <3>2. Good(f, 0)
      BY <3>1
    <3>. QED  BY <3>2
  <2>2. ASSUME NEW m \in T PROVE m + 1 \in T
    <3>. SUFFICES ASSUME m + 1 <= L PROVE Good(f, m + 1)
      OBVIOUS
    <3>1. Good(f, m) /\ m + 1 \in 1..L
      BY <1>0
    <3>2. f[m + 1] = Step(f, m + 1)
      BY <1>0, <1>d, <3>1
    <3>. QED  BY <1>1, <3>1, <3>2
  <2>3. T = Nat
    <3>. HIDE DEF T
    <3>1. T \in SUBSET Nat
      BY DEF T
    <3>. QED  BY <2>1, <2>2, <3>1, NatSets
  <2>. QED  BY <1>0, <2>3
<1>. QED  BY <1>0, <1>3, <1>5 DEF L

\* The path a list is searched for is at a position of it, and what is left without
\* that position are other elements of the list.
LEMMA RemovedIs ==
    ASSUME NEW S, NEW items \in Seq(S), NEW p \in ToSet(items)
    PROVE  LET rest == RemoveAt(items, SelectInSeq(items, LAMBDA q : q = p))
           IN  rest \in Seq(S) /\ Len(rest) <= Len(items)
<1>. DEFINE I == {i \in 1..Len(items) : items[i] = p}
<1>0. DOMAIN items = 1..Len(items) /\ Len(items) \in Nat
  OBVIOUS
<1>0a. PICK i \in I : TRUE
  BY <1>0 DEF ToSet
<1>1. PICK m \in I : \A n \in I : m <= n
  <2>1. I \in SUBSET Nat /\ I # {}
    BY <1>0, <1>0a
  <2>. HIDE DEF I
  <2>. QED  BY <2>1, NatMin
<1>2. SelectInSeq(items, LAMBDA q : q = p) \in 1..Len(items)
  <2>1. Min(I) \in I
    BY <1>1 DEF Min
  <2>. QED  BY <1>1, <2>1 DEF SelectInSeq
<1>. DEFINE k == SelectInSeq(items, LAMBDA q : q = p)
<1>. HIDE DEF k
<1>3. k \in 1..Len(items) /\ Len(items) \in Nat
  BY <1>2 DEF k
<1>4. SubSeq(items, 1, k - 1) \in Seq(S) /\ SubSeq(items, k + 1, Len(items)) \in Seq(S)
  BY <1>3
<1>5. /\ Len(SubSeq(items, 1, k - 1)) = k - 1
      /\ Len(SubSeq(items, k + 1, Len(items))) = Len(items) - k
  BY <1>3
<1>6. RemoveAt(items, k) \in Seq(S) /\ Len(RemoveAt(items, k)) = Len(items) - 1
  <2>. DEFINE a == SubSeq(items, 1, k - 1)
              b == SubSeq(items, k + 1, Len(items))
  <2>1. RemoveAt(items, k) = a \o b
    BY DEF RemoveAt
  <2>. HIDE DEF a, b
  <2>2. a \in Seq(S) /\ b \in Seq(S) /\ Len(a) = k - 1 /\ Len(b) = Len(items) - k
    BY <1>4, <1>5 DEF a, b
  <2>3. a \o b \in Seq(S) /\ Len(a \o b) = Len(a) + Len(b)
    BY <2>2, ConcatProperties
  <2>. QED  BY <1>3, <2>1, <2>2, <2>3
<1>. QED  BY <1>3, <1>6 DEF k

\* The reported path is the most recent one of a list that is never too long.
LEMMA RenewedIs ==
    ASSUME NEW S, recent \in Seq(S), Len(recent) <= MaxRecent, NEW c, c.path \in S
    PROVE  /\ Renewed(c) \in Seq(S) /\ Len(Renewed(c)) <= MaxRecent
           /\ Renewed(c) # <<>> /\ Last(Renewed(c)) = c.path
<1>. DEFINE others == IF c.wasRecent /\ c.path \in ToSet(recent)
                      THEN RemoveAt(recent, SelectInSeq(recent, LAMBDA p : p = c.path))
                      ELSE recent
            longer == Append(others, c.path)
<1>1. others \in Seq(S) /\ Len(others) <= MaxRecent
  <2>. DEFINE rest == RemoveAt(recent, SelectInSeq(recent, LAMBDA p : p = c.path))
  <2>1. c.path \in ToSet(recent) => rest \in Seq(S) /\ Len(rest) <= Len(recent)
    BY RemovedIs
  <2>. HIDE DEF rest
  <2>2. others = rest \/ others = recent
    BY DEF rest
  <2>3. others = rest => c.path \in ToSet(recent) \/ others = recent
    BY DEF rest
  <2>. HIDE DEF others
  <2>. QED  BY <2>1, <2>2, <2>3, WatcherAssumption
<1>. HIDE DEF others
<1>2. longer \in Seq(S) /\ Len(longer) = Len(others) + 1 /\ longer[Len(longer)] = c.path
  BY <1>1
<1>3. MaxRecent \in Nat \ {0} /\ Len(others) \in Nat
  BY <1>1, WatcherAssumption
<1>4. Renewed(c) = IF Len(longer) > MaxRecent THEN Tail(longer) ELSE longer
  BY DEF Renewed, others
<1>. HIDE DEF longer
<1>5. CASE Len(longer) > MaxRecent
  <2>1. Len(longer) >= 2 /\ longer # <<>>
    BY <1>2, <1>3, <1>5
  <2>2. /\ Tail(longer) \in Seq(S) /\ Len(Tail(longer)) = Len(longer) - 1
        /\ \A i \in 1..Len(Tail(longer)) : Tail(longer)[i] = longer[i + 1]
    BY <1>2, <2>1, HeadTailProperties
  <2>3. Tail(longer)[Len(Tail(longer))] = c.path
    BY <1>2, <1>3, <2>1, <2>2
  <2>. QED  BY <1>1, <1>2, <1>3, <1>4, <1>5, <2>1, <2>2, <2>3 DEF Last
<1>6. CASE ~ (Len(longer) > MaxRecent)
  BY <1>1, <1>2, <1>3, <1>4, <1>6 DEF Last
<1>. QED  BY <1>5, <1>6

-----------------------------------------------------------------------------
(* Reports                                                                 *)

WorkerPlaces == {"none", "wait", "scan", "call", "clean", "dirty", "record", "delay",
                 "rebuild", "publish", "joined", "done"}

\* What threads of a build and of the worker remember are versions of files.
Store ==
    /\ disk \in [Paths -> Versions]
    /\ data \in WatchData
    /\ generation \in Nat
    /\ snapshot \in [Actors -> WatchData]
    /\ scan = [generation |-> scan.generation, candidates |-> scan.candidates]
    /\ scan.generation \in Nat /\ scan.generation <= generation

Flags ==
    /\ shouldStop \in BOOLEAN /\ context \in BOOLEAN /\ handle \in BOOLEAN
    /\ at \in WorkerPlaces
    /\ stopping \in [Actors -> StopSteps]

\* Both lists hold watched paths only, and the recent ones are few.
Lists ==
    /\ recent \in Seq(DOMAIN data) /\ Len(recent) <= MaxRecent
    /\ toScan \in Seq(DOMAIN data)

ReportInv == Store /\ Flags /\ Lists /\ SweepInv

\* A build reads versions of files.
LEMMA ReadsAreVersions ==
    ASSUME Store, NEW a \in Actors, NEW files \in SUBSET Paths,
           snapshot' = [snapshot EXCEPT ![a] = [p \in files |-> disk[p]]]
    PROVE  snapshot' \in [Actors -> WatchData]
<1>1. [p \in files |-> disk[p]] \in [files -> Versions]
  BY DEF Store
<1>2. [p \in files |-> disk[p]] \in WatchData
  BY <1>1 DEF WatchData
<1>. QED  BY <1>2 DEF Store

LEMMA NothingIsRead == <<>> \in WatchData
<1>1. <<>> \in [{} -> Versions] /\ {} \in SUBSET Paths
  OBVIOUS
<1>. QED  BY <1>1 DEF WatchData

\* A scan is of the data in force when it begins, and takes known paths off the list.
LEMMA TakesKnownPaths ==
    ASSUME NEW items \in Seq(DOMAIN data), NEW per \in Nat, TakeCandidates(items, per)
    PROVE  /\ toScan' \in Seq(DOMAIN data)
           /\ scan' = [generation |-> scan'.generation, candidates |-> scan'.candidates]
           /\ scan'.generation = generation
<1>. DEFINE first == Larger(Len(items) - per, 0)
<1>1. first \in 0..Len(items)
  BY DEF Larger
<1>2. toScan' = SubSeq(items, 1, first)
  BY DEF TakeCandidates
<1>3. toScan' \in Seq(DOMAIN data)
  BY <1>1, <1>2
<1>. QED  BY <1>3 DEF TakeCandidates

LEMMA ScanTakesKnownPaths ==
    ASSUME ReportInv, ScanCandidates
    PROVE  /\ toScan' \in Seq(DOMAIN data) /\ UNCHANGED <<data, generation, recent, snapshot>>
           /\ scan' = [generation |-> scan'.generation, candidates |-> scan'.candidates]
           /\ scan'.generation = generation
<1>1. CASE toScan = <<>>
  <2>1. PICK items \in Orders :
           TakeCandidates(items, Larger(CeilDiv(Len(items), MaxIntervals), MinPerInterval))
    BY <1>1 DEF ScanCandidates
  <2>2. IsFiniteSet(DOMAIN data)
    BY FS_Subset, WatcherAssumption DEF ReportInv, SweepInv
  <2>3. Cardinality(DOMAIN data) \in Nat
    BY <2>2, FS_CardinalityType
  <2>4. items \in Seq(DOMAIN data)
    BY <2>3 DEF Orders
  <2>. DEFINE per == Larger(CeilDiv(Len(items), MaxIntervals), MinPerInterval)
  <2>5. per \in Nat
    BY <2>4, RefillCovers
  <2>. HIDE DEF per
  <2>6. TakeCandidates(items, per)
    BY <2>1 DEF per
  <2>. QED  BY <2>4, <2>5, <2>6, TakesKnownPaths DEF ScanCandidates
<1>2. CASE toScan # <<>>
  <2>1. TakeCandidates(toScan, perInterval)
    BY <1>2 DEF ScanCandidates
  <2>. QED  BY <2>1, TakesKnownPaths DEF ScanCandidates, ReportInv, Lists, SweepInv
<1>. QED  BY <1>1, <1>2

\* New watch data keep of the recent paths those that are still watched.
LEMMA PublishKeepsLists ==
    ASSUME ReportInv, NEW new \in WatchData, SetWatchData(new)
    PROVE  /\ Lists' /\ data' \in WatchData
           /\ generation' = generation + 1
<1>1. /\ data' = new /\ toScan' = <<>> /\ generation' = generation + 1
      /\ recent' = Retained(recent, DOMAIN new)
  BY DEF SetWatchData
<1>2. recent' \in Seq(DOMAIN data \cap DOMAIN new) /\ Len(recent') <= Len(recent)
  BY <1>1, RetainedIs DEF ReportInv, Lists
<1>3. recent' \in Seq(DOMAIN new) /\ Len(recent') \in Nat
  BY <1>2
<1>4. Len(recent) \in Nat /\ Len(recent) <= MaxRecent /\ MaxRecent \in Nat
  BY WatcherAssumption DEF ReportInv, Lists
<1>. QED  BY <1>1, <1>2, <1>3, <1>4 DEF Lists

LEMMA StoreStep == ASSUME ReportInv, [Next]_vars PROVE Store'
<1>. USE DEF ToWorker
<1>0. Store /\ SweepInv /\ \A a \in Actors : snapshot[a] \in WatchData
  BY DEF ReportInv, Store
<1>1. CASE ScanCandidates
  BY <1>0, <1>1, ScanTakesKnownPaths DEF ScanCandidates, Store
<1>2. CASE ScanEnds \/ RecordDirty
  <2>1. UNCHANGED <<disk, data, generation, snapshot>> /\ scan' = NoScan
    BY <1>2 DEF ScanEnds, RecordDirty
  <2>. QED  BY <1>0, <2>1 DEF NoScan, Store
<1>3. CASE Recheck
  <2>1. UNCHANGED <<disk, data, generation, snapshot>>
    BY <1>3 DEF Recheck
  <2>2. scan' = NoScan \/ scan' = [scan EXCEPT !.candidates = Tail(@)] \/ scan' = scan
    BY <1>3 DEF Recheck
  <2>3. CASE scan' = NoScan
    BY <1>0, <2>1, <2>3 DEF NoScan, Store
  <2>4. CASE scan' = [scan EXCEPT !.candidates = Tail(@)]
    BY <1>0, <2>1, <2>4 DEF Store
  <2>5. CASE scan' = scan
    BY <1>0, <2>1, <2>5 DEF Store
  <2>. QED  BY <2>2, <2>3, <2>4, <2>5
<1>4. ASSUME NEW a \in Actors, NEW files \in SUBSET Paths, UNCHANGED <<disk, data, generation, scan>>,
             snapshot' = [snapshot EXCEPT ![a] = [p \in files |-> disk[p]]]
      PROVE  Store'
  <2>1. snapshot' \in [Actors -> WatchData]
    BY <1>0, <1>4, ReadsAreVersions
  <2>. QED  BY <1>0, <1>4, <2>1 DEF Store
<1>5. CASE RebuildReads
  <2>1. PICK files \in SUBSET Paths : snapshot' = [snapshot EXCEPT ![Worker] = [p \in files |-> disk[p]]]
    BY <1>5 DEF RebuildReads
  <2>2. UNCHANGED <<disk, data, generation, scan>> /\ Worker \in Actors
    BY <1>5 DEF RebuildReads, Actors
  <2>. QED  BY <1>4, <2>1, <2>2
<1>6. ASSUME NEW c \in Callers, BuildReads(c) PROVE Store'
  <2>1. PICK files \in SUBSET Paths : snapshot' = [snapshot EXCEPT ![c] = [p \in files |-> disk[p]]]
    BY <1>6 DEF BuildReads
  <2>2. UNCHANGED <<disk, data, generation, scan>> /\ c \in Actors
    BY <1>6 DEF BuildReads, Actors
  <2>. QED  BY <1>4, <2>1, <2>2
<1>7. ASSUME NEW a \in Actors, SetWatchData(snapshot[a]), snapshot' = [snapshot EXCEPT ![a] = <<>>],
             UNCHANGED <<disk, scan>>
      PROVE  Store'
  BY <1>0, <1>7, PublishKeepsLists, NothingIsRead DEF Store
<1>8. CASE RebuildPublishes
  BY <1>7, <1>8 DEF RebuildPublishes, Actors
<1>9. ASSUME NEW c \in Callers, BuildPublishes(c) PROVE Store'
  BY <1>7, <1>9 DEF BuildPublishes, Actors
<1>10. CASE RebuildPanics
  BY <1>0, <1>10, NothingIsRead DEF RebuildPanics, Store
<1>11. ASSUME NEW p \in Paths, Edit(p) PROVE Store'
  <2>1. /\ disk' = [disk EXCEPT ![p] = @ + 1] /\ disk[p] < MaxVersion
        /\ UNCHANGED <<data, generation, snapshot, scan>>
    BY <1>11 DEF Edit
  <2>2. disk[p] + 1 \in Versions
    BY <1>0, <2>1, WatcherAssumption DEF Store, Versions
  <2>. QED  BY <1>0, <2>1, <2>2 DEF Store
<1>12. CASE UNCHANGED <<disk, data, generation, snapshot, scan>>
  BY <1>0, <1>12 DEF Store
<1>13. WorkerStep => \/ ScanCandidates \/ ScanEnds \/ RecordDirty \/ Recheck \/ RebuildReads
                     \/ RebuildPublishes \/ RebuildPanics
                     \/ UNCHANGED <<disk, data, generation, snapshot, scan>>
  BY DEF WorkerStep, IntervalEnds, WaitEnds, CallCallback, DelayEnds, RebuildJoins, RebuildJoined, RebuildRefused
<1>14. \A a \in Actors : Dispose(a) \/ StopFlag(a) \/ StopTake(a) \/ StopJoin(a) =>
                            UNCHANGED <<disk, data, generation, snapshot, scan>>
  BY DEF Dispose, StopFlag, StopTake, StopJoin
<1>15. \A c \in Callers : Start(c) => UNCHANGED <<disk, data, generation, snapshot, scan>>
  BY DEF Start
<1>16. DropContext \/ UNCHANGED vars => UNCHANGED <<disk, data, generation, snapshot, scan>>
  BY DEF DropContext, vars
<1>. QED
  BY <1>1, <1>2, <1>3, <1>5, <1>6, <1>8, <1>9, <1>10, <1>11, <1>12, <1>13, <1>14, <1>15, <1>16 DEF Next

LEMMA ListsStep == ASSUME ReportInv, [Next]_vars PROVE Lists'
<1>. USE DEF ToWorker
<1>0. Lists /\ \A a \in Actors : snapshot[a] \in WatchData
  BY DEF ReportInv, Store
<1>1. CASE ScanCandidates
  BY <1>0, <1>1, ScanTakesKnownPaths DEF Lists
<1>2. CASE RecordDirty
  <2>. DEFINE c == Head(scan.candidates)
  <2>1. UNCHANGED <<data, toScan>>
    BY <1>2 DEF RecordDirty
  <2>2. recent' = recent \/ (c.path \in DOMAIN data /\ recent' = Renewed(c))
    BY <1>2 DEF RecordDirty
  <2>. HIDE DEF c
  <2>3. c.path \in DOMAIN data => Renewed(c) \in Seq(DOMAIN data) /\ Len(Renewed(c)) <= MaxRecent
    BY <1>0, RenewedIs DEF Lists
  <2>. QED  BY <1>0, <2>1, <2>2, <2>3 DEF Lists
<1>3. CASE RebuildPublishes
  BY <1>0, <1>3, PublishKeepsLists DEF RebuildPublishes, Actors
<1>4. ASSUME NEW c \in Callers, BuildPublishes(c) PROVE Lists'
  BY <1>0, <1>4, PublishKeepsLists DEF BuildPublishes, Actors
<1>5. CASE UNCHANGED <<data, recent, toScan>>
  BY <1>0, <1>5 DEF Lists
<1>6. WorkerStep => \/ ScanCandidates \/ RecordDirty \/ RebuildPublishes
                    \/ UNCHANGED <<data, recent, toScan>>
  BY DEF WorkerStep, IntervalEnds, WaitEnds, ScanEnds, CallCallback, Recheck, DelayEnds, RebuildReads,
         RebuildPanics, RebuildJoins, RebuildJoined, RebuildRefused, scanVars
<1>7. \A a \in Actors : Dispose(a) \/ StopFlag(a) \/ StopTake(a) \/ StopJoin(a) =>
                           UNCHANGED <<data, recent, toScan>>
  BY DEF Dispose, StopFlag, StopTake, StopJoin, scanVars
<1>8. \A c \in Callers : Start(c) \/ BuildReads(c) => UNCHANGED <<data, recent, toScan>>
  BY DEF Start, BuildReads, scanVars
<1>9. \A p \in Paths : Edit(p) => UNCHANGED <<data, recent, toScan>>
  BY DEF Edit, scanVars
<1>10. DropContext \/ UNCHANGED vars => UNCHANGED <<data, recent, toScan>>
  BY DEF DropContext, vars, scanVars
<1>. QED
  BY <1>1, <1>2, <1>3, <1>4, <1>5, <1>6, <1>7, <1>8, <1>9, <1>10 DEF Next

LEMMA FlagsStep == ASSUME Flags, [Next]_vars PROVE Flags'
<1>1. CASE WorkerStep
  <2>. USE DEF ToWorker, WorkerPlaces
  <2>1. UNCHANGED <<shouldStop, context, handle, stopping>>
    BY <1>1 DEF WorkerStep, IntervalEnds, WaitEnds, ScanCandidates, ScanEnds, CallCallback, Recheck, RecordDirty,
       DelayEnds, RebuildReads, RebuildPublishes, RebuildPanics, RebuildJoins, RebuildJoined, RebuildRefused
  <2>2. at' \in WorkerPlaces
    BY <1>1 DEF WorkerStep, IntervalEnds, WaitEnds, ScanCandidates, ScanEnds, CallCallback, Recheck, RecordDirty,
       DelayEnds, RebuildReads, RebuildPublishes, RebuildPanics, RebuildJoins, RebuildJoined, RebuildRefused, Loop
  <2>. QED  BY <2>1, <2>2 DEF Flags
<1>2. ASSUME NEW a \in Actors, Dispose(a) PROVE Flags'
  BY <1>2 DEF Dispose, Flags, StopSteps
<1>3. ASSUME NEW a \in Actors, StopFlag(a) PROVE Flags'
  BY <1>3 DEF StopFlag, Flags, StopSteps
<1>4. ASSUME NEW a \in Actors, StopTake(a) PROVE Flags'
  BY <1>4 DEF StopTake, Flags, StopSteps
<1>5. ASSUME NEW a \in Actors, StopJoin(a) PROVE Flags'
  BY <1>5 DEF StopJoin, Flags, StopSteps
<1>6. CASE DropContext
  BY <1>6 DEF DropContext, Flags
<1>7. ASSUME NEW c \in Callers, Start(c) PROVE Flags'
  BY <1>7 DEF Start, Flags, WorkerPlaces
<1>8. CASE UNCHANGED <<shouldStop, context, handle, at, stopping>>
  BY <1>8 DEF Flags
<1>9. \A c \in Callers : BuildReads(c) \/ BuildPublishes(c) =>
                            UNCHANGED <<shouldStop, context, handle, at, stopping>>
  BY DEF BuildReads, BuildPublishes
<1>10. \A p \in Paths : Edit(p) => UNCHANGED <<shouldStop, context, handle, at, stopping>>
  BY DEF Edit
<1>11. UNCHANGED vars => UNCHANGED <<shouldStop, context, handle, at, stopping>>
  BY DEF vars
<1>. QED
  BY <1>1, <1>2, <1>3, <1>4, <1>5, <1>6, <1>7, <1>8, <1>9, <1>10, <1>11 DEF Next

LEMMA ReportInvariant == Spec => []ReportInv
<1>1. Init => Store /\ Flags /\ Lists
  <2>. SUFFICES ASSUME Init PROVE Store /\ Flags /\ Lists
    OBVIOUS
  <2>1. Store
    BY NothingIsRead, WatcherAssumption DEF Init, Store, NoScan, Versions
  <2>2. Flags
    BY DEF Init, Flags, WorkerPlaces, StopSteps
  <2>3. Lists
    BY WatcherAssumption DEF Init, Lists
  <2>. QED  BY <2>1, <2>2, <2>3
<1>2. ReportInv /\ [Next]_vars => (Store /\ Flags /\ Lists)'
  BY StoreStep, FlagsStep, ListsStep DEF ReportInv
<1>. QED  BY <1>1, <1>2, SweepInvariant, PTL DEF Spec, ReportInv

\* However builds replace the watch data while a scan runs its callbacks unlocked, a
\* path is reported only for the data in force, and becomes the most recent one; and
\* no list keeps a path the data no longer have.
THEOREM ReportsStayCurrent == Spec => ReportsAreCurrent
<1>1. ReportInv => TypeOK
  <2>. SUFFICES ASSUME ReportInv PROVE TypeOK
    OBVIOUS
  <2>1. ToSet(recent) \subseteq DOMAIN data /\ ToSet(toScan) \subseteq DOMAIN data
    BY DEF ReportInv, Lists, ToSet
  <2>2. {shouldStop, context, handle} \subseteq BOOLEAN
    BY DEF ReportInv, Flags
  <2>. QED
    BY <2>1, <2>2 DEF ReportInv, Store, Flags, Lists, SweepInv, TypeOK, WorkerPlaces, StopSteps
<1>2. ReportInv /\ [Next]_vars =>
        (at' = "delay" /\ at # "delay" =>
             LET c == Head(scan.candidates)
             IN  /\ scan.generation = generation
                 /\ c.path \in DOMAIN data /\ data[c.path] = c.seen
                 /\ recent' # <<>> /\ Last(recent') = c.path)
  <2>. SUFFICES ASSUME ReportInv, [Next]_vars, at' = "delay", at # "delay"
                PROVE  LET c == Head(scan.candidates)
                       IN  /\ scan.generation = generation
                           /\ c.path \in DOMAIN data /\ data[c.path] = c.seen
                           /\ recent' # <<>> /\ Last(recent') = c.path
    OBVIOUS
  <2>. DEFINE c == Head(scan.candidates)
  <2>1. RecordDirty
    BY DEF Next, vars, WorkerStep, ToWorker, Loop, IntervalEnds, WaitEnds, ScanCandidates, ScanEnds,
       CallCallback, Recheck, DelayEnds, RebuildReads, RebuildPublishes, RebuildPanics, RebuildJoins,
       RebuildJoined, RebuildRefused, Dispose, StopFlag, StopTake, StopJoin, DropContext, Start,
       BuildReads, BuildPublishes, Edit
  <2>2. /\ scan.generation = generation /\ c.path \in DOMAIN data /\ data[c.path] = c.seen
        /\ recent' = Renewed(c)
    BY <2>1 DEF RecordDirty, ToWorker, Loop
  <2>. HIDE DEF c
  <2>3. Renewed(c) # <<>> /\ Last(Renewed(c)) = c.path
    BY <2>2, RenewedIs DEF ReportInv, Lists
  <2>4. recent' # <<>> /\ Last(recent') = c.path
    BY <2>2, <2>3 DEF Last
  <2>. QED  BY <2>2, <2>4 DEF c
<1>. QED  BY <1>1, <1>2, ReportInvariant, PTL DEF Spec, ReportsAreCurrent
=============================================================================
