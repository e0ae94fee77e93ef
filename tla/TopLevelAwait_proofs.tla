------------------------- MODULE TopLevelAwait_proofs -------------------------
(***************************************************************************)
(* Theorems about the scan of a bundle, for every corpus of programs, any  *)
(* packages and any numbers earlier builds gave out: LinkerInputIsSound,   *)
(* OneCopyOfAPackage and AwaitsAreFound.                                   *)
(*                                                                         *)
(* The first two follow the files on their way: what the scan has read is  *)
(* what was queued (ReadInv), so that every record has a target that is    *)
(* read and of the right kind when nothing was reported (FinalInv), and    *)
(* the walk closes the list of files under these targets (LinkInv).  The   *)
(* third rests on the stack of the search: a file above another on it was  *)
(* met below that one (CallsInv), so that a record the loop has left       *)
(* behind, of a file below which there is no circle, leads to a file that  *)
(* will not change any more (SettledInv).                                  *)
(***************************************************************************)
EXTENDS TopLevelAwait, FiniteSetTheorems, SequenceTheorems, TLAPS

-----------------------------------------------------------------------------
(* Reading                                                                 *)

Phases == {"scan", "await", "reach", "link", "failed", "wrap"}

IsRead(f) ==
    /\ f \in Disk(corpus)
    /\ \E c \in ContentsOf(corpus, f) : c.loader # "broken" /\ file[f] = Parsed(c)

ReadInv ==
    /\ corpus \in DOMAIN Corpora
    /\ phase \in Phases
    /\ pending \in Seq(Disk(corpus)) /\ pending # <<>> /\ pending[1] = Corpora[corpus].entry
    /\ cursor \in Nat /\ cursor >= 1
    /\ phase \in {"scan", "await", "reach"} => visiting = <<>> /\ reachable = <<>>
    /\ phase = "scan" =>
          /\ \A f \in Files :
                /\ IsRead(f)
                /\ \A i \in DOMAIN file[f].target : TargetOf(f, i) \in Range(pending) \cup {NoPath}
          /\ errors = {} => \A n \in 1..Len(pending) : n < cursor => pending[n] \in Files

LEMMA AppendedIs ==
    ASSUME NEW S, NEW s \in Seq(S), NEW new, new \subseteq S, NEW order,
           IsFiniteSet(new),
           NEW t \in Appended(s, new, order)
    PROVE  /\ t \in Seq(S)
           /\ Len(t) >= Len(s)
           /\ \A n \in 1..Len(s) : t[n] = s[n]
           /\ Range(t) = Range(s) \cup new
<1>. DEFINE rest == new \ Range(s)
            n == Cardinality(rest)
<1>1. PICK u \in [1..n -> rest] : t = s \o u /\ Range(u) = rest
  BY DEF Appended
<1>. HIDE DEF n, rest
<1>2. u \in Seq(S) /\ Len(u) = n
  <2>1. n \in Nat /\ rest \subseteq S
    BY FS_Subset, FS_CardinalityType DEF n, rest
  <2>. QED BY <2>1
<1>3. /\ t \in Seq(S)
      /\ Len(t) = Len(s) + Len(u)
      /\ \A i \in 1..(Len(s) + Len(u)) : t[i] = IF i <= Len(s) THEN s[i] ELSE u[i - Len(s)]
  BY <1>1, <1>2, ConcatProperties
<1>4. \A i \in 1..Len(s) : t[i] = s[i] /\ i \in 1..Len(t)
  BY <1>2, <1>3
<1>5. Range(s) \subseteq Range(t)
  BY <1>4 DEF Range
<1>6. \A i \in 1..Len(u) : t[i + Len(s)] = u[i] /\ i + Len(s) \in 1..Len(t)
  BY <1>2, <1>3
<1>7. Range(u) \subseteq Range(t)
  BY <1>2, <1>3, <1>6 DEF Range
<1>8. Range(t) \subseteq Range(s) \cup Range(u)
  <2>1. \A i \in 1..Len(t) : \/ i \in 1..Len(s) /\ t[i] = s[i]
                             \/ i - Len(s) \in 1..Len(u) /\ t[i] = u[i - Len(s)]
    BY <1>2, <1>3
  <2>2. DOMAIN t = 1..Len(t) /\ DOMAIN s = 1..Len(s) /\ DOMAIN u = 1..Len(u)
    BY <1>2, <1>3
  <2>3. ASSUME NEW i \in DOMAIN t PROVE t[i] \in Range(s) \cup Range(u)
    <3>1. CASE i \in 1..Len(s) /\ t[i] = s[i]
      BY <2>2, <3>1 DEF Range
    <3>2. CASE i - Len(s) \in 1..Len(u) /\ t[i] = u[i - Len(s)]
      BY <2>2, <3>2 DEF Range
    <3>. QED BY <2>1, <2>2, <3>1, <3>2
  <2>. QED BY <2>3 DEF Range
<1>. QED
  BY <1>1, <1>2, <1>3, <1>4, <1>5, <1>7, <1>8 DEF rest

LEMMA DependenciesFinite ==
    ASSUME NEW c, NEW paths, IsParsed(c, paths)
    PROVE  IsFiniteSet(Dependencies(c))
<1>. DEFINE D == DOMAIN c.statements
            T == {Primary(c.statements[i]) : i \in D}
            f == [i \in D |-> Primary(c.statements[i])]
<1>1. IsFiniteSet(D)
  BY FS_Interval DEF IsParsed
<1>2. f \in Surjection(D, T)
  BY DEF Surjection
<1>. HIDE DEF D, f
<1>3. IsFiniteSet(T)
  <2>. HIDE DEF T
  <2>. QED BY <1>1, <1>2, FS_Surjection
<1>4. Dependencies(c) \subseteq T
  BY DEF Dependencies, D
<1>. HIDE DEF T
<1>. QED BY <1>3, <1>4, FS_Subset

LEMMA PathsOfStatements ==
    ASSUME NEW k \in DOMAIN Corpora, NEW s, s.to \in Disk(k) \cup {NoPath}
    PROVE  /\ Primary(s) \in Disk(k) \cup {NoPath}
           /\ Secondary(s) \in Disk(k) \cup {NoPath}
           /\ HasMain(s.to) => s.to \in Disk(k) /\ Main[s.to] \in Disk(k)
BY MainAssumption DEF Primary, Secondary, HasMain

LEMMA ReadStep == ReadInv /\ [BundleNext]_<<scanVars, awaitVars>> => ReadInv'
<1>. SUFFICES ASSUME ReadInv, [BundleNext]_<<scanVars, awaitVars>> PROVE ReadInv'
  OBVIOUS
<1>. USE DEF ReadInv
<1>1. ASSUME phase = "scan", cursor <= Len(pending), NEW c \in ContentsOf(corpus, pending[cursor]),
             ScanFile(c)
      PROVE  ReadInv'
  <2>. DEFINE p == pending[cursor]
              D == Disk(corpus)
  <2>1. p \in D /\ p \in Range(pending) /\ cursor \in 1..Len(pending)
    BY <1>1 DEF Range
  <2>2. IsParsed(c, D)
    BY <1>1, <2>1, CorporaAssumption
  <2>3. cursor' = cursor + 1 /\ UNCHANGED <<corpus, phase, visiting, reachable>>
    BY <1>1 DEF ScanFile
  <2>4. CASE c.loader = "broken"
    <3>1. UNCHANGED <<file, pending>> /\ errors' # {}
      BY <1>1, <2>4 DEF ScanFile
    <3>2. \A f \in Files : IsRead(f)' /\ \A i \in DOMAIN file[f].target : TargetOf(f, i)' = TargetOf(f, i)
      BY <1>1, <2>3, <3>1 DEF IsRead, TargetOf
    <3>3. Files' = Files /\ Range(pending)' = Range(pending)
      BY <3>1 DEF Files, Range
    <3>. HIDE DEF Files
    <3>. QED BY <1>1, <2>3, <3>1, <3>2, <3>3 DEF Phases
  <2>5. CASE c.loader # "broken"
    <3>1. /\ file' = [f \in Files \cup {p} |-> IF f = p THEN Parsed(c) ELSE file[f]]
          /\ pending' \in Appended(pending, Dependencies(c), NamedInOrder(c))
          /\ errors' = errors
      BY <1>1, <2>5 DEF ScanFile
    <3>2. Dependencies(c) \subseteq D
      BY <2>2, PathsOfStatements DEF Dependencies, IsParsed
    <3>3. /\ pending' \in Seq(D) /\ Len(pending') >= Len(pending)
          /\ \A n \in 1..Len(pending) : pending'[n] = pending[n]
          /\ Range(pending') = Range(pending) \cup Dependencies(c)
      <4>1. IsFiniteSet(Dependencies(c))
        BY <2>2, DependenciesFinite
      <4>2. Dependencies(c) \subseteq D /\ pending \in Seq(D)
        BY <3>2
      <4>3. pending' \in Appended(pending, Dependencies(c), NamedInOrder(c))
        BY <3>1
      <4>. HIDE DEF D, ReadInv
      <4>. QED BY ONLY <4>1, <4>2, <4>3, AppendedIs
    <3>4. Files' = Files \cup {p} /\ \A f \in Files' : file'[f] = IF f = p THEN Parsed(c) ELSE file[f]
      BY <3>1 DEF Files
    <3>5. ASSUME NEW f \in Files' PROVE IsRead(f)'
      BY <1>1, <2>1, <2>3, <2>5, <3>4, <3>5 DEF IsRead
    <3>6. ASSUME NEW f \in Files', NEW i \in DOMAIN file'[f].target
          PROVE  TargetOf(f, i)' \in Range(pending)' \cup {NoPath}
      <4>1. CASE f # p
        BY <1>1, <3>3, <3>4, <3>6, <4>1 DEF TargetOf
      <4>2. CASE f = p
        <5>1. Parsed(c).target = [j \in DOMAIN c.statements |-> Primary(c.statements[j])]
          BY DEF Parsed
        <5>2. file'[f] = Parsed(c)
          BY <3>4, <3>6, <4>2
        <5>3. i \in DOMAIN c.statements /\ TargetOf(f, i)' = Primary(c.statements[i])
          BY <3>6, <5>1, <5>2 DEF TargetOf
        <5>. QED BY <3>3, <5>3 DEF Dependencies
      <4>. QED BY <4>1, <4>2
    <3>7. ASSUME errors' = {}, NEW n \in 1..Len(pending'), n < cursor' PROVE pending'[n] \in Files'
      <4>1. n \in 1..Len(pending) /\ (n = cursor \/ n < cursor)
        BY <1>1, <2>3, <3>7
      <4>. QED BY <1>1, <3>1, <3>3, <3>4, <3>7, <4>1
    <3>8. pending' # <<>> /\ pending'[1] = pending[1]
      BY <3>3
    <3>. QED BY <1>1, <2>3, <3>3, <3>5, <3>6, <3>7, <3>8
  <2>. QED BY <2>4, <2>5
<1>2. CASE FinalizeImportRecords
  BY <1>2 DEF FinalizeImportRecords, Phases
<1>3. CASE StartLinking
  BY <1>3 DEF StartLinking, Phases
<1>4. CASE VisitFile
  BY <1>4 DEF VisitFile, Phases
<1>5. CASE LeaveFile
  BY <1>5 DEF LeaveFile, Phases
<1>6. CASE InlineLinkedAssets
  BY <1>6 DEF InlineLinkedAssets, Phases
<1>7. CASE ValidateTopLevelAwait
  <2>1. UNCHANGED <<corpus, pending, cursor, visiting, reachable>> /\ phase = "await" /\ phase' \in {"await", "reach"}
    BY <1>7 DEF ValidateTopLevelAwait, VisitFirst, VisitTarget, Visit, FollowImport, FindAwait, Return,
                MarkAsync, scanVars
  <2>. QED BY <2>1 DEF Phases
<1>8. CASE UNCHANGED <<scanVars, awaitVars>>
  BY <1>8 DEF scanVars, IsRead, TargetOf, Range, Phases, Files
<1>. QED BY <1>1, <1>2, <1>3, <1>4, <1>5, <1>6, <1>7, <1>8 DEF BundleNext, ScanNext

-----------------------------------------------------------------------------
(* The final targets                                                       *)

Shadowed == {p \in DOMAIN Main : Main[p] \in Files}
Linkable == (Files \cup {NoPath}) \ Shadowed

NamedBy(f, i) == NamedFile(file[f].statements[i])

IsFinal(f) ==
    LET r == file[f]
    IN  /\ {"repr", "loader", "css", "statements", "target", "copy"} \subseteq DOMAIN r
        /\ DOMAIN r.target = DOMAIN r.statements /\ DOMAIN r.copy = DOMAIN r.statements
        /\ 0 \notin DOMAIN r.statements
        /\ r.css \in Linkable
        /\ \A i \in DOMAIN r.statements :
              LET t == r.target[i]
                  to == NamedBy(f, i)
              IN  /\ t \in Linkable /\ r.copy[i] \in Linkable
                  /\ r.repr \in {"js", "css"}
                  /\ t = NoPath => to = NoPath \/ IsCopy(to)
                  /\ t # NoPath /\ r.repr = "js" => IsJs(t)
                  /\ t # NoPath /\ r.repr = "css" =>
                        \/ KindOf(f, i) = "at" /\ IsCss(t)
                        \/ t = to /\ IsJs(t) /\ file[t].loader = "empty"

FinalInv ==
    phase \in {"await", "reach", "link"} /\ errors = {} =>
        /\ NoPath \notin Files
        /\ EntryPoint \in Linkable
        /\ \A f \in Files : IsFinal(f)

LinkInv ==
    /\ phase = "link" =>
          /\ errors = {}
          /\ visiting \in Seq(Files \ Shadowed) /\ reachable \in Seq(Files \ Shadowed)
          /\ \A f \in Range(reachable) : \A i \in Visits(f) : VisitedBy(f, i) \in Visited \cup {NoPath}
    /\ LinkerInputIsSound /\ OneCopyOfAPackage

\* a file as it was read
LEMMA ReadFile ==
    ASSUME ReadInv, phase = "scan", NEW f \in Files
    PROVE  /\ f \in Disk(corpus) /\ f # NoPath
           /\ {"repr", "loader", "css", "statements", "target", "copy"} \subseteq DOMAIN file[f]
           /\ file[f].repr \in {"js", "css", "copy"}
           /\ file[f].css = NoPath
           /\ DOMAIN file[f].target = DOMAIN file[f].statements
           /\ 0 \notin DOMAIN file[f].statements
           /\ \A i \in DOMAIN file[f].statements :
                 /\ TargetOf(f, i) = Primary(file[f].statements[i])
                 /\ TargetOf(f, i) \in Range(pending) \cup {NoPath}
                 /\ file[f].statements[i].to \in Disk(corpus) \cup {NoPath}
                 /\ file[f].repr # "copy"
                 /\ file[f].repr = "css" => file[f].statements[i].form \in {"at", "url"}
<1>1. PICK c \in ContentsOf(corpus, f) : c.loader # "broken" /\ file[f] = Parsed(c)
  BY DEF ReadInv, IsRead
<1>2. f \in Disk(corpus) /\ IsParsed(c, Disk(corpus)) /\ f # NoPath
  BY <1>1, CorporaAssumption DEF ReadInv, IsRead
<1>3. /\ {"repr", "loader", "css", "statements", "target", "copy"} \subseteq DOMAIN Parsed(c)
      /\ Parsed(c).repr = Representation[c.loader] /\ Parsed(c).css = NoPath
      /\ Parsed(c).statements = c.statements
      /\ Parsed(c).target = [i \in DOMAIN c.statements |-> Primary(c.statements[i])]
  BY DEF Parsed
<1>4. c.loader \in {"js", "json", "empty", "css", "copy"}
  BY <1>1, <1>2 DEF IsParsed, Representation
<1>5. /\ Representation[c.loader] \in {"js", "css", "copy"}
      /\ Representation[c.loader] = "css" <=> c.loader = "css"
      /\ Representation[c.loader] = "copy" <=> c.loader = "copy"
  BY <1>4 DEF Representation
<1>6. ASSUME NEW i \in DOMAIN c.statements
      PROVE  /\ c.statements[i].to \in Disk(corpus) \cup {NoPath}
             /\ c.loader # "copy"
             /\ c.loader = "css" => c.statements[i].form \in {"at", "url"}
  BY <1>2, <1>6 DEF IsParsed
<1>7. \A i \in DOMAIN file[f].target : TargetOf(f, i) \in Range(pending) \cup {NoPath}
  BY DEF ReadInv
<1>8. \A i \in DOMAIN c.statements : TargetOf(f, i) = Primary(c.statements[i])
  BY <1>1, <1>3 DEF TargetOf
<1>9. 0 \notin DOMAIN c.statements
  BY <1>2 DEF IsParsed
<1>. QED BY <1>1, <1>2, <1>3, <1>5, <1>6, <1>7, <1>8, <1>9

LEMMA NamedFiles ==
    ASSUME ReadInv, phase = "scan", errors = {}, cursor > Len(pending),
           NEW f \in Files, NEW i \in DOMAIN file[f].statements
    PROVE  /\ Redirected(f, i) = NamedFile(file[f].statements[i])
           /\ NamedFile(file[f].statements[i]) \in Linkable
           /\ Secondary(file[f].statements[i]) \in Disk(corpus) \cup {NoPath}
<1>. DEFINE s == file[f].statements[i]
<1>1. /\ TargetOf(f, i) = Primary(s)
      /\ TargetOf(f, i) \in Range(pending) \cup {NoPath}
      /\ s.to \in Disk(corpus) \cup {NoPath}
  BY ReadFile
<1>2. Range(pending) \subseteq Files
  <2>1. \A n \in 1..Len(pending) : n < cursor /\ pending[n] \in Files
    BY DEF ReadInv
  <2>2. DOMAIN pending = 1..Len(pending)
    BY DEF ReadInv
  <2>. QED BY <2>1, <2>2 DEF Range
<1>3. Redirected(f, i) = NamedFile(s)
  BY <1>1 DEF Redirected, NamedFile
<1>4. Secondary(s) \in Disk(corpus) \cup {NoPath}
  BY <1>1, PathsOfStatements DEF ReadInv
<1>5. NamedFile(s) \in Files \cup {NoPath}
  BY <1>1, <1>2 DEF NamedFile
<1>6. NoPath \notin Files
  BY ReadFile
<1>7. NamedFile(s) \notin Shadowed
  <2>1. CASE Secondary(s) \in Files
    BY <1>6, <2>1, MainAssumption DEF NamedFile, Secondary, HasMain, Shadowed
  <2>2. CASE Secondary(s) \notin Files
    BY <1>6, <2>2, MainAssumption DEF NamedFile, Primary, Secondary, HasMain, Shadowed
  <2>. QED BY <2>1, <2>2
<1>. HIDE DEF s
<1>. QED BY <1>3, <1>4, <1>5, <1>7 DEF s, Linkable

LEMMA RetargetedFile ==
    ASSUME ReadInv, phase = "scan", errors = {}, cursor > Len(pending), NEW f \in Files
    PROVE  /\ {"repr", "loader", "css", "statements", "target", "copy"} \subseteq DOMAIN Retargeted(f)
           /\ Retargeted(f).repr = file[f].repr
           /\ Retargeted(f).loader = file[f].loader
           /\ Retargeted(f).css = file[f].css
           /\ Retargeted(f).statements = file[f].statements
           /\ DOMAIN Retargeted(f).target = DOMAIN file[f].statements
           /\ DOMAIN Retargeted(f).copy = DOMAIN file[f].statements
           /\ \A i \in DOMAIN file[f].statements :
                 LET to == NamedFile(file[f].statements[i])
                 IN  /\ Retargeted(f).target[i] = IF IsCopy(to) THEN NoPath ELSE to
                     /\ Retargeted(f).copy[i] = IF IsCopy(to) THEN to ELSE NoPath
<1>. DEFINE to == [i \in DOMAIN file[f].target |-> Redirected(f, i)]
            ts == [i \in DOMAIN to |-> IF IsCopy(to[i]) THEN NoPath ELSE to[i]]
            cs == [i \in DOMAIN to |-> IF IsCopy(to[i]) THEN to[i] ELSE NoPath]
<1>1. Retargeted(f) = [file[f] EXCEPT !.target = ts, !.copy = cs]
  BY DEF Retargeted
<1>2. /\ {"repr", "loader", "css", "statements", "target", "copy"} \subseteq DOMAIN file[f]
      /\ DOMAIN file[f].target = DOMAIN file[f].statements
  BY ReadFile
<1>3. /\ DOMAIN ts = DOMAIN file[f].statements /\ DOMAIN cs = DOMAIN file[f].statements
      /\ \A i \in DOMAIN file[f].statements :
            LET t == NamedFile(file[f].statements[i])
            IN  /\ ts[i] = IF IsCopy(t) THEN NoPath ELSE t
                /\ cs[i] = IF IsCopy(t) THEN t ELSE NoPath
  BY <1>2, NamedFiles
<1>. HIDE DEF ts, cs
<1>4. Retargeted(f).target = ts /\ Retargeted(f).copy = cs
  BY <1>1, <1>2
<1>5. /\ Retargeted(f).repr = file[f].repr
      /\ Retargeted(f).loader = file[f].loader
      /\ Retargeted(f).css = file[f].css
      /\ Retargeted(f).statements = file[f].statements
      /\ DOMAIN Retargeted(f) = DOMAIN file[f]
  BY <1>1, <1>2
<1>. QED BY <1>2, <1>3, <1>4, <1>5


RetargetedFiles == [f \in Files |-> Retargeted(f)]
Edges == CssEdges(RetargetedFiles)
StubOfEdge(e) == StubOf(RetargetedFiles[e[1]].target[e[2]])
Stubs == {StubOfEdge(e) : e \in Edges}
NewTarget(e) == IF options.stdout THEN NoPath ELSE StubOfEdge(e)
LinkedFiles ==
    [f \in Files |-> [RetargetedFiles[f] EXCEPT !.target =
                        [i \in DOMAIN @ |-> IF <<f, i>> \in Edges THEN NewTarget(<<f, i>>) ELSE @[i]]]]

LEMMA FinalizeEffect ==
    ASSUME ReadInv, FinalizeImportRecords, errors' = {}
    PROVE  /\ errors = {} /\ ImportErrors(RetargetedFiles) = {}
           /\ Files' = Files \cup Stubs
           /\ \A f \in Stubs : file'[f] = Stub(f[2])
           /\ \A f \in Files \ Stubs :
                 file'[f] = [RetargetedFiles[f] EXCEPT !.target =
                               [i \in DOMAIN RetargetedFiles[f].target |->
                                   IF <<f, i>> \in Edges THEN StubOfEdge(<<f, i>>)
                                   ELSE RetargetedFiles[f].target[i]]]
<1>1. CASE options.stdout
  <2>1. /\ errors' = errors \cup ImportErrors(RetargetedFiles) \cup
                                {[why |-> "stdout", file |-> e[1], at |-> e[2]] : e \in Edges}
        /\ file' = LinkedFiles
    BY <1>1 DEF FinalizeImportRecords, StubEdges, LinkedFiles, NewTarget, Edges, RetargetedFiles, StubOfEdge
  <2>2. Edges = {} /\ errors = {} /\ ImportErrors(RetargetedFiles) = {}
    BY <2>1
  <2>3. Stubs = {}
    BY <2>2 DEF Stubs
  <2>4. \A f \in Files : LinkedFiles[f] =
            [RetargetedFiles[f] EXCEPT !.target =
                               [i \in DOMAIN RetargetedFiles[f].target |->
                                   IF <<f, i>> \in Edges THEN StubOfEdge(<<f, i>>)
                                   ELSE RetargetedFiles[f].target[i]]]
    BY <2>2 DEF LinkedFiles
  <2>5. DOMAIN LinkedFiles = Files
    BY DEF LinkedFiles
  <2>. QED BY <2>1, <2>2, <2>3, <2>4, <2>5 DEF Files
<1>2. CASE ~options.stdout
  <2>1. /\ errors' = errors \cup ImportErrors(RetargetedFiles)
        /\ file' = [f \in Files \cup Stubs |-> IF f \in Stubs THEN Stub(f[2]) ELSE LinkedFiles[f]]
    BY <1>2 DEF FinalizeImportRecords, StubEdges, LinkedFiles, NewTarget, Edges, RetargetedFiles, StubOfEdge,
                Stubs
  <2>2. errors = {} /\ ImportErrors(RetargetedFiles) = {}
    BY <2>1
  <2>3. Files' = Files \cup Stubs
    BY <2>1 DEF Files
  <2>4. \A f \in Stubs : file'[f] = Stub(f[2])
    BY <2>1
  <2>5. \A f \in Files \ Stubs : file'[f] = LinkedFiles[f]
    BY <2>1
  <2>6. \A f \in Files : LinkedFiles[f] =
            [RetargetedFiles[f] EXCEPT !.target =
                               [i \in DOMAIN RetargetedFiles[f].target |->
                                   IF <<f, i>> \in Edges THEN StubOfEdge(<<f, i>>)
                                   ELSE RetargetedFiles[f].target[i]]]
    BY <1>2 DEF LinkedFiles, NewTarget
  <2>. QED BY <2>2, <2>3, <2>4, <2>5, <2>6
<1>. QED BY <1>1, <1>2

LEMMA EdgesAre ==
    ASSUME ReadInv, phase = "scan", errors = {}, cursor > Len(pending)
    PROVE  /\ \A f \in Files : \A i \in DOMAIN file[f].statements :
                 <<f, i>> \in Edges <=>
                    /\ file[f].repr = "js"
                    /\ RetargetedFiles[f].target[i] \in Files
                    /\ file[RetargetedFiles[f].target[i]].repr = "css"
           /\ \A g \in Stubs : \E css \in Files \cap Linkable :
                 g = StubOf(css) /\ g \notin Disk(corpus) \cup {NoPath} /\ g \notin DOMAIN Main
<1>1. \A f \in Files : RetargetedFiles[f] = Retargeted(f) /\ RetargetedFiles[f].repr = file[f].repr
  BY RetargetedFile DEF RetargetedFiles
<1>2. \A f \in Files : DOMAIN RetargetedFiles[f].target = DOMAIN file[f].statements
  BY <1>1, RetargetedFile
<1>3. DOMAIN RetargetedFiles = Files
  BY DEF RetargetedFiles
<1>4. ASSUME NEW f \in Files, NEW i \in DOMAIN file[f].statements
      PROVE  <<f, i>> \in Edges <=>
                    /\ file[f].repr = "js"
                    /\ RetargetedFiles[f].target[i] \in Files
                    /\ file[RetargetedFiles[f].target[i]].repr = "css"
  BY <1>1, <1>2, <1>3, <1>4 DEF Edges, CssEdges
<1>5. ASSUME NEW g \in Stubs
      PROVE  \E css \in Files \cap Linkable :
                 g = StubOf(css) /\ g \notin Disk(corpus) \cup {NoPath} /\ g \notin DOMAIN Main
  <2>1. PICK e \in Edges : g = StubOfEdge(e)
    BY DEF Stubs
  <2>2. PICK f \in Files : \E i \in DOMAIN RetargetedFiles[f].target :
           e = <<f, i>> /\ RetargetedFiles[f].target[i] \in Files
    BY <1>3, <2>1 DEF Edges, CssEdges
  <2>0. PICK i \in DOMAIN RetargetedFiles[f].target : e = <<f, i>> /\ RetargetedFiles[f].target[i] \in Files
    BY <2>2
  <2>. DEFINE css == RetargetedFiles[f].target[i]
              to == NamedFile(file[f].statements[i])
  <2>3. g = StubOf(css)
    BY <2>1, <2>0 DEF StubOfEdge
  <2>4. i \in DOMAIN file[f].statements
    BY <1>2, <2>0
  <2>5. css = IF IsCopy(to) THEN NoPath ELSE to
    BY <1>1, <2>4, RetargetedFile
  <2>6. to \in Linkable
    BY <2>4, NamedFiles
  <2>7. css # NoPath /\ css \in Disk(corpus)
    BY <2>0, ReadFile
  <2>8. css \in Files \cap Linkable
    BY <2>0, <2>5, <2>6, <2>7
  <2>9. StubOf(css) \notin Disk(corpus) \cup {NoPath} /\ StubOf(css) \notin DOMAIN Main
    BY <2>7, CorporaAssumption, MainAssumption DEF ReadInv
  <2>. HIDE DEF css
  <2>. QED BY <2>3, <2>8, <2>9
<1>. QED BY <1>4, <1>5

LEMMA FinalizeStep ==
    ASSUME ReadInv, FinalizeImportRecords
    PROVE  FinalInv'
<1>. SUFFICES ASSUME errors' = {}
              PROVE  /\ NoPath \notin Files'
                     /\ EntryPoint' \in Linkable'
                     /\ \A f \in Files' : IsFinal(f)'
  BY DEF FinalInv
<1>1. phase = "scan" /\ cursor > Len(pending) /\ errors = {} /\ UNCHANGED <<pending, corpus>>
  BY FinalizeEffect DEF FinalizeImportRecords
<1>2. /\ ImportErrors(RetargetedFiles) = {}
      /\ Files' = Files \cup Stubs
      /\ \A f \in Stubs : file'[f] = Stub(f[2])
  BY FinalizeEffect
<1>3. /\ Files \subseteq Disk(corpus) /\ NoPath \notin Files
      /\ \A g \in Stubs : g \notin Disk(corpus) \cup {NoPath} /\ g \notin DOMAIN Main
  BY <1>1, EdgesAre, ReadFile
<1>4. Linkable \subseteq Linkable' /\ Stubs \subseteq Linkable'
  <2>1. ASSUME NEW p \in Shadowed', p \in Files PROVE p \in Shadowed
    BY <1>2, <1>3, <2>1, MainAssumption DEF Shadowed, ReadInv
  <2>2. NoPath \notin Shadowed'
    BY MainAssumption DEF Shadowed
  <2>3. \A g \in Stubs : g \notin Shadowed'
    BY <1>3 DEF Shadowed
  <2>. QED BY <1>2, <1>3, <2>1, <2>2, <2>3 DEF Linkable
<1>5. ASSUME NEW f \in Files
      PROVE  /\ {"repr", "loader", "css", "statements", "target", "copy"} \subseteq DOMAIN file'[f]
             /\ file'[f].repr = file[f].repr /\ file'[f].loader = file[f].loader
             /\ file'[f].css = NoPath /\ file'[f].statements = file[f].statements
             /\ DOMAIN file'[f].target = DOMAIN file[f].statements
             /\ DOMAIN file'[f].copy = DOMAIN file[f].statements
             /\ \A i \in DOMAIN file[f].statements :
                   LET to == NamedBy(f, i)
                       t == IF IsCopy(to) THEN NoPath ELSE to
                   IN  /\ RetargetedFiles[f].target[i] = t
                       /\ file'[f].copy[i] = IF IsCopy(to) THEN to ELSE NoPath
                       /\ file'[f].target[i] = IF <<f, i>> \in Edges THEN StubOf(t) ELSE t
  <2>. DEFINE target == [i \in DOMAIN RetargetedFiles[f].target |->
                                   IF <<f, i>> \in Edges THEN StubOfEdge(<<f, i>>)
                                   ELSE RetargetedFiles[f].target[i]]
  <2>1. RetargetedFiles[f] = Retargeted(f) /\ f \notin Stubs
    BY <1>3 DEF RetargetedFiles
  <2>2. file'[f] = [Retargeted(f) EXCEPT !.target = target]
    BY <2>1, FinalizeEffect
  <2>3. /\ {"repr", "loader", "css", "statements", "target", "copy"} \subseteq DOMAIN Retargeted(f)
        /\ DOMAIN Retargeted(f).target = DOMAIN file[f].statements
        /\ DOMAIN Retargeted(f).copy = DOMAIN file[f].statements
        /\ Retargeted(f).repr = file[f].repr /\ Retargeted(f).loader = file[f].loader
        /\ Retargeted(f).css = file[f].css /\ Retargeted(f).statements = file[f].statements
        /\ file[f].css = NoPath
    BY <1>1, RetargetedFile, ReadFile
  <2>4. DOMAIN target = DOMAIN file[f].statements
    BY <2>1, <2>3
  <2>5. \A i \in DOMAIN file[f].statements :
          target[i] = IF <<f, i>> \in Edges THEN StubOf(Retargeted(f).target[i]) ELSE Retargeted(f).target[i]
    BY <2>1, <2>3 DEF StubOfEdge
  <2>. HIDE DEF target
  <2>6. /\ file'[f].target = target /\ DOMAIN file'[f] = DOMAIN Retargeted(f)
        /\ file'[f].copy = Retargeted(f).copy
        /\ file'[f].repr = Retargeted(f).repr /\ file'[f].loader = Retargeted(f).loader
        /\ file'[f].css = Retargeted(f).css /\ file'[f].statements = Retargeted(f).statements
    BY <2>2, <2>3
  <2>7. \A i \in DOMAIN file[f].statements :
                 LET to == NamedBy(f, i)
                 IN  /\ Retargeted(f).target[i] = IF IsCopy(to) THEN NoPath ELSE to
                     /\ Retargeted(f).copy[i] = IF IsCopy(to) THEN to ELSE NoPath
    BY <1>1, RetargetedFile DEF NamedBy
  <2>. QED BY <2>1, <2>3, <2>4, <2>5, <2>6, <2>7
<1>6. ASSUME NEW f \in Files, NEW i \in DOMAIN file[f].statements
      PROVE  NamedBy(f, i)' = NamedBy(f, i)
  <2>1. Secondary(file[f].statements[i]) \in Disk(corpus) \cup {NoPath}
    BY <1>1, NamedFiles DEF NamedBy
  <2>2. file'[f].statements = file[f].statements
    BY <1>5
  <2>. QED BY <1>2, <1>3, <2>1, <2>2 DEF NamedFile, NamedBy
<1>7. ASSUME NEW f \in Stubs
      PROVE  IsFinal(f)' /\ f \in Files' /\ file'[f].repr = "js"
  <2>1. PICK css \in Files \cap Linkable : f = StubOf(css)
    BY <1>1, EdgesAre
  <2>2. file'[f] = Stub(css) /\ css \in Linkable'
    BY <1>2, <1>4, <2>1 DEF StubOf
  <2>3. f \in Files'
    BY <1>2
  <2>. QED BY <2>2, <2>3 DEF IsFinal, Stub
<1>8. ASSUME NEW f \in Files
      PROVE  IsFinal(f)'
  <2>1. ASSUME NEW i \in DOMAIN file[f].statements,
               NEW t, t = file'[f].target[i],
               NEW to, to = NamedBy(f, i)
        PROVE  /\ t \in Linkable' /\ file'[f].copy[i] \in Linkable'
               /\ file[f].repr \in {"js", "css"}
               /\ t = NoPath => to = NoPath \/ (to \in Files' /\ file'[to].repr = "copy")
               /\ t # NoPath /\ file[f].repr = "js" => t \in Files' /\ file'[t].repr = "js"
               /\ t # NoPath /\ file[f].repr = "css" =>
                     \/ KindOf(f, i) = "at" /\ t \in Files' /\ file'[t].repr = "css"
                     \/ t = to /\ t \in Files' /\ file'[t].repr = "js" /\ file'[t].loader = "empty"
    <3>. DEFINE was == IF IsCopy(to) THEN NoPath ELSE to
                form == file[f].statements[i].form
    <3>1. to \in Linkable /\ NoPath \in Linkable /\ to \in Files \cup {NoPath}
      BY <1>1, <2>1, NamedFiles, MainAssumption DEF NamedBy, Linkable, Shadowed
    <3>2. /\ RetargetedFiles[f].target[i] = was
          /\ file'[f].copy[i] = IF IsCopy(to) THEN to ELSE NoPath
          /\ t = IF <<f, i>> \in Edges THEN StubOf(was) ELSE was
      BY <1>5, <2>1
    <3>3. file[f].repr \in {"js", "css"} /\ (file[f].repr = "css" => form \in {"at", "url"})
      BY <1>1, ReadFile
    <3>4. <<f, i>> \in Edges <=> file[f].repr = "js" /\ was \in Files /\ file[was].repr = "css"
      BY <1>1, <3>2, EdgesAre
    <3>5. <<f, i>> \in Edges => StubOf(was) \in Stubs
      BY <3>2 DEF Stubs, StubOfEdge
    <3>6. to \in Files =>
             /\ to \in Files' /\ file'[to].repr = file[to].repr /\ file'[to].loader = file[to].loader
             /\ file[to].repr \in {"js", "css", "copy"}
      BY <1>1, <1>2, <1>5, ReadFile
    <3>7. file[f].repr = "css" /\ was \in Files =>
             IF file[was].repr = "js" THEN file[was].loader = "empty" ELSE form = "at"
      <4>1. ~IsRejected(RetargetedFiles, f, i)
        <5>1. i \in DOMAIN RetargetedFiles[f].statements /\ f \in DOMAIN RetargetedFiles
          BY <1>1, RetargetedFile DEF RetargetedFiles
        <5>2. ASSUME IsRejected(RetargetedFiles, f, i)
              PROVE  [why |-> "import", file |-> f, at |-> i] \in ImportErrors(RetargetedFiles)
          <6>1. [why |-> "import", file |-> f, at |-> i] \in
                   {[why |-> "import", file |-> f, at |-> n] :
                       n \in {j \in DOMAIN RetargetedFiles[f].statements : IsRejected(RetargetedFiles, f, j)}}
            BY <5>1, <5>2
          <6>. QED BY <5>1, <6>1 DEF ImportErrors
        <5>. QED BY <1>2, <5>2
      <4>2. /\ RetargetedFiles[f].statements[i].form = form
            /\ DOMAIN RetargetedFiles = Files
            /\ \A g \in Files : RetargetedFiles[g].repr = file[g].repr /\ RetargetedFiles[g].loader = file[g].loader
        BY <1>1, RetargetedFile DEF RetargetedFiles
      <4>3. was \in Files => file[was].repr \in {"js", "css"}
        BY <1>3, <3>6 DEF IsCopy
      <4>. QED BY <3>2, <3>3, <4>1, <4>2, <4>3 DEF IsRejected
    <3>8. KindOf(f, i) = RecordKind[form]
      BY DEF KindOf
    <3>9. RecordKind["at"] = "at"
      BY DEF RecordKind, ImportStatements
    <3>10. \A g \in Stubs : g # NoPath /\ g \in Files' /\ file'[g].repr = "js" /\ g \in Linkable'
      BY <1>3, <1>4, <1>7
    <3>. HIDE DEF form
    <3>11. CASE IsCopy(to)
      <4>1. was = NoPath /\ NoPath \notin Files /\ to \in Files
        BY <1>3, <3>11 DEF IsCopy
      <4>2. t = NoPath /\ file'[f].copy[i] = to
        BY <3>2, <3>4, <3>11, <4>1
      <4>. QED BY <1>4, <3>1, <3>3, <3>6, <3>11, <4>2 DEF IsCopy
    <3>12. CASE ~IsCopy(to)
      <4>1. was = to /\ file'[f].copy[i] = NoPath
        BY <3>2, <3>12
      <4>2. CASE <<f, i>> \in Edges
        <5>1. t = StubOf(to) /\ file[f].repr = "js" /\ t \in Stubs
          BY <3>2, <3>4, <3>5, <4>1, <4>2
        <5>. QED BY <1>4, <3>1, <3>10, <4>1, <5>1
      <4>3. CASE <<f, i>> \notin Edges
        <5>1. t = to
          BY <3>2, <4>1, <4>3
        <5>. HIDE DEF was
        <5>2. t \in Linkable' /\ NoPath \in Linkable'
          BY <1>4, <3>1, <5>1
        <5>3. t # NoPath => t \in Files /\ file[t].repr \in {"js", "css"}
          BY <3>1, <3>6, <3>12, <5>1 DEF IsCopy
        <5>. QED BY <3>3, <3>4, <3>6, <3>7, <3>8, <3>9, <4>1, <4>3, <5>1, <5>2, <5>3
      <4>. QED BY <4>2, <4>3
    <3>. QED BY <3>11, <3>12
  <2>2. \A i \in DOMAIN file[f].statements : KindOf(f, i)' = KindOf(f, i) /\ NamedBy(f, i)' = NamedBy(f, i)
    BY <1>5, <1>6 DEF KindOf
  <2>3. NoPath \in Linkable'
    BY <1>4, MainAssumption DEF Linkable, Shadowed
  <2>4. /\ {"repr", "loader", "css", "statements", "target", "copy"} \subseteq DOMAIN file'[f]
        /\ file'[f].repr = file[f].repr /\ file'[f].statements = file[f].statements
        /\ file'[f].css = NoPath
        /\ DOMAIN file'[f].target = DOMAIN file[f].statements
        /\ DOMAIN file'[f].copy = DOMAIN file[f].statements
    BY <1>5
  <2>5. 0 \notin DOMAIN file[f].statements
    BY <1>1, ReadFile
  <2>. QED BY <2>1, <2>2, <2>3, <2>4, <2>5 DEF IsFinal, IsJs, IsCss, IsCopy
<1>9. EntryPoint' \in Linkable'
  <2>1. pending[1] \in Files
    BY <1>1 DEF ReadInv
  <2>2. pending[1] \in Linkable
    BY <2>1, MainAssumption DEF Linkable, Shadowed, ReadInv
  <2>. QED BY <1>1, <1>4, <2>2 DEF EntryPoint
<1>. QED BY <1>2, <1>3, <1>7, <1>8, <1>9

-----------------------------------------------------------------------------
(* What the linker gets                                                    *)

LEMMA FinalStep ==
    ASSUME ReadInv, FinalInv, [BundleNext]_<<scanVars, awaitVars>>
    PROVE  FinalInv'
<1>1. ASSUME UNCHANGED <<corpus, pending, file>>,
             phase' \in {"await", "reach", "link"} => phase \in {"await", "reach", "link"},
             errors' = {} => errors = {}
      PROVE  FinalInv'
  <2>1. ASSUME NEW f PROVE IsFinal(f)' = IsFinal(f)
    BY <1>1 DEF IsFinal, Linkable, Shadowed, Files, NamedBy, NamedFile, IsCopy, IsJs, IsCss, KindOf
  <2>. QED BY <1>1, <2>1 DEF FinalInv, Files, EntryPoint, Linkable, Shadowed
<1>2. ASSUME phase = "scan", cursor <= Len(pending), NEW c \in ContentsOf(corpus, pending[cursor]), ScanFile(c)
      PROVE  FinalInv'
  BY <1>2 DEF ScanFile, FinalInv
<1>3. CASE FinalizeImportRecords
  BY <1>3, FinalizeStep
<1>4. CASE StartLinking
  BY <1>1, <1>4 DEF StartLinking
<1>5. CASE VisitFile
  BY <1>1, <1>5 DEF VisitFile
<1>6. CASE LeaveFile
  BY <1>1, <1>6 DEF LeaveFile
<1>7. CASE InlineLinkedAssets
  BY <1>7 DEF InlineLinkedAssets, FinalInv
<1>8. CASE ValidateTopLevelAwait
  <2>1. UNCHANGED <<corpus, pending, file>> /\ phase = "await" /\ errors \subseteq errors'
    BY <1>8 DEF ValidateTopLevelAwait, VisitFirst, VisitTarget, Visit, FollowImport, FindAwait, Return,
                MarkAsync, scanVars
  <2>. QED BY <1>1, <2>1
<1>9. CASE UNCHANGED <<scanVars, awaitVars>>
  BY <1>1, <1>9 DEF scanVars
<1>. QED BY <1>2, <1>3, <1>4, <1>5, <1>6, <1>7, <1>8, <1>9 DEF BundleNext, ScanNext

LEMMA VisitedIsLinkable ==
    ASSUME FinalInv, phase = "link", errors = {}, NEW f \in Files, NEW i \in Visits(f)
    PROVE  VisitedBy(f, i) \in Linkable
<1>1. IsFinal(f)
  BY DEF FinalInv
<1>2. i = 0 \/ i \in DOMAIN file[f].statements
  BY <1>1 DEF Visits, IsFinal
<1>. QED BY <1>1, <1>2 DEF IsFinal, VisitedBy, TargetOf

IsSoundRecord(f, i) ==
    IF TargetOf(f, i) # NoPath
    THEN /\ TargetOf(f, i) \in Range(reachable)
         /\ IsJs(f) => IsJs(TargetOf(f, i))
         /\ IsCss(f) => KindOf(f, i) = "at" /\ IsCss(TargetOf(f, i))
    ELSE NamedBy(f, i) = NoPath \/ IsCopy(NamedBy(f, i)) \/ (IsCss(f) /\ file[NamedBy(f, i)].loader = "empty")

LEMMA LinkStep ==
    ASSUME ReadInv, FinalInv, LinkInv, [BundleNext]_<<scanVars, awaitVars>>
    PROVE  LinkInv'
<1>1. CASE phase' # "link" /\ phase' # "wrap"
  BY <1>1 DEF LinkInv, LinkerInputIsSound, OneCopyOfAPackage
<1>2. CASE StartLinking
  <2>1. CASE errors = {}
    <3>1. /\ phase = "reach" /\ phase' = "link" /\ visiting' = <<EntryPoint>>
          /\ UNCHANGED <<corpus, file, errors, reachable>>
      BY <1>2, <2>1 DEF StartLinking
    <3>2. EntryPoint \in Files \ Shadowed
      BY <2>1, <3>1, CorporaAssumption DEF ReadInv, FinalInv, Linkable, EntryPoint
    <3>3. visiting' \in Seq(Files \ Shadowed) /\ reachable' = <<>>
      BY <3>1, <3>2 DEF ReadInv
    <3>4. Files' = Files /\ Shadowed' = Shadowed /\ Range(reachable)' = {}
      BY <3>1, <3>3 DEF Files, Shadowed, Range
    <3>. QED BY <2>1, <3>1, <3>3, <3>4 DEF LinkInv, LinkerInputIsSound, OneCopyOfAPackage
  <2>2. CASE errors # {}
    BY <1>1, <1>2, <2>2 DEF StartLinking
  <2>. QED BY <2>1, <2>2
<1>3. CASE VisitFile
  <2>1. PICK i \in Unvisited(Last(visiting)) : visiting' = Append(visiting, VisitedBy(Last(visiting), i))
    BY <1>3 DEF VisitFile
  <2>2. /\ phase = "link" /\ phase' = "link" /\ errors = {} /\ UNCHANGED <<file, errors, reachable>>
        /\ visiting # <<>> /\ visiting \in Seq(Files \ Shadowed) /\ reachable \in Seq(Files \ Shadowed)
    BY <1>3 DEF VisitFile, LinkInv
  <2>. DEFINE v == VisitedBy(Last(visiting), i)
  <2>3. Last(visiting) \in Files
    BY <2>2 DEF Last
  <2>4. v \in Files \ Shadowed
    BY <2>1, <2>2, <2>3, VisitedIsLinkable DEF Unvisited, Linkable
  <2>. HIDE DEF v
  <2>5. visiting' \in Seq(Files \ Shadowed) /\ Range(visiting) \subseteq Range(visiting')
    <3>1. /\ visiting' \in Seq(Files \ Shadowed) /\ Len(visiting') = Len(visiting) + 1
          /\ \A n \in 1..Len(visiting) : visiting'[n] = visiting[n]
      BY <2>1, <2>2, <2>4 DEF v
    <3>2. DOMAIN visiting = 1..Len(visiting) /\ DOMAIN visiting' = 1..Len(visiting')
      BY <2>2, <3>1
    <3>3. Len(visiting) \in Nat
      BY <2>2
    <3>. QED BY <3>1, <3>2, <3>3 DEF Range
  <2>6. /\ \A f : Visits(f)' = Visits(f) /\ \A n : VisitedBy(f, n)' = VisitedBy(f, n)
        /\ Files' = Files /\ Shadowed' = Shadowed /\ Range(reachable)' = Range(reachable)
        /\ Visited \subseteq Visited'
    BY <2>2, <2>5 DEF Visits, VisitedBy, TargetOf, Files, Shadowed, Visited, Range
  <2>. QED BY <2>2, <2>5, <2>6 DEF LinkInv, LinkerInputIsSound, OneCopyOfAPackage
<1>4. CASE LeaveFile
  <2>1. /\ phase = "link" /\ phase' = "link" /\ errors = {} /\ UNCHANGED <<file, errors>>
        /\ visiting # <<>> /\ visiting \in Seq(Files \ Shadowed) /\ reachable \in Seq(Files \ Shadowed)
        /\ Unvisited(Last(visiting)) = {}
        /\ reachable' = Append(reachable, Last(visiting)) /\ visiting' = Front(visiting)
    BY <1>4 DEF LeaveFile, LinkInv
  <2>2. Last(visiting) \in Files \ Shadowed
    BY <2>1 DEF Last
  <2>3. reachable' \in Seq(Files \ Shadowed) /\ Range(reachable') = Range(reachable) \cup {Last(visiting)}
    <3>1. /\ reachable' \in Seq(Files \ Shadowed) /\ Len(reachable') = Len(reachable) + 1
          /\ reachable'[Len(reachable) + 1] = Last(visiting)
          /\ \A n \in 1..Len(reachable) : reachable'[n] = reachable[n]
      BY <2>1, <2>2
    <3>2. DOMAIN reachable = 1..Len(reachable) /\ DOMAIN reachable' = 1..Len(reachable') /\ Len(reachable) \in Nat
      BY <2>1, <3>1
    <3>. QED BY <3>1, <3>2 DEF Range
  <2>4. visiting' \in Seq(Files \ Shadowed) /\ Range(visiting) = Range(visiting') \cup {Last(visiting)}
    <3>1. /\ visiting' \in Seq(Files \ Shadowed) /\ Len(visiting') = Len(visiting) - 1
          /\ \A n \in 1..(Len(visiting) - 1) : visiting'[n] = visiting[n]
          /\ Last(visiting) = visiting[Len(visiting)]
      <4>1. Len(visiting) \in Nat \ {0}
        BY <2>1
      <4>2. visiting' = SubSeq(visiting, 1, Len(visiting) - 1)
        BY <2>1 DEF Front
      <4>3. 1 \in Int /\ Len(visiting) - 1 \in Int /\ visiting \in Seq(Files \ Shadowed)
        BY <2>1, <4>1
      <4>4. \A n \in 1..(Len(visiting) - 1) : visiting[n] \in Files \ Shadowed
        BY <2>1, <4>1
      <4>5. /\ visiting' = [n \in 1..(Len(visiting) - 1) |-> visiting[n]]
        BY <2>1, <4>1, <4>2
      <4>. QED BY <4>1, <4>4, <4>5 DEF Last
    <3>2. DOMAIN visiting = 1..Len(visiting) /\ DOMAIN visiting' = 1..Len(visiting') /\ Len(visiting) \in Nat \ {0}
      BY <2>1, <3>1
    <3>. QED BY <3>1, <3>2 DEF Range
  <2>5. /\ \A f : Visits(f)' = Visits(f) /\ \A n : VisitedBy(f, n)' = VisitedBy(f, n)
        /\ Files' = Files /\ Shadowed' = Shadowed
        /\ Visited' = Visited
    BY <2>1, <2>3, <2>4 DEF Visits, VisitedBy, TargetOf, Files, Shadowed, Visited
  <2>6. \A i \in Visits(Last(visiting)) : VisitedBy(Last(visiting), i) \in Visited \cup {NoPath}
    BY <2>1 DEF Unvisited
  <2>. QED BY <2>1, <2>3, <2>4, <2>5, <2>6 DEF LinkInv, LinkerInputIsSound, OneCopyOfAPackage
<1>5. CASE InlineLinkedAssets
  <2>1. /\ phase = "link" /\ phase' = "wrap" /\ visiting = <<>> /\ errors = {}
        /\ file' = [f \in Files |-> Inlined(f)] /\ UNCHANGED reachable
    BY <1>5 DEF InlineLinkedAssets, LinkInv
  <2>2. /\ reachable \in Seq(Files \ Shadowed) /\ Range(reachable) \subseteq Files \ Shadowed
        /\ Files' = Files /\ Range(reachable)' = Range(reachable)
    BY <2>1 DEF LinkInv, Range, Files
  <2>3. Visited = Range(reachable)
    BY <2>1 DEF Visited, Range
  <2>4. OneCopyOfAPackage'
    BY <2>2 DEF OneCopyOfAPackage, Shadowed
  <2>5. ASSUME NEW f \in Files
        PROVE  /\ file'[f].repr = file[f].repr /\ file'[f].loader = file[f].loader
               /\ file'[f].statements = file[f].statements
               /\ DOMAIN file'[f].target = DOMAIN file[f].statements
               /\ \A i \in DOMAIN file[f].statements :
                     file'[f].target[i] = IF IsCss(f) /\ IsJs(TargetOf(f, i)) THEN NoPath ELSE TargetOf(f, i)
    <3>. DEFINE ts == [i \in DOMAIN file[f].target |->
                          IF IsCss(f) /\ IsJs(file[f].target[i]) THEN NoPath ELSE file[f].target[i]]
                cs == [i \in DOMAIN file[f].copy |-> NoPath]
    <3>1. file'[f] = [file[f] EXCEPT !.target = ts, !.copy = cs]
      <4>1. file'[f] = Inlined(f)
        BY <2>1
      <4>. QED BY <4>1 DEF Inlined
    <3>2. IsFinal(f)
      BY <2>1 DEF FinalInv
    <3>3. /\ {"repr", "loader", "css", "statements", "target", "copy"} \subseteq DOMAIN file[f]
          /\ DOMAIN file[f].target = DOMAIN file[f].statements
      BY <3>2 DEF IsFinal
    <3>4. /\ DOMAIN ts = DOMAIN file[f].statements
          /\ \A i \in DOMAIN file[f].statements :
                ts[i] = IF IsCss(f) /\ IsJs(TargetOf(f, i)) THEN NoPath ELSE TargetOf(f, i)
      BY <3>3 DEF TargetOf
    <3>. HIDE DEF ts, cs
    <3>5. /\ file'[f].target = ts /\ file'[f].repr = file[f].repr /\ file'[f].loader = file[f].loader
          /\ file'[f].statements = file[f].statements
      BY <3>1, <3>3
    <3>. QED BY <3>4, <3>5
  <2>6. ASSUME NEW f \in Range(reachable), NEW i \in DOMAIN file[f].statements, RecordsOf(f)' = RecordsOf(f)
        PROVE  IsSoundRecord(f, i)'
    <3>1. f \in Files /\ IsFinal(f)
      BY <2>1, <2>2 DEF FinalInv
    <3>2. PICK t : t = TargetOf(f, i)
      OBVIOUS
    <3>3. PICK to : to = NamedBy(f, i)
      OBVIOUS
    <3>4. /\ t \in Linkable
          /\ file[f].repr \in {"js", "css"}
          /\ t = NoPath => to = NoPath \/ (to \in Files /\ file[to].repr = "copy")
          /\ t # NoPath /\ file[f].repr = "js" => t \in Files /\ file[t].repr = "js"
          /\ t # NoPath /\ file[f].repr = "css" =>
                \/ KindOf(f, i) = "at" /\ t \in Files /\ file[t].repr = "css"
                \/ t = to /\ t \in Files /\ file[t].repr = "js" /\ file[t].loader = "empty"
      BY <3>1, <3>2, <3>3 DEF IsFinal, IsJs, IsCss, IsCopy, TargetOf
    <3>5. /\ \A g \in Files : file'[g].repr = file[g].repr /\ file'[g].loader = file[g].loader
          /\ KindOf(f, i)' = KindOf(f, i) /\ NamedBy(f, i)' = to
          /\ TargetOf(f, i)' = IF file[f].repr = "css" /\ t \in Files /\ file[t].repr = "js" THEN NoPath ELSE t
      BY <2>2, <2>5, <3>1, <3>2, <3>3 DEF KindOf, NamedBy, NamedFile, TargetOf, IsCss, IsJs
    <3>6. t # NoPath => t \in Range(reachable)
      <4>1. i \in Visits(f) /\ i # 0
        BY <3>1 DEF Visits, IsFinal
      <4>. QED BY <2>1, <2>3, <3>2, <4>1 DEF LinkInv, VisitedBy
    <3>. QED BY <2>2, <3>1, <3>4, <3>5, <3>6 DEF IsSoundRecord, IsJs, IsCss, IsCopy
  <2>7. \A f \in Range(reachable) : RecordsOf(f)' = RecordsOf(f)
    BY <2>2, <2>5 DEF RecordsOf
  <2>8. \A f \in Range(reachable)' : f \in Files' /\ \A i \in RecordsOf(f)' : IsSoundRecord(f, i)'
    BY <2>2, <2>6, <2>7 DEF RecordsOf
  <2>9. LinkerInputIsSound'
    BY <2>8 DEF IsSoundRecord, LinkerInputIsSound, LinkedRecords, NamedBy
  <2>. QED BY <2>1, <2>4, <2>9 DEF LinkInv
<1>6. CASE UNCHANGED <<scanVars, awaitVars>>
  <2>1. UNCHANGED <<corpus, phase, file, errors, visiting, reachable>>
    BY <1>6 DEF scanVars
  <2>2. LinkerInputIsSound' /\ OneCopyOfAPackage'
    BY <2>1 DEF LinkInv, LinkerInputIsSound, OneCopyOfAPackage, RecordsOf, LinkedRecords, TargetOf, KindOf,
                IsJs, IsCss, IsCopy, NamedFile, Files, Range
  <2>3. /\ \A f : Visits(f)' = Visits(f) /\ \A n : VisitedBy(f, n)' = VisitedBy(f, n)
        /\ Files' = Files /\ Shadowed' = Shadowed /\ Visited' = Visited /\ Range(reachable)' = Range(reachable)
    BY <2>1 DEF Visits, VisitedBy, TargetOf, Files, Shadowed, Visited, Range
  <2>. QED BY <2>1, <2>2, <2>3 DEF LinkInv
<1>7. CASE FinalizeImportRecords
  BY <1>1, <1>7 DEF FinalizeImportRecords
<1>8. CASE ValidateTopLevelAwait
  <2>1. phase' \in {"await", "reach"}
    BY <1>8 DEF ValidateTopLevelAwait, VisitFirst, VisitTarget, Visit, FollowImport, FindAwait, Return,
                MarkAsync, scanVars
  <2>. QED BY <1>1, <2>1
<1>9. ASSUME phase = "scan", cursor <= Len(pending), NEW c \in ContentsOf(corpus, pending[cursor]), ScanFile(c)
      PROVE  LinkInv'
  BY <1>1, <1>9 DEF ScanFile
<1>. QED BY <1>2, <1>3, <1>4, <1>5, <1>6, <1>7, <1>8, <1>9 DEF BundleNext, ScanNext

-----------------------------------------------------------------------------
(* What files lead to                                                      *)

Evaluated == {"stmt", "require"}

(* What evaluating the file can evaluate after it. *)
Below(f) == Closure(LedTo(f, Evaluated), Evaluated)

LEMMA ClosureIs ==
    ASSUME NEW found, NEW kinds
    PROVE  /\ found \cap Files \subseteq Closure(found, kinds)
           /\ Closure(found, kinds) \subseteq Files
           /\ \A f \in Closure(found, kinds) : LedTo(f, kinds) \subseteq Closure(found, kinds)
           /\ \A S \in SUBSET Files : (\A f \in S : LedTo(f, kinds) \subseteq S) /\ found \cap Files \subseteq S
                 => Closure(found, kinds) \subseteq S
<1>1. \A f : LedTo(f, kinds) \subseteq Files
  BY DEF LedTo
<1>2. ASSUME NEW f \in Closure(found, kinds), NEW g \in LedTo(f, kinds)
      PROVE  g \in Closure(found, kinds)
  <2>1. g \in Files /\ f \in Files
    BY <1>1, <1>2 DEF Closure
  <2>2. ASSUME NEW S \in SUBSET Files, \A h \in S : LedTo(h, kinds) \subseteq S, found \cap Files \subseteq S
        PROVE  g \in S
    BY <1>2, <2>2 DEF Closure
  <2>. QED BY <2>1, <2>2 DEF Closure
<1>. QED BY <1>2 DEF Closure

LEMMA ClosureLeast ==
    ASSUME NEW found, NEW kinds, NEW S, S \subseteq Files,
           \A f \in S : LedTo(f, kinds) \subseteq S,
           found \cap Files \subseteq S
    PROVE  Closure(found, kinds) \subseteq S
BY ClosureIs

LEMMA LedToFiles == ASSUME NEW f, NEW kinds PROVE LedTo(f, kinds) \subseteq Files
BY DEF LedTo

LEMMA ClosureOfLed ==
    ASSUME NEW f, NEW kinds, NEW g \in LedTo(f, kinds)
    PROVE  Closure({g}, kinds) \subseteq Closure(LedTo(f, kinds), kinds)
BY ClosureIs, ClosureLeast, LedToFiles

LEMMA ClosureTransitive ==
    ASSUME NEW found, NEW kinds, NEW g \in Closure(found, kinds)
    PROVE  Closure({g}, kinds) \subseteq Closure(found, kinds)
BY ClosureIs, ClosureLeast

LEMMA WaitsForLed ==
    ASSUME NEW f \in Files, NEW g \in LedTo(f, {"stmt"})
    PROVE  WaitsFor(g) \subseteq WaitsFor(f)
<1>1. g \in Closure({f}, {"stmt"})
  BY ClosureIs
<1>2. Closure({g}, {"stmt"}) \subseteq Closure({f}, {"stmt"})
  BY <1>1, ClosureTransitive
<1>. QED BY <1>2 DEF WaitsFor

LEMMA WaitsForSelf ==
    ASSUME NEW f \in Files, IsJs(f), file[f].awaits
    PROVE  f \in WaitsFor(f)
<1>1. f \in Closure({f}, {"stmt"})
  BY ClosureIs
<1>. QED BY <1>1 DEF WaitsFor

LEMMA NoCircle ==
    ASSUME NEW f
    PROVE  BelowNoCircle(f) <=> \A g \in Closure({f}, Evaluated) : g \notin Below(g)
BY DEF BelowNoCircle, Below, Evaluated

LEMMA NoCircleLed ==
    ASSUME NEW f \in Files, BelowNoCircle(f), NEW g \in Closure({f}, Evaluated)
    PROVE  BelowNoCircle(g)
BY NoCircle, ClosureTransitive

LEMMA BelowLed ==
    ASSUME NEW f \in Files, NEW t \in LedTo(f, Evaluated)
    PROVE  t \in Below(f) /\ t \in Closure({f}, Evaluated)
BY ClosureIs, LedToFiles DEF Below

LEMMA BelowTransitive ==
    ASSUME NEW f \in Files, NEW g \in Below(f), NEW t \in LedTo(g, Evaluated)
    PROVE  t \in Below(f)
BY ClosureIs DEF Below

LEMMA FollowedIsLed ==
    ASSUME NEW f, IsJs(f), NEW i \in DOMAIN file[f].statements, IsFollowed(f, i)
    PROVE  /\ TargetOf(f, i) \in LedTo(f, Evaluated)
           /\ KindOf(f, i) = "stmt" => TargetOf(f, i) \in LedTo(f, {"stmt"})
           /\ KindOf(f, i) \in {"stmt", "require"} /\ TargetOf(f, i) \in Files
BY DEF IsFollowed, LedTo, Evaluated

(* While the files stay, so does what is said of them. *)
LEMMA FilesStay ==
    ASSUME UNCHANGED file
    PROVE  /\ Files' = Files
           /\ \A f, i : TargetOf(f, i)' = TargetOf(f, i) /\ KindOf(f, i)' = KindOf(f, i)
           /\ \A f : /\ (IsJs(f)' <=> IsJs(f))
                     /\ LinkedRecords(f)' = LinkedRecords(f)
                     /\ WaitsFor(f)' = WaitsFor(f)
                     /\ Below(f)' = Below(f)
                     /\ (BelowNoCircle(f)' <=> BelowNoCircle(f))
                     /\ \A i : IsFollowed(f, i)' <=> IsFollowed(f, i)
           /\ \A f, kinds : LedTo(f, kinds)' = LedTo(f, kinds)
           /\ \A found, kinds : Closure(found, kinds)' = Closure(found, kinds)
<1>1. /\ Files' = Files
      /\ \A f, i : TargetOf(f, i)' = TargetOf(f, i) /\ KindOf(f, i)' = KindOf(f, i)
      /\ \A f : (IsJs(f)' <=> IsJs(f)) /\ RecordsOf(f)' = RecordsOf(f)
  BY DEF Files, TargetOf, KindOf, IsJs, RecordsOf
<1>2. \A f : LinkedRecords(f)' = LinkedRecords(f)
  BY <1>1 DEF LinkedRecords
<1>3. \A f, i : IsFollowed(f, i)' <=> IsFollowed(f, i)
  BY <1>1, <1>2 DEF IsFollowed
<1>4. ASSUME NEW f, NEW kinds PROVE LedTo(f, kinds)' = LedTo(f, kinds)
  BY <1>1, <1>2 DEF LedTo
<1>5. ASSUME NEW found, NEW kinds PROVE Closure(found, kinds)' = Closure(found, kinds)
  BY <1>1, <1>4 DEF Closure
<1>6. ASSUME NEW f PROVE WaitsFor(f)' = WaitsFor(f)
  BY <1>1, <1>5 DEF WaitsFor
<1>7. ASSUME NEW f PROVE Below(f)' = Below(f)
  BY <1>1, <1>4 DEF Below, Closure
<1>8. ASSUME NEW f PROVE BelowNoCircle(f)' <=> BelowNoCircle(f)
  BY <1>1, <1>4 DEF BelowNoCircle, Closure
<1>. QED BY <1>1, <1>2, <1>3, <1>4, <1>5, <1>6, <1>7, <1>8

-----------------------------------------------------------------------------
(* The numbers of the files                                                *)

(* Every file that was read, or made for one, has a number. *)
NumbersInv ==
    /\ known \in Seq(Range(known))
    /\ phase = "scan" =>
          /\ checks = <<>> /\ calls = <<>> /\ culprit = NoPath
          /\ Files \subseteq Range(pending) /\ Range(pending) \subseteq Range(known)
          /\ \A e \in errors : e.why # "await"
    /\ phase = "await" =>
          /\ Files \subseteq Range(known)
          /\ IsFiniteSet(Files) /\ NoPath \notin Files
          /\ \A f \in Files : DOMAIN file[f].statements = 1..Len(file[f].statements)
                               /\ Len(file[f].statements) \in Nat

LEMMA AppendedKeeps ==
    ASSUME NEW s, s \in Seq(Range(s)), NEW new, IsFiniteSet(new), NEW order,
           NEW t \in Appended(s, new, order)
    PROVE  t \in Seq(Range(t)) /\ Range(t) = Range(s) \cup new
<1>. DEFINE S == Range(s) \cup new
<1>1. s \in Seq(S) /\ new \subseteq S
  <2>1. \A n \in 1..Len(s) : s[n] \in S
    BY DEF Range
  <2>. QED BY <2>1
<1>. HIDE DEF S
<1>2. /\ t \in Seq(S)
      /\ Range(t) = Range(s) \cup new
  BY <1>1, AppendedIs
<1>. QED BY <1>2 DEF S

LEMMA ReadFilesFinite ==
    ASSUME ReadInv
    PROVE  IsFiniteSet(Range(pending))
<1>1. pending \in Seq(Disk(corpus)) /\ Len(pending) \in Nat /\ DOMAIN pending = 1..Len(pending)
  BY DEF ReadInv
<1>2. pending \in Surjection(1..Len(pending), Range(pending))
  BY <1>1 DEF Surjection, Range
<1>. QED BY <1>1, <1>2, FS_Interval, FS_Surjection

LEMMA RetargetedShape ==
    ASSUME ReadInv, phase = "scan", NEW f \in Files
    PROVE  /\ Retargeted(f).statements = file[f].statements
           /\ {"repr", "loader", "css", "statements", "target", "copy"} \subseteq DOMAIN Retargeted(f)
           /\ DOMAIN file[f].statements = 1..Len(file[f].statements) /\ Len(file[f].statements) \in Nat
<1>1. {"repr", "loader", "css", "statements", "target", "copy"} \subseteq DOMAIN file[f]
  BY ReadFile
<1>2. /\ Retargeted(f).statements = file[f].statements
      /\ DOMAIN Retargeted(f) = DOMAIN file[f]
  BY <1>1 DEF Retargeted
<1>3. PICK c \in ContentsOf(corpus, f) : c.loader # "broken" /\ file[f] = Parsed(c)
  BY DEF ReadInv, IsRead
<1>4. f \in Disk(corpus) /\ IsParsed(c, Disk(corpus))
  BY <1>3, CorporaAssumption DEF ReadInv, IsRead
<1>5. file[f].statements = c.statements
  BY <1>3 DEF Parsed
<1>. QED BY <1>1, <1>2, <1>4, <1>5 DEF IsParsed

LEMMA StubsAreNew ==
    ASSUME ReadInv, phase = "scan", NEW g \in Stubs
    PROVE  g \in {StubOf(p) : p \in Files} /\ g \notin Files /\ g # NoPath
<1>1. PICK e \in Edges : g = StubOfEdge(e)
  BY DEF Stubs
<1>2. DOMAIN RetargetedFiles = Files
  BY DEF RetargetedFiles
<1>3. PICK f \in Files : \E i \in DOMAIN RetargetedFiles[f].target :
          e = <<f, i>> /\ RetargetedFiles[f].target[i] \in Files
  BY <1>1, <1>2 DEF Edges, CssEdges
<1>4. PICK i \in DOMAIN RetargetedFiles[f].target : e = <<f, i>> /\ RetargetedFiles[f].target[i] \in Files
  BY <1>3
<1>. DEFINE css == RetargetedFiles[f].target[i]
<1>5. g = StubOf(css) /\ css \in Files
  BY <1>1, <1>4 DEF StubOfEdge
<1>6. css \in Disk(corpus) /\ Files \subseteq Disk(corpus) /\ corpus \in DOMAIN Corpora
  BY <1>5, ReadFile DEF ReadInv
<1>. HIDE DEF css
<1>. QED BY <1>5, <1>6, CorporaAssumption

LEMMA FinalizeFiles ==
    ASSUME ReadInv, FinalizeImportRecords
    PROVE  \/ /\ UNCHANGED known
              /\ file' = LinkedFiles
           \/ /\ known' \in Appended(known, Stubs,
                    {e \in Stubs \X Stubs :
                        \E b \in Edges : /\ StubOfEdge(b) = e[1]
                                         /\ \A c \in Edges : StubOfEdge(c) = e[2] => EdgeBefore(b, c)})
              /\ file' = [f \in Files \cup Stubs |-> IF f \in Stubs THEN Stub(f[2]) ELSE LinkedFiles[f]]
<1>1. CASE options.stdout
  BY <1>1 DEF FinalizeImportRecords, StubEdges, LinkedFiles, NewTarget, Edges, RetargetedFiles, StubOfEdge
<1>2. CASE ~options.stdout
  BY <1>2 DEF FinalizeImportRecords, StubEdges, LinkedFiles, NewTarget, Edges, RetargetedFiles, StubOfEdge,
              Stubs
<1>. QED BY <1>1, <1>2

LEMMA NumbersStep ==
    ASSUME ReadInv, NumbersInv, [BundleNext]_<<scanVars, awaitVars>>
    PROVE  NumbersInv'
<1>1. ASSUME phase = "scan", cursor <= Len(pending), NEW c \in ContentsOf(corpus, pending[cursor]),
             ScanFile(c), UNCHANGED awaitVars
      PROVE  NumbersInv'
  <2>1. UNCHANGED <<phase, checks, calls, culprit>>
    BY <1>1 DEF ScanFile, awaitVars
  <2>2. pending[cursor] \in Range(pending) /\ pending[cursor] \in Disk(corpus)
    BY <1>1 DEF ReadInv, Range
  <2>3. CASE c.loader = "broken"
    <3>1. UNCHANGED <<file, known, pending>> /\ \A e \in errors' : e.why # "await"
      BY <1>1, <2>3 DEF ScanFile, NumbersInv
    <3>. QED BY <1>1, <2>1, <3>1 DEF NumbersInv, Files, Range
  <2>4. CASE c.loader # "broken"
    <3>1. /\ Files' = Files \cup {pending[cursor]}
          /\ known' \in Appended(known, Dependencies(c), NamedInOrder(c))
          /\ pending' \in Appended(pending, Dependencies(c), NamedInOrder(c))
          /\ UNCHANGED errors
      BY <1>1, <2>4 DEF ScanFile, Files
    <3>2. IsFiniteSet(Dependencies(c))
      BY <2>2, CorporaAssumption, DependenciesFinite DEF ReadInv
    <3>3. pending \in Seq(Range(pending))
      <4>1. \A n \in 1..Len(pending) : pending[n] \in Range(pending)
        BY DEF ReadInv, Range
      <4>. QED BY <4>1 DEF ReadInv
    <3>4. known' \in Seq(Range(known')) /\ Range(known') = Range(known) \cup Dependencies(c)
      BY <3>1, <3>2, AppendedKeeps DEF NumbersInv
    <3>5. Range(pending') = Range(pending) \cup Dependencies(c)
      BY <3>1, <3>2, <3>3, AppendedKeeps
    <3>. QED BY <1>1, <2>1, <2>2, <3>1, <3>4, <3>5 DEF NumbersInv
  <2>. QED BY <2>3, <2>4
<1>2. CASE FinalizeImportRecords
  <2>1. phase = "scan" /\ phase' = "await"
    BY <1>2 DEF FinalizeImportRecords
  <2>2. IsFiniteSet(Files) /\ NoPath \notin Files
    BY <2>1, ReadFilesFinite, ReadFile, FS_Subset DEF NumbersInv
  <2>3. /\ DOMAIN LinkedFiles = Files
        /\ \A f \in Files : LinkedFiles[f].statements = file[f].statements
    <3>1. ASSUME NEW f \in Files PROVE LinkedFiles[f].statements = file[f].statements
      <4>. DEFINE ts == [i \in DOMAIN RetargetedFiles[f].target |->
                           IF <<f, i>> \in Edges THEN NewTarget(<<f, i>>) ELSE RetargetedFiles[f].target[i]]
      <4>1. LinkedFiles[f] = [RetargetedFiles[f] EXCEPT !.target = ts]
        BY DEF LinkedFiles
      <4>. HIDE DEF ts
      <4>. QED BY <2>1, <4>1, RetargetedShape DEF RetargetedFiles
    <3>. QED BY <3>1 DEF LinkedFiles
  <2>4. \A f \in Files : DOMAIN file[f].statements = 1..Len(file[f].statements) /\ Len(file[f].statements) \in Nat
    BY <2>1, RetargetedShape
  <2>5. CASE UNCHANGED known /\ file' = LinkedFiles
    <3>1. Files' = Files /\ \A f \in Files : file'[f].statements = file[f].statements
      BY <2>3, <2>5 DEF Files
    <3>. QED BY <2>1, <2>2, <2>4, <2>5, <3>1 DEF NumbersInv, Range
  <2>6. ASSUME NEW order, known' \in Appended(known, Stubs, order),
               file' = [f \in Files \cup Stubs |-> IF f \in Stubs THEN Stub(f[2]) ELSE LinkedFiles[f]]
        PROVE  NumbersInv'
    <3>1. /\ \A g \in Stubs : g # NoPath
          /\ IsFiniteSet(Stubs)
      <4>1. IsFiniteSet({StubOf(p) : p \in Files})
        <5>. DEFINE stub == [p \in Files |-> StubOf(p)]
        <5>1. stub \in Surjection(Files, {StubOf(p) : p \in Files})
          BY DEF Surjection
        <5>. QED BY <2>2, <5>1, FS_Surjection
      <4>. QED BY <2>1, <4>1, StubsAreNew, FS_Subset
    <3>2. Files' = Files \cup Stubs /\ \A f \in Stubs : file'[f].statements = <<>>
      BY <2>6 DEF Files, Stub
    <3>3. \A f \in Files \ Stubs : file'[f].statements = file[f].statements
      BY <2>3, <2>6
    <3>4. known' \in Seq(Range(known')) /\ Range(known') = Range(known) \cup Stubs
      BY <2>6, <3>1, AppendedKeeps DEF NumbersInv
    <3>5. IsFiniteSet(Files \cup Stubs)
      BY <2>2, <3>1, FS_Union
    <3>6. Files \subseteq Range(known)
      BY <2>1 DEF NumbersInv
    <3>. QED BY <2>1, <2>2, <2>4, <3>1, <3>2, <3>3, <3>4, <3>5, <3>6 DEF NumbersInv
  <2>. QED BY <1>2, <2>5, <2>6, FinalizeFiles
<1>3. CASE StartLinking \/ VisitFile \/ LeaveFile \/ InlineLinkedAssets
  BY <1>3 DEF StartLinking, VisitFile, LeaveFile, InlineLinkedAssets, NumbersInv, Range
<1>4. CASE ValidateTopLevelAwait
  <2>1. UNCHANGED <<file, known>> /\ phase = "await" /\ phase' \in {"await", "reach"}
    BY <1>4 DEF ValidateTopLevelAwait, VisitFirst, VisitTarget, Visit, FollowImport, FindAwait, Return,
                MarkAsync, scanVars
  <2>. QED BY <2>1 DEF NumbersInv, Files, Range
<1>5. CASE UNCHANGED <<scanVars, awaitVars>>
  BY <1>5 DEF scanVars, awaitVars, NumbersInv, Files, Range
<1>. QED BY <1>1, <1>2, <1>3, <1>4, <1>5 DEF BundleNext, ScanNext

-----------------------------------------------------------------------------
(* The check of top-level awaits                                           *)

OnStack(f) == \E k \in DOMAIN calls : calls[k].file = f

(* A file further up the stack was met below every file under it. *)
CallsInv ==
    /\ calls \in Seq([file : Files, at : Nat \ {0}])
    /\ \A k \in DOMAIN calls : calls[k].file \in DOMAIN checks /\ IsJs(calls[k].file)
    /\ \A k, n \in DOMAIN calls :
          k < n => calls[n].file \in Below(calls[k].file) /\ calls[n].file # calls[k].file

IsCheckSound(f) ==
    /\ checks[f].parent # NoPath =>
          /\ IsJs(f) /\ WaitsFor(f) # {}
          /\ \/ file[f].awaits
             \/ /\ checks[f].parent \in LedTo(f, {"stmt"})
                /\ checks[f].parent \in DOMAIN checks
                /\ checks[checks[f].parent].parent # NoPath
    /\ IsJs(f) /\ file[f].awaits => checks[f].parent # NoPath

ChecksInv ==
    /\ DOMAIN checks \subseteq Files
    /\ \A f \in DOMAIN checks : IsCheckSound(f)

CulpritInv ==
    culprit # NoPath =>
        /\ calls # <<>> /\ RecordAt \in DOMAIN file[Caller].statements
        /\ IsFollowed(Caller, RecordAt) /\ KindOf(Caller, RecordAt) = "require"
        /\ TargetOf(Caller, RecordAt) \in DOMAIN checks
        /\ culprit \in Closure({TargetOf(Caller, RecordAt)}, {"stmt"})
        /\ culprit \in DOMAIN checks /\ checks[culprit].parent # NoPath

ErrorsInv ==
    \A e \in errors : e.why = "await" => e.culprit \in WaitsFor(TargetOf(e.file, e.at))

IsReported(f, i) == \E e \in errors : e.why = "await" /\ e.file = f /\ e.at = i

(* The loop has left the record behind. *)
IsPast(f, i) ==
    /\ i \in DOMAIN file[f].statements
    /\ \A k \in DOMAIN calls : calls[k].file = f => i < calls[k].at

IsSettled(f, i) ==
    /\ TargetOf(f, i) \in DOMAIN checks /\ ~OnStack(TargetOf(f, i))
    /\ checks[TargetOf(f, i)].parent # NoPath =>
         IF KindOf(f, i) = "stmt" THEN checks[f].parent # NoPath ELSE IsReported(f, i)

SettledInv ==
    \A f \in DOMAIN checks : IsJs(f) /\ BelowNoCircle(f) =>
        \A i : IsPast(f, i) /\ IsFollowed(f, i) => IsSettled(f, i)

AwaitInv ==
    /\ phase = "await" => CallsInv /\ ChecksInv /\ CulpritInv /\ ErrorsInv /\ SettledInv
    /\ AwaitsAreFound

LEMMA VisitStep ==
    ASSUME NumbersInv, AwaitInv, phase = "await", UNCHANGED scanVars, NEW t \in Unchecked, Visit(t),
           culprit = NoPath,
           calls # <<>> => t \in LedTo(Caller, Evaluated)
    PROVE  AwaitInv'
<1>1. /\ UNCHANGED <<file, phase, errors, culprit>> /\ phase = "await"
      /\ t \in Files /\ t \notin DOMAIN checks /\ t # NoPath
      /\ CallsInv /\ ChecksInv /\ CulpritInv /\ ErrorsInv /\ SettledInv
  BY DEF scanVars, Visit, Unchecked, NumbersInv, AwaitInv
<1>. DEFINE p == IF IsJs(t) /\ file[t].awaits THEN t ELSE NoPath
<1>2. /\ DOMAIN checks' = DOMAIN checks \cup {t}
      /\ \A f \in DOMAIN checks : checks'[f] = checks[f]
      /\ checks'[t].parent = p
  BY <1>1 DEF Visit
<1>3. ChecksInv'
  <2>1. IsCheckSound(t)'
    BY <1>1, <1>2, FilesStay, WaitsForSelf DEF IsCheckSound
  <2>2. ASSUME NEW f \in DOMAIN checks PROVE IsCheckSound(f)'
    <3>1. IsCheckSound(f)
      BY <1>1 DEF ChecksInv
    <3>. QED BY <1>1, <1>2, <3>1, FilesStay DEF IsCheckSound
  <2>. QED BY <1>1, <1>2, <2>1, <2>2, FilesStay DEF ChecksInv
<1>. HIDE DEF p
<1>4. \/ ~IsJs(t) /\ calls' = calls
      \/ IsJs(t) /\ calls' = Append(calls, [file |-> t, at |-> 1])
  BY DEF Visit
<1>5. CASE ~IsJs(t) /\ calls' = calls
  <2>1. CallsInv'
    BY <1>1, <1>2, <1>5, FilesStay DEF CallsInv
  <2>2. SettledInv'
    <3>1. ASSUME NEW f \in DOMAIN checks', IsJs(f)', BelowNoCircle(f)', NEW i, IsPast(f, i)', IsFollowed(f, i)'
          PROVE  IsSettled(f, i)'
      <4>1. f \in DOMAIN checks /\ IsJs(f) /\ BelowNoCircle(f) /\ IsPast(f, i) /\ IsFollowed(f, i)
        BY <1>1, <1>2, <1>5, <3>1, FilesStay DEF IsPast
      <4>2. IsSettled(f, i)
        BY <1>1, <4>1 DEF SettledInv
      <4>. QED BY <1>1, <1>2, <1>5, <4>1, <4>2, FilesStay DEF IsSettled, OnStack, IsReported
    <3>. QED BY <3>1 DEF SettledInv
  <2>. QED BY <1>1, <1>3, <2>1, <2>2, FilesStay DEF AwaitInv, CulpritInv, ErrorsInv, AwaitsAreFound
<1>6. CASE IsJs(t) /\ calls' = Append(calls, [file |-> t, at |-> 1])
  <2>. DEFINE n == Len(calls)
  <2>1. calls \in Seq([file : Files, at : Nat \ {0}]) /\ n \in Nat /\ DOMAIN calls = 1..n
    BY <1>1 DEF CallsInv
  <2>2. [file |-> t, at |-> 1] \in [file : Files, at : Nat \ {0}]
    BY <1>1
  <2>3. /\ calls' \in Seq([file : Files, at : Nat \ {0}]) /\ DOMAIN calls' = 1..(n + 1)
        /\ \A k \in 1..n : calls'[k] = calls[k]
        /\ calls'[n + 1].file = t /\ calls'[n + 1].at = 1
    BY <1>6, <2>1, <2>2
  <2>. HIDE DEF n
  <2>4. ASSUME NEW k \in 1..n PROVE t \in Below(calls[k].file) /\ t # calls[k].file
    <3>1. n # 0 /\ calls # <<>> /\ Last(calls) = calls[n] /\ n \in DOMAIN calls
      BY <2>1, <2>4 DEF n, Last
    <3>2. t \in LedTo(calls[n].file, Evaluated)
      BY <3>1 DEF Caller
    <3>3. calls[k].file \in DOMAIN checks /\ calls[n].file \in Files /\ calls[k].file \in Files
      BY <1>1, <2>1, <3>1 DEF CallsInv, ChecksInv
    <3>4. k = n \/ (k < n /\ calls[n].file \in Below(calls[k].file))
      BY <1>1, <2>1, <3>1 DEF CallsInv
    <3>. QED BY <1>1, <3>2, <3>3, <3>4, BelowLed, BelowTransitive
  <2>5. CallsInv'
    <3>1. \A k \in 1..(n + 1) : calls'[k].file \in DOMAIN checks' /\ IsJs(calls'[k].file)
      BY <1>1, <1>2, <1>6, <2>1, <2>3 DEF CallsInv
    <3>2. \A k, m \in 1..(n + 1) :
             k < m => calls'[m].file \in Below(calls'[k].file) /\ calls'[m].file # calls'[k].file
      <4>1. ASSUME NEW k \in 1..(n + 1), NEW m \in 1..(n + 1), k < m
            PROVE  calls'[m].file \in Below(calls'[k].file) /\ calls'[m].file # calls'[k].file
        <5>1. k \in 1..n
          BY <2>1, <4>1
        <5>2. CASE m = n + 1
          BY <2>3, <2>4, <5>1, <5>2
        <5>3. CASE m # n + 1
          <6>1. m \in 1..n
            BY <2>1, <5>3
          <6>2. calls[m].file \in Below(calls[k].file) /\ calls[m].file # calls[k].file
            BY <1>1, <2>1, <4>1, <5>1, <6>1 DEF CallsInv
          <6>. QED BY <2>3, <5>1, <6>1, <6>2
        <5>. QED BY <5>2, <5>3
      <4>. QED BY <4>1
    <3>3. \A f : Below(f)' = Below(f) /\ (IsJs(f)' <=> IsJs(f))
      BY <1>1, FilesStay
    <3>. QED BY <1>1, <2>3, <3>1, <3>2, <3>3, FilesStay DEF CallsInv
  <2>6. SettledInv'
    <3>1. ASSUME NEW f \in DOMAIN checks', IsJs(f)', BelowNoCircle(f)', NEW i, IsPast(f, i)', IsFollowed(f, i)'
          PROVE  IsSettled(f, i)'
      <4>1. i \in DOMAIN file[f].statements /\ \A k \in 1..(n + 1) : calls'[k].file = f => i < calls'[k].at
        BY <1>1, <2>3, <3>1 DEF IsPast
      <4>2. f # t
        <5>1. i >= 1
          BY <1>1, <1>2, <3>1, <4>1 DEF NumbersInv, ChecksInv
        <5>2. n + 1 \in 1..(n + 1) /\ i \in Int
          BY <1>1, <1>2, <2>1, <3>1, <4>1 DEF NumbersInv, ChecksInv
        <5>. QED BY <2>3, <4>1, <5>1, <5>2
      <4>3. f \in DOMAIN checks /\ IsJs(f) /\ BelowNoCircle(f) /\ IsFollowed(f, i)
        BY <1>1, <1>2, <3>1, <4>2, FilesStay
      <4>4. IsPast(f, i)
        BY <2>1, <2>3, <4>1 DEF IsPast
      <4>5. IsSettled(f, i)
        BY <1>1, <4>3, <4>4 DEF SettledInv
      <4>6. ASSUME NEW k \in 1..(n + 1)
            PROVE  calls'[k].file = t \/ (k \in 1..n /\ calls'[k].file = calls[k].file)
        <5>1. k = n + 1 \/ k \in 1..n
          BY <2>1
        <5>. QED BY <2>3, <5>1
      <4>7. TargetOf(f, i) # t
        BY <1>1, <4>5 DEF IsSettled
      <4>8. ~OnStack(TargetOf(f, i))'
        BY <1>1, <2>1, <2>3, <4>5, <4>6, <4>7, FilesStay DEF IsSettled, OnStack
      <4>. QED BY <1>1, <1>2, <4>3, <4>5, <4>8, FilesStay DEF IsSettled, IsReported
    <3>. QED BY <3>1 DEF SettledInv
  <2>. QED BY <1>1, <1>3, <2>5, <2>6, FilesStay DEF AwaitInv, CulpritInv, ErrorsInv, AwaitsAreFound
<1>. QED BY <1>4, <1>5, <1>6

(* What the file at the end of the stack imports is not on the stack,      *)
(* unless they are on a circle.                                            *)
LEMMA TargetIsOffStack ==
    ASSUME CallsInv, ChecksInv, calls # <<>>, BelowNoCircle(Caller),
           RecordAt \in DOMAIN file[Caller].statements, IsFollowed(Caller, RecordAt)
    PROVE  ~OnStack(TargetOf(Caller, RecordAt))
<1>. DEFINE n == Len(calls)
            t == TargetOf(Caller, RecordAt)
<1>1. calls \in Seq([file : Files, at : Nat \ {0}]) /\ n \in Nat \ {0} /\ DOMAIN calls = 1..n
  BY DEF CallsInv
<1>2. Caller = calls[n].file /\ n \in DOMAIN calls
  BY <1>1 DEF Caller, Last
<1>3. IsJs(Caller) /\ Caller \in Files
  BY <1>2 DEF CallsInv, ChecksInv
<1>4. t \in LedTo(Caller, Evaluated)
  BY <1>3, FollowedIsLed
<1>. HIDE DEF t, n
<1>5. \A g \in Closure({Caller}, Evaluated) : g \notin Below(g)
  BY NoCircle
<1>6. Caller \in Closure({Caller}, Evaluated) /\ t \in Closure({Caller}, Evaluated) /\ t \in Below(Caller)
  BY <1>3, <1>4, BelowLed, ClosureIs
<1>7. ASSUME NEW k \in DOMAIN calls, calls[k].file = t PROVE FALSE
  <2>1. CASE k = n
    BY <1>2, <1>5, <1>6, <1>7, <2>1
  <2>2. CASE k # n
    <3>1. k < n
      BY <1>1, <2>2
    <3>2. Caller \in Below(t) /\ t \in Files
      BY <1>2, <1>6, <1>7, <3>1, ClosureIs DEF CallsInv
    <3>3. t \in Below(t)
      BY <1>4, <3>2, BelowTransitive
    <3>. QED BY <1>5, <1>6, <3>3
  <2>. QED BY <2>1, <2>2
<1>. QED BY <1>7 DEF OnStack, t

(* The loop goes on to the next record.                                    *)
LEMMA AdvanceStep ==
    ASSUME NumbersInv, AwaitInv, phase = "await", UNCHANGED file, calls # <<>>, calls' = AdvancedCalls,
           RecordAt \in DOMAIN file[Caller].statements,
           DOMAIN checks' = DOMAIN checks,
           \A g \in DOMAIN checks : g # Caller => checks'[g] = checks[g],
           checks[Caller].parent # NoPath => checks'[Caller].parent # NoPath,
           errors \subseteq errors',
           NEW c, c = Caller, NEW r, r = RecordAt,
           BelowNoCircle(c) /\ IsFollowed(c, r) =>
               /\ TargetOf(c, r) \in DOMAIN checks
               /\ checks[TargetOf(c, r)].parent # NoPath =>
                    IF KindOf(c, r) = "stmt" THEN checks'[c].parent # NoPath ELSE IsReported(c, r)'
    PROVE  CallsInv' /\ SettledInv'
<1>. DEFINE n == Len(calls)
<1>1. CallsInv /\ ChecksInv /\ SettledInv
  BY DEF AwaitInv
<1>2. calls \in Seq([file : Files, at : Nat \ {0}]) /\ n \in Nat \ {0} /\ DOMAIN calls = 1..n
  BY <1>1 DEF CallsInv
<1>3. Caller = calls[n].file /\ n \in 1..n /\ RecordAt = calls[n].at
  BY <1>2 DEF Caller, RecordAt, Last
<1>. HIDE DEF n
<1>4. /\ calls' \in Seq([file : Files, at : Nat \ {0}]) /\ DOMAIN calls' = 1..n
      /\ \A k \in 1..n : calls'[k].file = calls[k].file /\ calls'[k].at = IF k = n THEN RecordAt + 1 ELSE calls[k].at
  <2>. DEFINE Frames == [file : Files, at : Nat \ {0}]
  <2>0. calls \in Seq(Frames)
    BY <1>2
  <2>1. calls' = [k \in 1..n |-> IF k = n THEN [calls[n] EXCEPT !.at = @ + 1] ELSE calls[k]]
    BY <1>2 DEF AdvancedCalls, n
  <2>2. \A k \in 1..n : calls[k] \in Frames
    <3>. HIDE DEF Frames
    <3>. QED BY <1>2, <2>0
  <2>3. [calls[n] EXCEPT !.at = @ + 1] = [file |-> Caller, at |-> RecordAt + 1]
    BY <1>3, <2>2
  <2>4. [file |-> Caller, at |-> RecordAt + 1] \in Frames
    BY <1>3, <2>2
  <2>5. \A k \in 1..n : calls'[k] = IF k = n THEN [file |-> Caller, at |-> RecordAt + 1] ELSE calls[k]
    BY <2>1, <2>3
  <2>6. DOMAIN calls' = 1..n /\ calls' \in Seq(Frames)
    <3>. HIDE DEF Frames
    <3>1. \A k \in 1..n : calls'[k] \in Frames
      BY <2>2, <2>4, <2>5
    <3>2. calls' = [k \in 1..n |-> calls'[k]]
      BY <2>1
    <3>. QED BY <1>2, <3>1, <3>2
  <2>. QED BY <1>3, <2>5, <2>6
<1>5. /\ Files' = Files
      /\ \A f, i : TargetOf(f, i)' = TargetOf(f, i) /\ KindOf(f, i)' = KindOf(f, i)
      /\ \A f : /\ (IsJs(f)' <=> IsJs(f)) /\ Below(f)' = Below(f)
                /\ (BelowNoCircle(f)' <=> BelowNoCircle(f))
                /\ \A i : IsFollowed(f, i)' <=> IsFollowed(f, i)
  BY FilesStay
<1>6. CallsInv'
  <2>1. \A k \in 1..n : calls'[k].file \in DOMAIN checks' /\ IsJs(calls'[k].file)
    BY <1>1, <1>2, <1>4 DEF CallsInv
  <2>2. ASSUME NEW k \in 1..n, NEW m \in 1..n, k < m
        PROVE  calls'[m].file \in Below(calls'[k].file) /\ calls'[m].file # calls'[k].file
    <3>1. calls[m].file \in Below(calls[k].file) /\ calls[m].file # calls[k].file
      BY <1>1, <1>2, <2>2 DEF CallsInv
    <3>. QED BY <1>4, <3>1
  <2>. QED BY <1>4, <1>5, <2>1, <2>2 DEF CallsInv
<1>7. \A f : OnStack(f)' <=> OnStack(f)
  BY <1>2, <1>4 DEF OnStack
<1>8. OnStack(Caller) /\ Caller \in DOMAIN checks /\ IsJs(Caller)
  BY <1>1, <1>2, <1>3 DEF OnStack, CallsInv
<1>9. ASSUME NEW f \in DOMAIN checks, IsJs(f), BelowNoCircle(f), NEW i, IsPast(f, i)', IsFollowed(f, i)
      PROVE  IsSettled(f, i)'
  <2>1. i \in DOMAIN file[f].statements /\ \A k \in 1..n : calls'[k].file = f => i < calls'[k].at
    BY <1>4, <1>9 DEF IsPast
  <2>2. i \in Nat /\ RecordAt \in Nat
    BY <1>1, <1>2, <1>3, <1>8, <2>1 DEF NumbersInv, ChecksInv
  <2>3. CASE f = Caller /\ i = RecordAt
    <3>1. ~OnStack(TargetOf(f, i)) /\ TargetOf(f, i) # Caller
      BY <1>1, <1>8, <1>9, <2>3, TargetIsOffStack
    <3>2. PICK t : t = TargetOf(c, r)
      OBVIOUS
    <3>3. /\ t \in DOMAIN checks
          /\ checks[t].parent # NoPath =>
               IF KindOf(c, r) = "stmt" THEN checks'[c].parent # NoPath ELSE IsReported(c, r)'
      BY <1>9, <2>3, <3>2
    <3>4. TargetOf(f, i)' = t /\ KindOf(f, i)' = KindOf(f, i) /\ checks'[t] = checks[t] /\ ~OnStack(t)'
      BY <1>5, <1>7, <2>3, <3>1, <3>2, <3>3
    <3>5. f = c /\ i = r
      BY <2>3
    <3>. QED BY <3>3, <3>4, <3>5 DEF IsSettled
  <2>4. CASE ~(f = Caller /\ i = RecordAt)
    <3>1. \A k \in 1..n : calls[k].file = f => i < calls[k].at
      <4>1. ASSUME NEW k \in 1..n, calls[k].file = f PROVE i < calls[k].at
        <5>1. i < calls'[k].at
          BY <1>4, <2>1, <4>1
        <5>2. CASE k = n
          BY <1>3, <1>4, <2>2, <2>4, <4>1, <5>1, <5>2
        <5>3. CASE k # n
          BY <1>4, <5>1, <5>3
        <5>. QED BY <5>2, <5>3
      <4>. QED BY <4>1
    <3>2. IsPast(f, i)
      BY <1>2, <2>1, <3>1 DEF IsPast
    <3>3. IsSettled(f, i)
      BY <1>1, <1>9, <3>2 DEF SettledInv
    <3>4. TargetOf(f, i) # Caller /\ ~OnStack(TargetOf(f, i))
      BY <1>8, <3>3 DEF IsSettled
    <3>5. checks'[TargetOf(f, i)] = checks[TargetOf(f, i)]
      BY <3>3, <3>4 DEF IsSettled
    <3>6. checks[f].parent # NoPath => checks'[f].parent # NoPath
      BY <1>9
    <3>7. IsReported(f, i) => IsReported(f, i)'
      BY DEF IsReported
    <3>. QED BY <1>5, <1>7, <3>3, <3>4, <3>5, <3>6, <3>7 DEF IsSettled
  <2>. QED BY <2>3, <2>4
<1>10. SettledInv'
  BY <1>5, <1>9 DEF SettledInv
<1>. QED BY <1>6, <1>10

LEMMA CallerIs ==
    ASSUME CallsInv, ChecksInv, calls # <<>>
    PROVE  Caller \in DOMAIN checks /\ Caller \in Files /\ IsJs(Caller)
<1>1. Len(calls) \in DOMAIN calls
  BY DEF CallsInv
<1>. QED BY <1>1 DEF CallsInv, ChecksInv, Caller, Last

LEMMA FollowStep ==
    ASSUME NumbersInv, AwaitInv, FollowImport
    PROVE  AwaitInv'
<1>. DEFINE c == Caller
            r == RecordAt
            t == TargetOf(c, r)
<1>1. /\ phase = "await" /\ phase' = "await" /\ calls # <<>> /\ r \in DOMAIN file[c].statements
      /\ ~(IsFollowed(c, r) /\ t \in Unchecked) /\ culprit = NoPath
      /\ UNCHANGED <<file, errors>>
      /\ CallsInv /\ ChecksInv /\ CulpritInv /\ ErrorsInv /\ SettledInv
  BY DEF FollowImport, AwaitInv, scanVars
<1>2. c \in DOMAIN checks /\ c \in Files /\ IsJs(c)
  BY <1>1, CallerIs
<1>3. IsFollowed(c, r) => /\ t \in DOMAIN checks /\ t \in Files /\ t # NoPath
                          /\ KindOf(c, r) \in {"stmt", "require"}
                          /\ KindOf(c, r) = "stmt" => t \in LedTo(c, {"stmt"})
  BY <1>1, <1>2, FollowedIsLed DEF Unchecked, NumbersInv
<1>4. /\ DOMAIN checks' = DOMAIN checks
      /\ \A g \in DOMAIN checks : g # c => checks'[g] = checks[g]
      /\ checks'[c].parent = IF Shortens(c, r) THEN t ELSE checks[c].parent
  BY <1>2 DEF FollowImport
<1>5. Shortens(c, r) => /\ IsFollowed(c, r) /\ KindOf(c, r) = "stmt" /\ checks[t].parent # NoPath
  BY DEF Shortens, IsBehindAwait
<1>6. IsForbidden(c, r) <=> IsFollowed(c, r) /\ checks[t].parent # NoPath /\ KindOf(c, r) = "require"
  BY DEF IsForbidden, IsBehindAwait
<1>7. \A g \in DOMAIN checks : checks[g].parent # NoPath => checks'[g].parent # NoPath
  BY <1>2, <1>3, <1>4, <1>5
<1>8. ErrorsInv'
  BY <1>1, FilesStay DEF ErrorsInv
<1>9. ChecksInv'
  <2>1. ASSUME NEW g \in DOMAIN checks, g # c \/ ~Shortens(c, r) PROVE IsCheckSound(g)'
    <3>1. IsCheckSound(g) /\ checks'[g].parent = checks[g].parent
      BY <1>1, <1>4, <2>1 DEF ChecksInv
    <3>. QED BY <1>1, <1>4, <1>7, <3>1, FilesStay DEF IsCheckSound
  <2>2. ASSUME NEW f \in DOMAIN checks, f = c, Shortens(c, r) PROVE IsCheckSound(f)'
    <3>1. f = c
      BY <2>2
    <3>2. PICK s : s = t
      OBVIOUS
    <3>3. IsCheckSound(s) /\ checks[s].parent # NoPath /\ s \in LedTo(f, {"stmt"}) /\ s \in DOMAIN checks
      BY <1>1, <1>3, <1>5, <2>2, <3>1, <3>2 DEF ChecksInv
    <3>4. WaitsFor(f) # {}
      BY <1>2, <3>1, <3>3, WaitsForLed DEF IsCheckSound
    <3>5. checks'[f].parent = s /\ checks'[s].parent # NoPath /\ IsJs(f) /\ s # NoPath
      BY <1>2, <1>3, <1>4, <1>5, <1>7, <2>2, <3>1, <3>2, <3>3
    <3>. QED BY <1>1, <1>4, <3>3, <3>4, <3>5, FilesStay DEF IsCheckSound
  <2>3. \A f \in DOMAIN checks : IsCheckSound(f)'
    BY <2>1, <2>2
  <2>. QED BY <1>1, <1>4, <2>3, FilesStay DEF ChecksInv
<1>10. CASE IsForbidden(c, r)
  <2>1. UNCHANGED calls /\ culprit' = t /\ checks' = checks
    BY <1>5, <1>6, <1>10 DEF FollowImport
  <2>2. CulpritInv'
    <3>1. Caller' = c /\ RecordAt' = r
      BY <2>1 DEF Caller, RecordAt
    <3>. DEFINE f == c
                i == r
    <3>2. PICK g, j : g = c /\ j = r
      OBVIOUS
    <3>3. PICK s : s = TargetOf(g, j)
      OBVIOUS
    <3>4. s \in Closure({s}, {"stmt"})
      BY <1>3, <1>6, <1>10, <3>2, <3>3, ClosureIs
    <3>5. /\ TargetOf(g, j)' = s /\ Closure({s}, {"stmt"})' = Closure({s}, {"stmt"})
          /\ KindOf(g, j)' = KindOf(g, j) /\ (IsFollowed(g, j)' <=> IsFollowed(g, j))
      BY <1>1, <3>3, FilesStay
    <3>. QED BY <1>1, <1>3, <1>6, <1>10, <2>1, <3>1, <3>2, <3>3, <3>4, <3>5 DEF CulpritInv
  <2>3. CallsInv' /\ SettledInv'
    BY <1>1, <2>1, FilesStay DEF CallsInv, SettledInv, IsPast, IsSettled, OnStack, IsReported
  <2>. QED BY <1>1, <1>8, <1>9, <2>2, <2>3 DEF AwaitInv, AwaitsAreFound
<1>11. CASE ~IsForbidden(c, r)
  <2>1. calls' = AdvancedCalls /\ culprit' = NoPath
    BY <1>1, <1>11 DEF FollowImport
  <2>2. CallsInv' /\ SettledInv'
    <3>1. PICK f : f = c
      OBVIOUS
    <3>2. PICK i : i = r
      OBVIOUS
    <3>3. BelowNoCircle(f) /\ IsFollowed(f, i) =>
               /\ TargetOf(f, i) \in DOMAIN checks
               /\ checks[TargetOf(f, i)].parent # NoPath =>
                    KindOf(f, i) = "stmt" /\ checks'[f].parent # NoPath
      <4>1. ASSUME IsFollowed(c, r), checks[t].parent # NoPath
            PROVE  KindOf(c, r) = "stmt" /\ checks'[c].parent # NoPath
        <5>1. KindOf(c, r) = "stmt"
          BY <1>3, <1>6, <1>11, <4>1
        <5>2. CASE checks[c].parent = NoPath
          BY <1>3, <1>4, <4>1, <5>1, <5>2 DEF Shortens, IsBehindAwait
        <5>3. CASE checks[c].parent # NoPath
          <6>. HIDE DEF c
          <6>. QED BY <1>2, <1>7, <5>1, <5>3
        <5>. QED BY <5>1, <5>2, <5>3
      <4>. QED BY <1>3, <3>1, <3>2, <4>1
    <3>. HIDE DEF c, r, t
    <3>4. /\ f = Caller /\ i = RecordAt
          /\ checks[Caller].parent # NoPath => checks'[Caller].parent # NoPath
          /\ \A g \in DOMAIN checks : g # Caller => checks'[g] = checks[g]
          /\ RecordAt \in DOMAIN file[Caller].statements
      BY <1>1, <1>2, <1>4, <1>7, <3>1, <3>2 DEF c, r
    <3>. QED BY <1>1, <1>4, <2>1, <3>3, <3>4, AdvanceStep
  <2>3. CulpritInv'
    BY <2>1 DEF CulpritInv
  <2>. QED BY <1>1, <1>8, <1>9, <2>2, <2>3 DEF AwaitInv, AwaitsAreFound
<1>. QED BY <1>10, <1>11

LEMMA FindStep ==
    ASSUME NumbersInv, AwaitInv, FindAwait
    PROVE  AwaitInv'
<1>1. /\ phase = "await" /\ phase' = "await" /\ culprit # NoPath /\ UNCHANGED <<file, checks>>
      /\ CallsInv /\ ChecksInv /\ CulpritInv /\ ErrorsInv /\ SettledInv
  BY DEF FindAwait, AwaitInv
<1>2. PICK c : c = Caller
  OBVIOUS
<1>3. PICK r : r = RecordAt
  OBVIOUS
<1>4. PICK t : t = TargetOf(c, r)
  OBVIOUS
<1>5. /\ calls # <<>> /\ r \in DOMAIN file[c].statements
      /\ IsFollowed(c, r) /\ KindOf(c, r) = "require" /\ t \in DOMAIN checks
      /\ culprit \in Closure({t}, {"stmt"})
      /\ culprit \in DOMAIN checks /\ checks[culprit].parent # NoPath
  BY <1>1, <1>2, <1>3, <1>4 DEF CulpritInv
<1>6. c \in DOMAIN checks /\ c \in Files /\ IsJs(c)
  BY <1>1, <1>2, <1>5, CallerIs
<1>7. IsCheckSound(culprit)
  BY <1>1, <1>5 DEF ChecksInv
<1>8. ChecksInv'
  BY <1>1, FilesStay DEF ChecksInv, IsCheckSound
<1>9. CASE ~file[culprit].awaits
  <2>1. culprit' = checks[culprit].parent /\ UNCHANGED <<errors, calls>>
    BY <1>5, <1>7, <1>9 DEF FindAwait, IsCheckSound
  <2>2. /\ checks[culprit].parent \in LedTo(culprit, {"stmt"})
        /\ checks[culprit].parent \in DOMAIN checks
        /\ checks[checks[culprit].parent].parent # NoPath
    BY <1>5, <1>7, <1>9 DEF IsCheckSound
  <2>3. checks[culprit].parent \in Closure({t}, {"stmt"})
    BY <1>5, <2>2, ClosureIs
  <2>4. CulpritInv'
    <3>1. Caller' = c /\ RecordAt' = r
      BY <1>2, <1>3, <2>1 DEF Caller, RecordAt
    <3>2. /\ TargetOf(c, r)' = t /\ Closure({t}, {"stmt"})' = Closure({t}, {"stmt"})
          /\ KindOf(c, r)' = KindOf(c, r) /\ (IsFollowed(c, r)' <=> IsFollowed(c, r))
      BY <1>1, <1>4, FilesStay
    <3>. QED BY <1>1, <1>5, <2>1, <2>2, <2>3, <3>1, <3>2 DEF CulpritInv
  <2>5. CallsInv' /\ SettledInv' /\ ErrorsInv'
    BY <1>1, <2>1, FilesStay
       DEF CallsInv, SettledInv, IsPast, IsSettled, OnStack, IsReported, ErrorsInv
  <2>. QED BY <1>1, <1>8, <2>4, <2>5 DEF AwaitInv, AwaitsAreFound
<1>10. CASE file[culprit].awaits
  <2>. DEFINE e == [why |-> "await", file |-> c, at |-> r, culprit |-> culprit]
  <2>1. errors' = errors \cup {e} /\ culprit' = NoPath /\ calls' = AdvancedCalls
    BY <1>2, <1>3, <1>7, <1>5, <1>10 DEF FindAwait, IsCheckSound
  <2>2. culprit \in WaitsFor(t)
    BY <1>5, <1>7, <1>10 DEF WaitsFor, IsCheckSound
  <2>3. ErrorsInv'
    <3>1. ASSUME NEW d \in errors', d.why = "await"
          PROVE  d.culprit \in WaitsFor(TargetOf(d.file, d.at))
      BY <1>1, <1>4, <2>1, <2>2, <3>1 DEF ErrorsInv
    <3>. QED BY <1>1, <3>1, FilesStay DEF ErrorsInv
  <2>4. IsReported(c, r)'
    <3>1. e \in errors' /\ e.why = "await" /\ e.file = c /\ e.at = r
      BY <2>1
    <3>. HIDE DEF e
    <3>. QED BY <3>1 DEF IsReported
  <2>. HIDE DEF e
  <2>5. CallsInv' /\ SettledInv'
    <3>1. c = Caller /\ r = RecordAt /\ RecordAt \in DOMAIN file[Caller].statements
      BY <1>2, <1>3, <1>5
    <3>2. TargetOf(c, r) \in DOMAIN checks /\ KindOf(c, r) # "stmt" /\ errors \subseteq errors'
      BY <1>4, <1>5, <2>1
    <3>. QED BY <1>1, <1>5, <2>1, <2>4, <3>1, <3>2, AdvanceStep
  <2>6. CulpritInv'
    BY <2>1 DEF CulpritInv
  <2>. QED BY <1>1, <1>8, <2>3, <2>5, <2>6 DEF AwaitInv, AwaitsAreFound
<1>. QED BY <1>9, <1>10

LEMMA ReturnStep ==
    ASSUME NumbersInv, AwaitInv, Return
    PROVE  AwaitInv'
<1>. DEFINE n == Len(calls)
<1>1. /\ phase = "await" /\ phase' = "await" /\ UNCHANGED <<file, checks, culprit, errors>>
      /\ calls # <<>> /\ RecordAt \notin DOMAIN file[Caller].statements /\ calls' = Front(calls)
      /\ CallsInv /\ ChecksInv /\ CulpritInv /\ ErrorsInv /\ SettledInv
  BY DEF Return, AwaitInv, scanVars
<1>2. culprit = NoPath
  BY <1>1 DEF CulpritInv
<1>3. calls \in Seq([file : Files, at : Nat \ {0}]) /\ n \in Nat \ {0} /\ DOMAIN calls = 1..n
  BY <1>1 DEF CallsInv
<1>4. Caller = calls[n].file /\ RecordAt = calls[n].at
  BY DEF Caller, RecordAt, Last
<1>. HIDE DEF n
<1>5. /\ calls' \in Seq([file : Files, at : Nat \ {0}]) /\ DOMAIN calls' = 1..(n - 1)
      /\ \A k \in 1..(n - 1) : calls'[k] = calls[k]
  <2>. DEFINE Frames == [file : Files, at : Nat \ {0}]
  <2>1. calls \in Seq(Frames)
    BY <1>3
  <2>. HIDE DEF Frames
  <2>2. calls' = SubSeq(calls, 1, n - 1)
    BY <1>1 DEF Front, n
  <2>3. calls' = [k \in 1..(n - 1) |-> calls[k]] /\ \A k \in 1..(n - 1) : calls[k] \in Frames
    BY <1>3, <2>1, <2>2
  <2>4. calls' \in Seq(Frames)
    BY <1>3, <2>3
  <2>. QED BY <2>3, <2>4 DEF Frames
<1>6. 1..(n - 1) \subseteq 1..n /\ n \in 1..n
  BY <1>3
<1>7. CallsInv'
  <2>1. \A k \in 1..(n - 1) : calls'[k].file \in DOMAIN checks' /\ IsJs(calls'[k].file)
    BY <1>1, <1>3, <1>5, <1>6 DEF CallsInv
  <2>2. \A k, m \in 1..(n - 1) :
           k < m => calls'[m].file \in Below(calls'[k].file) /\ calls'[m].file # calls'[k].file
    BY <1>1, <1>3, <1>5, <1>6 DEF CallsInv
  <2>3. /\ Files' = Files /\ \A f : (IsJs(f)' <=> IsJs(f)) /\ Below(f)' = Below(f)
    BY <1>1, FilesStay
  <2>. QED BY <1>5, <2>1, <2>2, <2>3 DEF CallsInv
<1>8. ASSUME NEW f \in DOMAIN checks, NEW i, IsPast(f, i)' PROVE IsPast(f, i)
  <2>1. i \in DOMAIN file[f].statements /\ \A k \in 1..(n - 1) : calls[k].file = f => i < calls[k].at
    BY <1>1, <1>5, <1>8 DEF IsPast
  <2>2. calls[n].file = f => i < calls[n].at
    <3>. SUFFICES ASSUME calls[n].file = f PROVE i < calls[n].at
      OBVIOUS
    <3>1. f \in Files /\ DOMAIN file[f].statements = 1..Len(file[f].statements) /\ Len(file[f].statements) \in Nat
      BY <1>1 DEF NumbersInv, ChecksInv
    <3>2. calls[n].at \notin 1..Len(file[f].statements)
      BY <1>1, <1>4, <3>1
    <3>3. calls[n].at \in Nat \ {0}
      <4>. DEFINE Frames == [file : Files, at : Nat \ {0}]
      <4>1. calls \in Seq(Frames)
        BY <1>3
      <4>. HIDE DEF Frames
      <4>2. calls[n] \in Frames
        BY <1>3, <4>1
      <4>. QED BY <4>2 DEF Frames
    <3>. QED BY <2>1, <3>1, <3>2, <3>3
  <2>3. \A k \in 1..n : k = n \/ k \in 1..(n - 1)
    BY <1>3
  <2>. QED BY <1>3, <2>1, <2>2, <2>3 DEF IsPast
<1>9. SettledInv'
  <2>1. ASSUME NEW f \in DOMAIN checks, IsJs(f), BelowNoCircle(f), NEW i, IsPast(f, i)', IsFollowed(f, i)
        PROVE  IsSettled(f, i)'
    <3>1. IsSettled(f, i)
      BY <1>1, <1>8, <2>1 DEF SettledInv
    <3>2. \A g : OnStack(g)' => OnStack(g)
      BY <1>3, <1>5, <1>6 DEF OnStack
    <3>. QED BY <1>1, <3>1, <3>2, FilesStay DEF IsSettled, IsReported
  <2>. QED BY <1>1, <2>1, FilesStay DEF SettledInv
<1>10. ChecksInv' /\ ErrorsInv' /\ CulpritInv'
  BY <1>1, <1>2, FilesStay DEF ChecksInv, IsCheckSound, ErrorsInv, CulpritInv
<1>. QED BY <1>1, <1>7, <1>9, <1>10 DEF AwaitInv, AwaitsAreFound

IsFound(f) ==
    /\ WaitsFor(f) # {} => f \in async
    /\ \A i \in LinkedRecords(f) :
          KindOf(f, i) = "require" /\ WaitsFor(TargetOf(f, i)) # {} => IsReported(f, i)

LEMMA MarkStep ==
    ASSUME NumbersInv, AwaitInv, MarkAsync
    PROVE  AwaitInv'
<1>1. /\ phase = "await" /\ phase' = "reach" /\ calls = <<>> /\ UNCHANGED <<file, errors>>
      /\ async' = {f \in DOMAIN checks : checks[f].parent # NoPath}
      /\ CallsInv /\ ChecksInv /\ ErrorsInv /\ SettledInv
  BY DEF MarkAsync, AwaitInv
<1>2. DOMAIN checks = Files
  BY <1>1 DEF MarkAsync, Unchecked, NumbersInv, ChecksInv
<1>3. ASSUME NEW f \in Files, BelowNoCircle(f), checks[f].parent = NoPath
      PROVE  WaitsFor(f) = {}
  <2>. DEFINE S == {g \in Closure({f}, Evaluated) : checks[g].parent = NoPath}
  <2>1. f \in S
    BY <1>3, ClosureIs
  <2>2. S \subseteq Files
    BY ClosureIs
  <2>3. ASSUME NEW g \in S, NEW t \in LedTo(g, {"stmt"}) PROVE t \in S
    <3>1. IsJs(g) /\ g \in Files /\ BelowNoCircle(g)
      BY <1>3, <2>2, <2>3, NoCircleLed DEF LedTo
    <3>2. PICK i \in LinkedRecords(g) : KindOf(g, i) = "stmt" /\ t = TargetOf(g, i) /\ t \in Files
      BY <2>3, <3>1 DEF LedTo
    <3>3. IsFollowed(g, i) /\ i \in DOMAIN file[g].statements
      BY <3>2 DEF IsFollowed, LinkedRecords, RecordsOf
    <3>4. IsPast(g, i)
      BY <1>1, <3>3 DEF IsPast
    <3>5. IsSettled(g, i)
      BY <1>1, <1>2, <3>1, <3>3, <3>4 DEF SettledInv
    <3>6. checks[t].parent = NoPath
      BY <2>3, <3>2, <3>5 DEF IsSettled
    <3>7. t \in Closure({f}, Evaluated)
      BY <3>1, <3>2, <3>3, ClosureIs, FollowedIsLed
    <3>. QED BY <3>6, <3>7
  <2>4. \A g \in S : ~(IsJs(g) /\ file[g].awaits)
    <3>1. ASSUME NEW g \in S PROVE ~(IsJs(g) /\ file[g].awaits)
      <4>1. IsCheckSound(g) /\ checks[g].parent = NoPath
        BY <1>1, <1>2, <2>2 DEF ChecksInv
      <4>. QED BY <4>1 DEF IsCheckSound
    <3>. QED BY <3>1
  <2>. HIDE DEF S
  <2>5. Closure({f}, {"stmt"}) \subseteq S
    BY <2>1, <2>2, <2>3, ClosureLeast
  <2>. QED BY <2>4, <2>5 DEF WaitsFor
<1>4. ASSUME NEW f \in async' PROVE WaitsFor(f) # {}
  <2>1. IsCheckSound(f) /\ checks[f].parent # NoPath
    BY <1>1, <1>4 DEF ChecksInv
  <2>. QED BY <2>1 DEF IsCheckSound
<1>5. ASSUME NEW f \in Files, IsJs(f), BelowNoCircle(f), WaitsFor(f) # {}
      PROVE  f \in async'
  BY <1>1, <1>2, <1>3, <1>5
<1>6. ASSUME NEW f \in Files, IsJs(f), BelowNoCircle(f), NEW i \in LinkedRecords(f),
             KindOf(f, i) = "require", WaitsFor(TargetOf(f, i)) # {}
      PROVE  IsReported(f, i)
  <2>. DEFINE t == TargetOf(f, i)
  <2>1. t \in Files
    <3>1. CASE t \notin Files
      <4>1. Closure({t}, {"stmt"}) = {}
        <5>1. {t} \cap Files = {}
          BY <3>1
        <5>. HIDE DEF t
        <5>. QED BY <5>1, ClosureLeast
      <4>. QED BY <1>6, <4>1 DEF WaitsFor
    <3>. QED BY <3>1
  <2>2. IsFollowed(f, i) /\ i \in DOMAIN file[f].statements
    BY <1>6, <2>1 DEF IsFollowed, LinkedRecords, RecordsOf
  <2>3. IsPast(f, i)
    BY <1>1, <2>2 DEF IsPast
  <2>4. IsSettled(f, i)
    BY <1>1, <1>2, <1>6, <2>2, <2>3 DEF SettledInv
  <2>5. BelowNoCircle(t)
    BY <1>6, <2>2, NoCircleLed, BelowLed, FollowedIsLed
  <2>6. checks[t].parent # NoPath
    BY <1>3, <1>6, <2>1, <2>5
  <2>. QED BY <1>6, <2>4, <2>6 DEF IsSettled
<1>7. AwaitsAreFound'
  <2>1. \A f : WaitsFor(f)' = WaitsFor(f)
    BY <1>1, FilesStay
  <2>2. \A f \in async' : WaitsFor(f)' # {}
    BY <1>4, <2>1
  <2>3. ASSUME NEW e \in errors', e.why = "await" PROVE e.culprit \in WaitsFor(TargetOf(e.file, e.at))'
    <3>1. TargetOf(e.file, e.at)' = TargetOf(e.file, e.at)
      BY <1>1 DEF TargetOf
    <3>2. e.culprit \in WaitsFor(TargetOf(e.file, e.at))
      BY <1>1, <2>3 DEF ErrorsInv
    <3>. QED BY <2>1, <3>1, <3>2
  <2>4. ASSUME NEW f \in Files', IsJs(f)', BelowNoCircle(f)' PROVE IsFound(f)'
    <3>1. f \in Files /\ IsJs(f) /\ BelowNoCircle(f)
      BY <1>1, <2>4, FilesStay
    <3>2. LinkedRecords(f)' = LinkedRecords(f)
      BY <1>1, FilesStay
    <3>3. ASSUME NEW i \in LinkedRecords(f), KindOf(f, i)' = "require", WaitsFor(TargetOf(f, i))' # {}
          PROVE  IsReported(f, i)'
      <4>1. KindOf(f, i)' = KindOf(f, i) /\ TargetOf(f, i)' = TargetOf(f, i)
        BY <1>1, FilesStay
      <4>2. WaitsFor(TargetOf(f, i)) # {}
        BY <2>1, <3>3, <4>1
      <4>. QED BY <1>1, <1>6, <3>1, <3>3, <4>1, <4>2 DEF IsReported
    <3>4. WaitsFor(f)' # {} => f \in async'
      BY <1>5, <2>1, <3>1
    <3>. QED BY <3>2, <3>3, <3>4 DEF IsFound
  <2>. QED BY <2>2, <2>3, <2>4 DEF AwaitsAreFound, IsFound, IsReported
<1>. QED BY <1>1, <1>7 DEF AwaitInv

LEMMA AwaitStep ==
    ASSUME ReadInv, NumbersInv, AwaitInv, [BundleNext]_<<scanVars, awaitVars>>
    PROVE  AwaitInv'
<1>1. ASSUME phase = "scan", cursor <= Len(pending), NEW c \in ContentsOf(corpus, pending[cursor]), ScanFile(c)
      PROVE  AwaitInv'
  BY <1>1 DEF ScanFile, AwaitInv, AwaitsAreFound
<1>2. CASE FinalizeImportRecords /\ UNCHANGED awaitVars
  <2>1. phase = "scan" /\ phase' = "await" /\ checks' = <<>> /\ calls' = <<>> /\ culprit' = NoPath
    BY <1>2 DEF FinalizeImportRecords, NumbersInv, awaitVars
  <2>2. \A e \in errors' : e.why # "await"
    <3>1. \A e \in ImportErrors(RetargetedFiles) : e.why # "await"
      BY DEF ImportErrors
    <3>2. \/ errors' = errors \cup ImportErrors(RetargetedFiles)
          \/ errors' = errors \cup ImportErrors(RetargetedFiles) \cup
                          {[why |-> "stdout", file |-> e[1], at |-> e[2]] : e \in Edges}
      BY <1>2 DEF FinalizeImportRecords, StubEdges, Edges, RetargetedFiles
    <3>3. \A e \in errors : e.why # "await"
      BY <2>1 DEF NumbersInv
    <3>. QED BY <3>1, <3>2, <3>3
  <2>3. DOMAIN checks' = {} /\ DOMAIN calls' = {} /\ calls' \in Seq([file : Files', at : Nat \ {0}])
    BY <2>1
  <2>. QED BY <2>1, <2>2, <2>3
           DEF AwaitInv, CallsInv, ChecksInv, CulpritInv, ErrorsInv, SettledInv, AwaitsAreFound
<1>3. CASE StartLinking \/ VisitFile \/ LeaveFile \/ InlineLinkedAssets
  BY <1>3 DEF StartLinking, VisitFile, LeaveFile, InlineLinkedAssets, AwaitInv, AwaitsAreFound
<1>4. CASE VisitFirst
  <2>1. PICK n \in DOMAIN known : known[n] \in Unchecked /\ Visit(known[n])
    BY <1>4 DEF VisitFirst
  <2>2. phase = "await" /\ calls = <<>> /\ UNCHANGED scanVars /\ culprit = NoPath
    BY <1>4, <2>1 DEF VisitFirst, Visit, AwaitInv, CulpritInv
  <2>. QED BY <2>1, <2>2, VisitStep
<1>5. CASE VisitTarget
  <2>1. /\ phase = "await" /\ calls # <<>> /\ RecordAt \in DOMAIN file[Caller].statements
        /\ IsFollowed(Caller, RecordAt) /\ TargetOf(Caller, RecordAt) \in Unchecked
        /\ Visit(TargetOf(Caller, RecordAt)) /\ UNCHANGED scanVars
    BY <1>5 DEF VisitTarget, Visit
  <2>2. culprit = NoPath
    BY <2>1 DEF AwaitInv, CulpritInv, Unchecked
  <2>3. IsJs(Caller)
    BY <2>1, CallerIs DEF AwaitInv
  <2>4. TargetOf(Caller, RecordAt) \in LedTo(Caller, Evaluated)
    BY <2>1, <2>3, FollowedIsLed
  <2>5. PICK t : t = TargetOf(Caller, RecordAt)
    OBVIOUS
  <2>. QED BY <2>1, <2>2, <2>4, <2>5, VisitStep
<1>6. CASE FollowImport
  BY <1>6, FollowStep
<1>7. CASE FindAwait
  BY <1>7, FindStep
<1>8. CASE Return
  BY <1>8, ReturnStep
<1>9. CASE MarkAsync
  BY <1>9, MarkStep
<1>10. CASE UNCHANGED <<scanVars, awaitVars>>
  <2>1. UNCHANGED <<phase, file, errors, async, checks, calls, culprit>>
    BY <1>10 DEF scanVars, awaitVars
  <2>2. (CallsInv => CallsInv') /\ (ChecksInv => ChecksInv') /\ (ErrorsInv => ErrorsInv')
    BY <2>1, FilesStay DEF CallsInv, ChecksInv, IsCheckSound, ErrorsInv
  <2>4. CulpritInv => CulpritInv'
    <3>1. Caller' = Caller /\ RecordAt' = RecordAt
      BY <2>1 DEF Caller, RecordAt
    <3>2. PICK c, r : c = Caller /\ r = RecordAt
      OBVIOUS
    <3>3. PICK t : t = TargetOf(c, r)
      OBVIOUS
    <3>4. /\ TargetOf(c, r)' = t /\ KindOf(c, r)' = KindOf(c, r) /\ (IsFollowed(c, r)' <=> IsFollowed(c, r))
          /\ Closure({t}, {"stmt"})' = Closure({t}, {"stmt"})
      BY <2>1, <3>3, FilesStay
    <3>. QED BY <2>1, <3>1, <3>2, <3>3, <3>4 DEF CulpritInv
  <2>5. SettledInv => SettledInv'
    BY <2>1, FilesStay DEF SettledInv, IsPast, IsSettled, IsReported, OnStack
  <2>3. AwaitsAreFound => AwaitsAreFound'
    <3>1. \A f : WaitsFor(f)' = WaitsFor(f) /\ (IsJs(f)' <=> IsJs(f)) /\ (BelowNoCircle(f)' <=> BelowNoCircle(f))
      BY <2>1, FilesStay
    <3>. QED BY <2>1, <3>1, FilesStay DEF AwaitsAreFound
  <2>. QED BY <2>1, <2>2, <2>3, <2>4, <2>5 DEF AwaitInv
<1>. QED BY <1>1, <1>2, <1>3, <1>4, <1>5, <1>6, <1>7, <1>8, <1>9, <1>10
         DEF BundleNext, ScanNext, ValidateTopLevelAwait

-----------------------------------------------------------------------------
(* Theorems                                                                *)

ScanInv == ReadInv /\ FinalInv /\ LinkInv /\ NumbersInv /\ AwaitInv

LEMMA ScanInvInitially == BundleInit => ScanInv
<1>. SUFFICES ASSUME BundleInit PROVE ScanInv
  OBVIOUS
<1>. DEFINE entry == Corpora[corpus].entry
<1>1. /\ corpus \in DOMAIN Corpora /\ phase = "scan" /\ pending = <<entry>> /\ cursor = 1
      /\ file = <<>> /\ errors = {} /\ visiting = <<>> /\ reachable = <<>>
      /\ checks = <<>> /\ calls = <<>> /\ culprit = NoPath
  BY DEF BundleInit, ScanInit, AwaitInit
<1>2. entry \in Disk(corpus)
  BY <1>1, CorporaAssumption
<1>3. Files = {} /\ Range(pending) = {entry}
  BY <1>1 DEF Files, Range
<1>. HIDE DEF entry
<1>4. ReadInv
  BY <1>1, <1>2, <1>3 DEF ReadInv, Phases, entry
<1>5. FinalInv /\ LinkInv /\ AwaitInv
  BY <1>1 DEF FinalInv, LinkInv, AwaitInv, LinkerInputIsSound, OneCopyOfAPackage, AwaitsAreFound
<1>6. known \in Seq(Range(known)) /\ Range(pending) \subseteq Range(known)
  <2>1. PICK k \in Corpora[corpus].known : known \in Appended(k, {entry}, {})
    BY DEF BundleInit, ScanInit, entry
  <2>2. k \in Seq(Range(k))
    BY <1>1, CorporaAssumption
  <2>3. IsFiniteSet({entry})
    BY FS_Singleton
  <2>. QED BY <1>3, <2>1, <2>2, <2>3, AppendedKeeps
<1>7. NumbersInv
  BY <1>1, <1>3, <1>6 DEF NumbersInv
<1>. QED BY <1>4, <1>5, <1>7 DEF ScanInv

LEMMA ScanInvStep == ScanInv /\ [BundleNext]_<<scanVars, awaitVars>> => ScanInv'
BY ReadStep, FinalStep, LinkStep, NumbersStep, AwaitStep DEF ScanInv

LEMMA ScanInvHolds == BundleSpec => []ScanInv
BY ScanInvInitially, ScanInvStep, PTL DEF BundleSpec

\* Whatever a corpus holds, when nothing was reported the files the linker is
\* given are all read and their records lead to files of the right kind.
THEOREM LinkerGetsSoundInput == BundleSpec => []LinkerInputIsSound
<1>1. ScanInv => LinkerInputIsSound
  BY DEF ScanInv, LinkInv
<1>. QED BY <1>1, ScanInvHolds, PTL

\* Of a package with an ES and a CommonJS file at most one is in the bundle,
\* however many files import it and in whatever order they are read.
THEOREM PackagesAreNotDoubled == BundleSpec => []OneCopyOfAPackage
<1>1. ScanInv => OneCopyOfAPackage
  BY DEF ScanInv, LinkInv
<1>. QED BY <1>1, ScanInvHolds, PTL

\* For any program, circles included, and any numbers the files have: async
\* files wait for an await, errors tell of one, and where imports make no
\* circle no importer of an await and no call of require for one is missed.
THEOREM AwaitsAreAllFound == BundleSpec => []AwaitsAreFound
<1>1. ScanInv => AwaitsAreFound
  BY DEF ScanInv, AwaitInv
<1>. QED BY <1>1, ScanInvHolds, PTL
==============================================================================
