--------------------------- MODULE TreeShaking_proofs ---------------------------
(***************************************************************************)
(* Theorems about TreeShaking for every scanned graph: what is kept is     *)
(* what is needed, whatever is kept belongs to an entry point, and the     *)
(* entry bits and the distances are those of the shortest ways.            *)
(***************************************************************************)
EXTENDS TreeShaking, FiniteSetTheorems, SequenceTheorems, WellFoundedInduction, TLAPS

-----------------------------------------------------------------------------
(* Sequences of calls                                                      *)

LEMMA ElementsOfConcat ==
    ASSUME NEW S, NEW a \in Seq(S), NEW b \in Seq(S)
    PROVE  /\ a \o b \in Seq(S)
           /\ ElementsOf(a \o b) = ElementsOf(a) \cup ElementsOf(b)
<1>1. /\ a \o b \in Seq(S)
      /\ Len(a \o b) = Len(a) + Len(b)
      /\ \A i \in 1..(Len(a) + Len(b)) : (a \o b)[i] = IF i <= Len(a) THEN a[i] ELSE b[i - Len(a)]
  BY ConcatProperties
<1>2. ASSUME NEW x \in ElementsOf(a) PROVE x \in ElementsOf(a \o b)
  <2>1. PICK i \in 1..Len(a) : x = a[i]
    BY <1>2 DEF ElementsOf
  <2>2. i \in 1..Len(a \o b) /\ (a \o b)[i] = x
    BY <2>1, <1>1
  <2>. QED BY <2>2 DEF ElementsOf
<1>3. ASSUME NEW x \in ElementsOf(b) PROVE x \in ElementsOf(a \o b)
  <2>1. PICK i \in 1..Len(b) : x = b[i]
    BY <1>3 DEF ElementsOf
  <2>2. i + Len(a) \in 1..Len(a \o b) /\ (a \o b)[i + Len(a)] = x
    BY <2>1, <1>1
  <2>. QED BY <2>2 DEF ElementsOf
<1>4. ASSUME NEW x \in ElementsOf(a \o b) PROVE x \in ElementsOf(a) \cup ElementsOf(b)
  <2>1. PICK i \in 1..Len(a \o b) : x = (a \o b)[i]
    BY <1>4 DEF ElementsOf
  <2>2. CASE i <= Len(a)
    BY <2>1, <2>2, <1>1 DEF ElementsOf
  <2>3. CASE ~(i <= Len(a))
    <3>1. i - Len(a) \in 1..Len(b) /\ x = b[i - Len(a)]
      BY <2>1, <2>3, <1>1
    <3>. QED BY <3>1 DEF ElementsOf
  <2>. QED BY <2>2, <2>3
<1>. QED BY <1>1, <1>2, <1>3, <1>4

LEMMA ElementsOfTail ==
    ASSUME NEW S, NEW s \in Seq(S), s # <<>>
    PROVE  /\ Head(s) \in S /\ Head(s) \in ElementsOf(s)
           /\ Tail(s) \in Seq(S)
           /\ ElementsOf(s) = {Head(s)} \cup ElementsOf(Tail(s))
<1>1. /\ Head(s) \in S /\ Tail(s) \in Seq(S)
      /\ Len(s) \in Nat /\ Len(s) > 0 /\ Len(Tail(s)) = Len(s) - 1
      /\ Head(s) = s[1]
      /\ \A i \in 1..Len(Tail(s)) : Tail(s)[i] = s[i + 1]
  BY HeadTailProperties
<1>2. ASSUME NEW x \in ElementsOf(s) PROVE x = Head(s) \/ x \in ElementsOf(Tail(s))
  <2>1. PICK i \in 1..Len(s) : x = s[i]
    BY <1>2 DEF ElementsOf
  <2>2. CASE i = 1
    BY <2>1, <2>2, <1>1
  <2>3. CASE i # 1
    <3>1. i - 1 \in 1..Len(Tail(s)) /\ Tail(s)[i - 1] = x
      BY <2>1, <2>3, <1>1
    <3>. QED BY <3>1 DEF ElementsOf
  <2>. QED BY <2>2, <2>3
<1>3. ASSUME NEW x \in ElementsOf(Tail(s)) PROVE x \in ElementsOf(s)
  <2>1. PICK i \in 1..Len(Tail(s)) : x = Tail(s)[i]
    BY <1>3 DEF ElementsOf
  <2>2. i + 1 \in 1..Len(s) /\ s[i + 1] = x
    BY <2>1, <1>1
  <2>. QED BY <2>2 DEF ElementsOf
<1>4. Head(s) \in ElementsOf(s)
  BY <1>1 DEF ElementsOf
<1>. QED BY <1>1, <1>2, <1>3, <1>4

LEMMA ElementsOfTable ==
    ASSUME NEW S, NEW n \in Nat, NEW s \in [1..n -> S]
    PROVE  s \in Seq(S) /\ Len(s) = n /\ ElementsOf(s) = {s[i] : i \in 1..n}
<1>1. s \in Seq(S) /\ Len(s) = n
  OBVIOUS
<1>. QED BY <1>1 DEF ElementsOf

LEMMA ElementsOfNone == \A S : <<>> \in Seq(S) /\ ElementsOf(<<>>) = {}
<1>1. Len(<<>>) = 0
  OBVIOUS
<1>. QED BY <1>1 DEF ElementsOf

LEMMA ElementsOfOne ==
    ASSUME NEW S, NEW x \in S
    PROVE  <<x>> \in Seq(S) /\ ElementsOf(<<x>>) = {x}
<1>1. <<x>> \in Seq(S) /\ Len(<<x>>) = 1 /\ <<x>>[1] = x
  OBVIOUS
<1>. QED BY <1>1 DEF ElementsOf

-----------------------------------------------------------------------------
(* The scanned graph                                                       *)

RecordsOf(f) == 1..Len(graph.file[f].records)
RecordAt(f, p, i) == Part(f, p).records[i]
UseAt(f, p, d) == Part(f, p).dependencies[d]

LEMMA GraphFacts ==
    ASSUME graph \in Graphs, NEW f \in Files
    PROVE  /\ graph.file[f].kind \in {"js", "css", "copy"}
           /\ graph.file[f].css \in Files \cup {NoFile}
           /\ Len(graph.file[f].records) \in Nat
           /\ Len(graph.file[f].parts) \in Nat
           /\ \A r \in RecordsOf(f) :
                  /\ Record(f, r).target \in Files \cup {NoFile}
                  /\ graph.file[f].kind # "js" => Record(f, r).kind # "dynamic"
           /\ graph.file[f].kind # "js" => PartsOf(f) = {} /\ graph.file[f].css = NoFile
           /\ graph.file[f].kind = "copy" => RecordsOf(f) = {}
           /\ \A p \in PartsOf(f) :
                  /\ Len(Part(f, p).records) \in Nat
                  /\ Len(Part(f, p).dependencies) \in Nat
                  /\ \A i \in 1..Len(Part(f, p).records) : RecordAt(f, p, i) \in RecordsOf(f)
                  /\ \A d \in 1..Len(Part(f, p).dependencies) :
                         /\ UseAt(f, p, d).file \in Files
                         /\ UseAt(f, p, d).part \in PartsOf(UseAt(f, p, d).file)
<1>1. WellFormed(graph)
  BY GraphAssumption
<1>2. graph.file[f] \in FileShapes
  BY <1>1 DEF WellFormed
<1>3. /\ graph.file[f].kind \in {"js", "css", "copy"}
      /\ graph.file[f].css \in Files \cup {NoFile}
      /\ graph.file[f].records \in Seq(Records)
      /\ graph.file[f].parts \in Seq(Parts)
  BY <1>2 DEF FileShapes
<1>4. ASSUME NEW r \in RecordsOf(f)
      PROVE  /\ Record(f, r).target \in Files \cup {NoFile}
             /\ graph.file[f].kind # "js" => Record(f, r).kind # "dynamic"
  <2>1. graph.file[f].records[r] \in Records
    BY <1>3, <1>4 DEF RecordsOf
  <2>. QED BY <2>1, <1>1, <1>4 DEF Record, Records, RecordsOf, WellFormed
<1>5. ASSUME graph.file[f].kind # "js"
      PROVE  /\ PartsOf(f) = {} /\ graph.file[f].css = NoFile
             /\ graph.file[f].kind = "copy" => RecordsOf(f) = {}
  <2>1. /\ graph.file[f].parts = <<>> /\ graph.file[f].css = NoFile
        /\ graph.file[f].kind = "copy" => graph.file[f].records = <<>>
    BY <1>1, <1>5 DEF WellFormed
  <2>. QED BY <2>1 DEF PartsOf, RecordsOf
<1>6. ASSUME NEW p \in PartsOf(f)
      PROVE  /\ Len(Part(f, p).records) \in Nat
             /\ Len(Part(f, p).dependencies) \in Nat
             /\ \A i \in 1..Len(Part(f, p).records) : RecordAt(f, p, i) \in RecordsOf(f)
             /\ \A d \in 1..Len(Part(f, p).dependencies) :
                    /\ UseAt(f, p, d).file \in Files
                    /\ UseAt(f, p, d).part \in PartsOf(UseAt(f, p, d).file)
  <2>1. graph.file[f].parts[p] \in Parts
    BY <1>3, <1>6 DEF PartsOf
  <2>2. /\ Part(f, p).records \in Seq(Nat)
        /\ Part(f, p).dependencies \in Seq([file : Files, part : Nat])
    BY <2>1 DEF Part, Parts
  <2>3. \A i \in 1..Len(Part(f, p).records) : RecordAt(f, p, i) \in RecordsOf(f)
    BY <1>1, <1>6 DEF WellFormed, PartsOf, Part, RecordAt, RecordsOf
  <2>4. ASSUME NEW d \in 1..Len(Part(f, p).dependencies)
        PROVE  /\ UseAt(f, p, d).file \in Files
               /\ UseAt(f, p, d).part \in PartsOf(UseAt(f, p, d).file)
    <3>. DEFINE uses == Part(f, p).dependencies
    <3>1. uses \in Seq([file : Files, part : Nat]) /\ d \in 1..Len(uses)
      BY <2>2
    <3>2. uses[d] \in [file : Files, part : Nat]
      <4>. HIDE DEF uses
      <4>. QED BY <3>1, ElementOfSeq
    <3>. QED BY <3>2, <1>1, <1>6 DEF WellFormed, PartsOf, Part, UseAt
  <2>. QED BY <2>2, <2>3, <2>4
<1>. QED BY <1>3, <1>4, <1>5, <1>6

-----------------------------------------------------------------------------
(* What the bodies of the two recursive functions call                     *)

LEMMA FileBodyCalls ==
    ASSUME graph \in Graphs, NEW f \in Files
    PROVE  /\ FileBody(f) \in Seq(ShakeCalls)
           /\ graph.file[f].kind = "js" =>
                 ElementsOf(FileBody(f)) =
                    {MarkFile(g) : g \in {graph.file[f].css} \ {NoFile}}
                    \cup {ScanPart(f, p) : p \in PartsOf(f)}
           /\ graph.file[f].kind = "css" =>
                 ElementsOf(FileBody(f)) = {FollowRecord(f, r) : r \in RecordsOf(f)}
           /\ graph.file[f].kind = "copy" => ElementsOf(FileBody(f)) = {}
<1>1. CASE graph.file[f].kind = "js"
  <2>. DEFINE css == IF graph.file[f].css # NoFile THEN <<MarkFile(graph.file[f].css)>> ELSE <<>>
              n == Len(graph.file[f].parts)
              scans == [p \in PartsOf(f) |-> ScanPart(f, p)]
  <2>1. css \in Seq(ShakeCalls) /\ ElementsOf(css) = {MarkFile(g) : g \in {graph.file[f].css} \ {NoFile}}
    <3>1. CASE graph.file[f].css = NoFile
      BY <3>1, ElementsOfNone
    <3>2. CASE graph.file[f].css # NoFile
      <4>1. MarkFile(graph.file[f].css) \in ShakeCalls
        BY <3>2, GraphFacts DEF MarkFile, ShakeCalls
      <4>2. ElementsOf(<<MarkFile(graph.file[f].css)>>) = {MarkFile(graph.file[f].css)}
            /\ <<MarkFile(graph.file[f].css)>> \in Seq(ShakeCalls)
        BY <4>1, ElementsOfOne, Zenon
      <4>. QED BY <3>2, <4>2
    <3>. QED BY <3>1, <3>2
  <2>2. scans \in [1..n -> ShakeCalls] /\ n \in Nat
    BY GraphFacts DEF ScanPart, ShakeCalls, PartsOf
  <2>3. scans \in Seq(ShakeCalls) /\ ElementsOf(scans) = {scans[p] : p \in 1..n}
    <3>. HIDE DEF scans, n
    <3>. QED BY <2>2, ElementsOfTable
  <2>4. {scans[p] : p \in 1..n} = {ScanPart(f, p) : p \in PartsOf(f)}
    BY DEF PartsOf
  <2>5. FileBody(f) = css \o scans
    BY <1>1 DEF FileBody
  <2>6. FileBody(f) \in Seq(ShakeCalls) /\ ElementsOf(FileBody(f)) = ElementsOf(css) \cup ElementsOf(scans)
    <3>1. css \in Seq(ShakeCalls) /\ scans \in Seq(ShakeCalls)
      BY <2>1, <2>3
    <3>. HIDE DEF css, scans
    <3>2. css \o scans \in Seq(ShakeCalls)
          /\ ElementsOf(css \o scans) = ElementsOf(css) \cup ElementsOf(scans)
      BY <3>1, ElementsOfConcat
    <3>. QED BY <2>5, <3>2
  <2>. QED BY <1>1, <2>1, <2>3, <2>4, <2>6
<1>2. CASE graph.file[f].kind = "css"
  <2>. DEFINE n == Len(graph.file[f].records)
              follows == [r \in 1..n |-> FollowRecord(f, r)]
  <2>1. follows \in [1..n -> ShakeCalls] /\ n \in Nat
    BY GraphFacts DEF FollowRecord, ShakeCalls
  <2>2. follows \in Seq(ShakeCalls) /\ ElementsOf(follows) = {follows[r] : r \in 1..n}
    <3>. HIDE DEF follows, n
    <3>. QED BY <2>1, ElementsOfTable
  <2>3. FileBody(f) = follows
    BY <1>2 DEF FileBody
  <2>. QED BY <1>2, <2>2, <2>3 DEF RecordsOf
<1>3. CASE graph.file[f].kind = "copy"
  BY <1>3, ElementsOfNone DEF FileBody
<1>. QED BY <1>1, <1>2, <1>3, GraphFacts

LEMMA ScanBodyCalls ==
    ASSUME graph \in Graphs, NEW f \in Files, NEW p \in PartsOf(f)
    PROVE  /\ ScanBody(f, p) \in Seq(ShakeCalls)
           /\ ElementsOf(ScanBody(f, p)) =
                 {FollowRecord(f, RecordAt(f, p, i)) : i \in 1..Len(Part(f, p).records)}
                 \cup (IF Kept(f, p) THEN {MarkPart(f, p)} ELSE {})
<1>. DEFINE n == Len(Part(f, p).records)
            follows == [i \in 1..n |-> FollowRecord(f, RecordAt(f, p, i))]
            mark == IF Kept(f, p) THEN <<MarkPart(f, p)>> ELSE <<>>
<1>1. follows \in Seq(ShakeCalls)
      /\ ElementsOf(follows) = {FollowRecord(f, RecordAt(f, p, i)) : i \in 1..n}
  <2>1. follows \in [1..n -> ShakeCalls] /\ n \in Nat
    BY GraphFacts DEF FollowRecord, ShakeCalls, RecordsOf
  <2>2. follows \in Seq(ShakeCalls) /\ ElementsOf(follows) = {follows[i] : i \in 1..n}
    <3>. HIDE DEF follows, n
    <3>. QED BY <2>1, ElementsOfTable
  <2>. QED BY <2>2
<1>2. mark \in Seq(ShakeCalls) /\ ElementsOf(mark) = IF Kept(f, p) THEN {MarkPart(f, p)} ELSE {}
  <2>1. MarkPart(f, p) \in ShakeCalls
    BY GraphFacts DEF MarkPart, ShakeCalls, PartsOf
  <2>2. <<MarkPart(f, p)>> \in Seq(ShakeCalls) /\ ElementsOf(<<MarkPart(f, p)>>) = {MarkPart(f, p)}
    BY <2>1, ElementsOfOne, Zenon
  <2>. QED BY <2>2, ElementsOfNone
<1>3. ScanBody(f, p) = follows \o mark
  BY DEF ScanBody, RecordAt
<1>4. ScanBody(f, p) \in Seq(ShakeCalls)
      /\ ElementsOf(ScanBody(f, p)) = ElementsOf(follows) \cup ElementsOf(mark)
  <2>1. follows \in Seq(ShakeCalls) /\ mark \in Seq(ShakeCalls)
    BY <1>1, <1>2
  <2>. HIDE DEF follows, mark
  <2>2. follows \o mark \in Seq(ShakeCalls)
        /\ ElementsOf(follows \o mark) = ElementsOf(follows) \cup ElementsOf(mark)
    BY <2>1, ElementsOfConcat
  <2>. QED BY <1>3, <2>2
<1>. QED BY <1>1, <1>2, <1>4

LEMMA PartBodyCalls ==
    ASSUME graph \in Graphs, NEW f \in Files, NEW p \in PartsOf(f)
    PROVE  /\ PartBody(f, p) \in Seq(ShakeCalls)
           /\ ElementsOf(PartBody(f, p)) =
                 {MarkFile(f)} \cup {MarkPart(UseAt(f, p, d).file, UseAt(f, p, d).part) :
                                       d \in 1..Len(Part(f, p).dependencies)}
<1>. DEFINE n == Len(Part(f, p).dependencies)
            marks == [d \in 1..n |-> MarkPart(UseAt(f, p, d).file, UseAt(f, p, d).part)]
            own == <<MarkFile(f)>>
<1>1. marks \in Seq(ShakeCalls)
      /\ ElementsOf(marks) = {MarkPart(UseAt(f, p, d).file, UseAt(f, p, d).part) : d \in 1..n}
  <2>1. marks \in [1..n -> ShakeCalls] /\ n \in Nat
    BY GraphFacts DEF MarkPart, ShakeCalls, PartsOf
  <2>2. marks \in Seq(ShakeCalls) /\ ElementsOf(marks) = {marks[d] : d \in 1..n}
    <3>. HIDE DEF marks, n
    <3>. QED BY <2>1, ElementsOfTable
  <2>. QED BY <2>2
<1>2. own \in Seq(ShakeCalls) /\ ElementsOf(own) = {MarkFile(f)}
  <2>1. MarkFile(f) \in ShakeCalls
    BY DEF MarkFile, ShakeCalls
  <2>. QED BY <2>1, ElementsOfOne, Zenon
<1>3. PartBody(f, p) = own \o marks
  BY DEF PartBody, UseAt
<1>4. PartBody(f, p) \in Seq(ShakeCalls)
      /\ ElementsOf(PartBody(f, p)) = ElementsOf(own) \cup ElementsOf(marks)
  <2>1. own \in Seq(ShakeCalls) /\ marks \in Seq(ShakeCalls)
    BY <1>1, <1>2
  <2>. HIDE DEF own, marks
  <2>2. own \o marks \in Seq(ShakeCalls)
        /\ ElementsOf(own \o marks) = ElementsOf(own) \cup ElementsOf(marks)
    BY <2>1, ElementsOfConcat
  <2>. QED BY <1>3, <2>2
<1>. QED BY <1>1, <1>2, <1>4

(* The calls for entry point b at distance d of what f leads to.           *)
LEMMA ReachBodyCalls ==
    ASSUME graph \in Graphs, NEW f \in Files, NEW b \in Nat, NEW d \in Nat
    PROVE  /\ ReachBody(f, b, d) \in Seq(WalkCalls)
           /\ ElementsOf(ReachBody(f, b, d)) =
                 (IF graph.file[f].kind = "js"
                     THEN {Reach(g, b, d) : g \in {graph.file[f].css} \ {NoFile}} ELSE {})
                 \cup (IF graph.file[f].kind # "copy"
                          THEN {ReachRecord(f, r, b, d) : r \in RecordsOf(f)} ELSE {})
                 \cup (IF graph.file[f].kind = "js"
                          THEN {ReachPart(f, p, b, d) : p \in PartsOf(f)} ELSE {})
<1>. DEFINE css == IF graph.file[f].kind = "js" /\ graph.file[f].css # NoFile
                   THEN <<Reach(graph.file[f].css, b, d)>> ELSE <<>>
            n == Len(graph.file[f].records)
            table == [r \in 1..n |-> ReachRecord(f, r, b, d)]
            records == IF graph.file[f].kind # "copy" THEN table ELSE <<>>
            m == Len(graph.file[f].parts)
            list == [p \in 1..m |-> ReachPart(f, p, b, d)]
            parts == IF graph.file[f].kind = "js" THEN list ELSE <<>>
<1>1. css \in Seq(WalkCalls)
      /\ ElementsOf(css) = IF graph.file[f].kind = "js"
                           THEN {Reach(g, b, d) : g \in {graph.file[f].css} \ {NoFile}} ELSE {}
  <2>1. CASE graph.file[f].kind = "js" /\ graph.file[f].css # NoFile
    <3>1. Reach(graph.file[f].css, b, d) \in WalkCalls
      BY <2>1, GraphFacts DEF Reach, WalkCalls
    <3>2. ElementsOf(<<Reach(graph.file[f].css, b, d)>>) = {Reach(graph.file[f].css, b, d)}
          /\ <<Reach(graph.file[f].css, b, d)>> \in Seq(WalkCalls)
      BY <3>1, ElementsOfOne, Zenon
    <3>. QED BY <2>1, <3>2
  <2>2. CASE ~(graph.file[f].kind = "js" /\ graph.file[f].css # NoFile)
    BY <2>2, ElementsOfNone
  <2>. QED BY <2>1, <2>2
<1>2. records \in Seq(WalkCalls)
      /\ ElementsOf(records) = IF graph.file[f].kind # "copy"
                               THEN {ReachRecord(f, r, b, d) : r \in 1..n} ELSE {}
  <2>1. table \in [1..n -> WalkCalls] /\ n \in Nat
    BY GraphFacts DEF ReachRecord, WalkCalls
  <2>2. table \in Seq(WalkCalls) /\ ElementsOf(table) = {table[r] : r \in 1..n}
    <3>. HIDE DEF table, n
    <3>. QED BY <2>1, ElementsOfTable
  <2>. QED BY <2>2, ElementsOfNone
<1>3. parts \in Seq(WalkCalls)
      /\ ElementsOf(parts) = IF graph.file[f].kind = "js"
                             THEN {ReachPart(f, p, b, d) : p \in 1..m} ELSE {}
  <2>1. list \in [1..m -> WalkCalls] /\ m \in Nat
    BY GraphFacts DEF ReachPart, WalkCalls
  <2>2. list \in Seq(WalkCalls) /\ ElementsOf(list) = {list[p] : p \in 1..m}
    <3>. HIDE DEF list, m
    <3>. QED BY <2>1, ElementsOfTable
  <2>. QED BY <2>2, ElementsOfNone
<1>4. ReachBody(f, b, d) = css \o records \o parts
  BY DEF ReachBody, PartsOf
<1>5. ReachBody(f, b, d) \in Seq(WalkCalls)
      /\ ElementsOf(ReachBody(f, b, d)) = ElementsOf(css) \cup ElementsOf(records) \cup ElementsOf(parts)
  <2>. DEFINE imports == css \o records
  <2>1. css \in Seq(WalkCalls) /\ records \in Seq(WalkCalls) /\ parts \in Seq(WalkCalls)
    BY <1>1, <1>2, <1>3
  <2>. HIDE DEF css, records, parts
  <2>2. imports \in Seq(WalkCalls)
        /\ ElementsOf(imports) = ElementsOf(css) \cup ElementsOf(records)
    BY <2>1, ElementsOfConcat
  <2>3. ReachBody(f, b, d) = imports \o parts
    BY <1>4
  <2>. HIDE DEF imports
  <2>4. imports \o parts \in Seq(WalkCalls)
        /\ ElementsOf(imports \o parts) = ElementsOf(imports) \cup ElementsOf(parts)
    BY <2>1, <2>2, ElementsOfConcat
  <2>. QED BY <2>2, <2>3, <2>4
<1>. QED BY <1>1, <1>2, <1>3, <1>5 DEF RecordsOf, PartsOf

(* The calls for what a part uses.                                         *)
UsesOf(f, p, b, d) == [i \in 1..Len(Part(f, p).dependencies) |-> ReachUse(f, p, i, b, d)]

LEMMA UseCalls ==
    ASSUME graph \in Graphs, NEW f \in Files, NEW p \in PartsOf(f), NEW b \in Nat, NEW d \in Nat
    PROVE  /\ UsesOf(f, p, b, d) \in Seq(WalkCalls)
           /\ \A x \in ElementsOf(UsesOf(f, p, b, d)) :
                  \E i \in 1..Len(Part(f, p).dependencies) : x = ReachUse(f, p, i, b, d)
           /\ \A i \in 1..Len(Part(f, p).dependencies) :
                  ReachUse(f, p, i, b, d) \in ElementsOf(UsesOf(f, p, b, d))
<1>. DEFINE n == Len(Part(f, p).dependencies)
            uses == UsesOf(f, p, b, d)
<1>1. uses \in [1..n -> WalkCalls] /\ n \in Nat
  BY GraphFacts DEF UsesOf, ReachUse, WalkCalls, PartsOf
<1>2. uses \in Seq(WalkCalls) /\ ElementsOf(uses) = {uses[i] : i \in 1..n}
  <2>. HIDE DEF uses, n
  <2>. QED BY <1>1, ElementsOfTable
<1>3. \A i \in 1..n : uses[i] = ReachUse(f, p, i, b, d)
  BY DEF UsesOf
<1>4. /\ \A x \in ElementsOf(uses) : \E i \in 1..n : x = ReachUse(f, p, i, b, d)
      /\ \A i \in 1..n : ReachUse(f, p, i, b, d) \in ElementsOf(uses)
  <2>. HIDE DEF uses, n
  <2>. QED BY <1>2, <1>3
<1>. QED BY <1>2, <1>4

-----------------------------------------------------------------------------
(* Types                                                                   *)

LEMMA EntryPointsAreFiles ==
    ASSUME graph \in Graphs, entries \in EntryPoints(graph)
    PROVE  entries \in Seq(Files)
<1>. DEFINE dynamic == DynamicTargets(graph) \ ElementsOf(graph.entries)
            n == Len(graph.entries)
            m == Cardinality(dynamic)
<1>1. n \in Nat
  <2>1. WellFormed(graph)
    BY GraphAssumption
  <2>2. graph.entries \in Seq(Files)
    BY <2>1 DEF WellFormed
  <2>. QED BY <2>2
<1>2. m \in Nat
  <2>1. dynamic \subseteq Files
    BY DEF DynamicTargets
  <2>2. IsFiniteSet(dynamic)
    BY <2>1, GraphAssumption, FS_Subset
  <2>. QED BY <2>2, FS_CardinalityType
<1>3. entries \in [1..(n + m) -> Files]
  BY DEF EntryPoints
<1>4. n + m \in Nat
  BY <1>1, <1>2
<1>. HIDE DEF n, m
<1>. QED BY <1>3, <1>4, ElementsOfTable

(* What the type invariant says of the stack and of the walk.              *)
StackOK(s) == s \in Seq(ShakeCalls) /\ \A c \in ElementsOf(s) : ShakeCallInRange(c)
WalkOK(w) == w \in Seq(WalkCalls) /\ \A c \in ElementsOf(w) : WalkCallInRange(c)

LEMMA StackStep ==
    ASSUME NEW s, StackOK(s), s # <<>>, NEW body, StackOK(body)
    PROVE  /\ Head(s) \in ShakeCalls /\ ShakeCallInRange(Head(s))
           /\ StackOK(body \o Tail(s))
           /\ ElementsOf(body \o Tail(s)) = ElementsOf(body) \cup ElementsOf(Tail(s))
           /\ ElementsOf(s) = {Head(s)} \cup ElementsOf(Tail(s))
<1>1. /\ Head(s) \in ShakeCalls /\ Head(s) \in ElementsOf(s)
      /\ Tail(s) \in Seq(ShakeCalls)
      /\ ElementsOf(s) = {Head(s)} \cup ElementsOf(Tail(s))
  BY ElementsOfTail DEF StackOK
<1>2. /\ body \o Tail(s) \in Seq(ShakeCalls)
      /\ ElementsOf(body \o Tail(s)) = ElementsOf(body) \cup ElementsOf(Tail(s))
  <2>. DEFINE rest == Tail(s)
  <2>1. body \in Seq(ShakeCalls) /\ rest \in Seq(ShakeCalls)
    BY <1>1 DEF StackOK
  <2>. HIDE DEF rest
  <2>2. /\ body \o rest \in Seq(ShakeCalls)
        /\ ElementsOf(body \o rest) = ElementsOf(body) \cup ElementsOf(rest)
    BY <2>1, ElementsOfConcat
  <2>. QED BY <2>2 DEF rest
<1>. QED BY <1>1, <1>2 DEF StackOK

LEMMA WalkStep ==
    ASSUME NEW w, WalkOK(w), w # <<>>, NEW body, WalkOK(body)
    PROVE  /\ Head(w) \in WalkCalls /\ WalkCallInRange(Head(w))
           /\ WalkOK(body \o Tail(w))
           /\ ElementsOf(body \o Tail(w)) = ElementsOf(body) \cup ElementsOf(Tail(w))
           /\ ElementsOf(w) = {Head(w)} \cup ElementsOf(Tail(w))
<1>1. /\ Head(w) \in WalkCalls /\ Head(w) \in ElementsOf(w)
      /\ Tail(w) \in Seq(WalkCalls)
      /\ ElementsOf(w) = {Head(w)} \cup ElementsOf(Tail(w))
  BY ElementsOfTail DEF WalkOK
<1>2. /\ body \o Tail(w) \in Seq(WalkCalls)
      /\ ElementsOf(body \o Tail(w)) = ElementsOf(body) \cup ElementsOf(Tail(w))
  <2>. DEFINE rest == Tail(w)
  <2>1. body \in Seq(WalkCalls) /\ rest \in Seq(WalkCalls)
    BY <1>1 DEF WalkOK
  <2>. HIDE DEF rest
  <2>2. /\ body \o rest \in Seq(WalkCalls)
        /\ ElementsOf(body \o rest) = ElementsOf(body) \cup ElementsOf(rest)
    BY <2>1, ElementsOfConcat
  <2>. QED BY <2>2 DEF rest
<1>. QED BY <1>1, <1>2 DEF WalkOK

LEMMA NothingToCall == StackOK(<<>>) /\ WalkOK(<<>>)
BY ElementsOfNone DEF StackOK, WalkOK

(* The bodies name what is in the graph.                                   *)
LEMMA ShakeBodiesInRange ==
    ASSUME graph \in Graphs, NEW f \in Files
    PROVE  /\ StackOK(FileBody(f))
           /\ \A p \in PartsOf(f) : StackOK(ScanBody(f, p)) /\ StackOK(PartBody(f, p))
           /\ StackOK(<<MarkFile(f)>>)
<1>1. StackOK(FileBody(f))
  BY FileBodyCalls, GraphFacts DEF StackOK, ShakeCallInRange, MarkFile, ScanPart, FollowRecord, RecordsOf
<1>2. ASSUME NEW p \in PartsOf(f) PROVE StackOK(ScanBody(f, p))
  BY ScanBodyCalls, GraphFacts DEF StackOK, ShakeCallInRange, MarkPart, FollowRecord, RecordsOf
<1>3. ASSUME NEW p \in PartsOf(f) PROVE StackOK(PartBody(f, p))
  BY PartBodyCalls, GraphFacts DEF StackOK, ShakeCallInRange, MarkPart, MarkFile
<1>4. StackOK(<<MarkFile(f)>>)
  <2>1. MarkFile(f) \in ShakeCalls /\ ShakeCallInRange(MarkFile(f))
    BY DEF MarkFile, ShakeCalls, ShakeCallInRange
  <2>2. <<MarkFile(f)>> \in Seq(ShakeCalls) /\ ElementsOf(<<MarkFile(f)>>) = {MarkFile(f)}
    BY <2>1, ElementsOfOne, Zenon
  <2>. QED BY <2>1, <2>2 DEF StackOK
<1>. QED BY <1>1, <1>2, <1>3, <1>4

LEMMA WalkBodiesInRange ==
    ASSUME graph \in Graphs, NEW f \in Files, NEW b \in Nat, NEW d \in Nat
    PROVE  /\ WalkOK(ReachBody(f, b, d))
           /\ WalkOK(<<Reach(f, b, d)>>)
           /\ \A p \in PartsOf(f) : WalkOK(UsesOf(f, p, b, d))
<1>1. WalkOK(ReachBody(f, b, d))
  <2>1. \A g : WalkCallInRange(Reach(g, b, d))
    BY DEF WalkCallInRange, Reach
  <2>2. \A r \in RecordsOf(f) : WalkCallInRange(ReachRecord(f, r, b, d))
    BY DEF WalkCallInRange, ReachRecord, RecordsOf
  <2>3. \A p \in PartsOf(f) : WalkCallInRange(ReachPart(f, p, b, d))
    BY DEF WalkCallInRange, ReachPart
  <2>4. \A c \in ElementsOf(ReachBody(f, b, d)) :
           \/ \E g : c = Reach(g, b, d)
           \/ \E r \in RecordsOf(f) : c = ReachRecord(f, r, b, d)
           \/ \E p \in PartsOf(f) : c = ReachPart(f, p, b, d)
    BY ReachBodyCalls
  <2>5. \A c \in ElementsOf(ReachBody(f, b, d)) : WalkCallInRange(c)
    BY <2>1, <2>2, <2>3, <2>4
  <2>. QED BY <2>5, ReachBodyCalls DEF WalkOK
<1>2. WalkOK(<<Reach(f, b, d)>>)
  <2>1. Reach(f, b, d) \in WalkCalls /\ WalkCallInRange(Reach(f, b, d))
    BY DEF Reach, WalkCalls, WalkCallInRange
  <2>2. <<Reach(f, b, d)>> \in Seq(WalkCalls) /\ ElementsOf(<<Reach(f, b, d)>>) = {Reach(f, b, d)}
    BY <2>1, ElementsOfOne, Zenon
  <2>. QED BY <2>1, <2>2 DEF WalkOK
<1>3. ASSUME NEW p \in PartsOf(f)
      PROVE  WalkOK(UsesOf(f, p, b, d))
  <2>. DEFINE n == Len(Part(f, p).dependencies)
              uses == UsesOf(f, p, b, d)
  <2>1. /\ uses \in Seq(WalkCalls)
        /\ \A x \in ElementsOf(uses) : \E i \in 1..n : x = ReachUse(f, p, i, b, d)
    BY UseCalls
  <2>2. \A i \in 1..n : WalkCallInRange(ReachUse(f, p, i, b, d))
    BY DEF WalkCallInRange, ReachUse
  <2>. HIDE DEF uses
  <2>3. WalkOK(uses)
    BY <2>1, <2>2 DEF WalkOK
  <2>. QED BY <2>3 DEF uses
<1>. QED BY <1>1, <1>2, <1>3

LEMMA EntryCalls ==
    ASSUME entries \in Seq(Files)
    PROVE  LET marks == [i \in 1..Len(entries) |-> MarkFile(entries[i])]
               starts == [i \in 1..Len(entries) |-> Reach(entries[i], i, 0)]
           IN  /\ StackOK(marks)
               /\ ElementsOf(marks) = {MarkFile(f) : f \in ElementsOf(entries)}
               /\ WalkOK(starts)
               /\ ElementsOf(starts) = {Reach(entries[i], i, 0) : i \in 1..Len(entries)}
<1>. DEFINE n == Len(entries)
            marks == [i \in 1..n |-> MarkFile(entries[i])]
            starts == [i \in 1..n |-> Reach(entries[i], i, 0)]
<1>1. marks \in [1..n -> ShakeCalls] /\ starts \in [1..n -> WalkCalls] /\ n \in Nat
  BY DEF MarkFile, ShakeCalls, Reach, WalkCalls
<1>2. marks \in Seq(ShakeCalls) /\ ElementsOf(marks) = {marks[i] : i \in 1..n}
  <2>. HIDE DEF marks, n
  <2>. QED BY <1>1, ElementsOfTable
<1>3. starts \in Seq(WalkCalls) /\ ElementsOf(starts) = {starts[i] : i \in 1..n}
  <2>. HIDE DEF starts, n
  <2>. QED BY <1>1, ElementsOfTable
<1>4. ElementsOf(marks) = {MarkFile(f) : f \in ElementsOf(entries)}
  BY <1>2 DEF ElementsOf
<1>5. \A f : ShakeCallInRange(MarkFile(f))
  BY DEF ShakeCallInRange, MarkFile
<1>6. \A f, i : WalkCallInRange(Reach(f, i, 0))
  BY DEF WalkCallInRange, Reach
<1>7. StackOK(marks)
  <2>. HIDE DEF marks
  <2>. QED BY <1>2, <1>4, <1>5 DEF StackOK
<1>8. ElementsOf(starts) = {Reach(entries[i], i, 0) : i \in 1..n}
  BY <1>3
<1>9. WalkOK(starts)
  <2>. HIDE DEF starts
  <2>. QED BY <1>3, <1>8, <1>6 DEF WalkOK
<1>. QED BY <1>4, <1>7, <1>8, <1>9

(* The call at the top of the stack, and what it names.                    *)
LEMMA StackTop ==
    ASSUME ShakeTypeOK, stack # <<>>
    PROVE  /\ Head(stack) \in ShakeCalls
           /\ Head(stack).op \in {"part", "scan"} => Head(stack).part \in PartsOf(Head(stack).file)
           /\ Head(stack).op = "follow" => Head(stack).at \in RecordsOf(Head(stack).file)
BY StackStep, NothingToCall DEF ShakeTypeOK, StackOK, ShakeCallInRange, RecordsOf

LEMMA WalkTop ==
    ASSUME ShakeTypeOK, walk # <<>>
    PROVE  /\ Head(walk) \in WalkCalls
           /\ Head(walk).op = "record" => Head(walk).at \in RecordsOf(Head(walk).file)
           /\ Head(walk).op \in {"part", "use"} => Head(walk).at \in PartsOf(Head(walk).file)
           /\ Head(walk).op = "use" =>
                 Head(walk).by \in 1..Len(Part(Head(walk).file, Head(walk).at).dependencies)
BY WalkStep, NothingToCall DEF ShakeTypeOK, WalkOK, WalkCallInRange, RecordsOf

(* The range of a call depends on the graph alone.                         *)
LEMMA RangesStay ==
    ASSUME graph' = graph
    PROVE  /\ \A c : ShakeCallInRange(c)' <=> ShakeCallInRange(c)
           /\ \A c : WalkCallInRange(c)' <=> WalkCallInRange(c)
           /\ GraphParts' = GraphParts
BY DEF ShakeCallInRange, WalkCallInRange, PartsOf, Part, GraphParts

(* Every variable keeps its type, for every scanned graph.                 *)
THEOREM ShakeTypeCorrect == Spec => []ShakeTypeOK
<1>1. Init => ShakeTypeOK
  <2>. SUFFICES ASSUME Init PROVE ShakeTypeOK
    OBVIOUS
  <2>1. entries \in Seq(Files)
    BY EntryPointsAreFiles DEF Init
  <2>2. StackOK(stack) /\ WalkOK(walk)
    BY <2>1, EntryCalls, NothingToCall DEF Init
  <2>. QED BY <2>1, <2>2, GraphAssumption DEF Init, ShakeTypeOK, StackOK, WalkOK
<1>2. ShakeTypeOK /\ [Next]_vars => ShakeTypeOK'
  <2>. SUFFICES ASSUME ShakeTypeOK, [Next]_vars PROVE ShakeTypeOK'
    OBVIOUS
  <2>. USE RangesStay
  <2>1. CASE MarkPartLive
    <3>. DEFINE f == Head(stack).file
                p == Head(stack).part
    <3>1. f \in Files /\ p \in PartsOf(f) /\ stack # <<>>
      BY <2>1, StackTop DEF MarkPartLive, Shaking, ShakeCalls
    <3>2. <<f, p>> \in GraphParts
      BY <3>1 DEF GraphParts
    <3>3. PICK body : StackOK(body) /\ stack' = body \o Tail(stack)
      BY <2>1, <3>1, ShakeBodiesInRange, NothingToCall DEF MarkPartLive, Continue, ShakeTypeOK
    <3>4. StackOK(stack')
      BY <3>1, <3>3, StackStep DEF ShakeTypeOK, StackOK
    <3>. QED BY <2>1, <3>2, <3>4 DEF MarkPartLive, ShakeTypeOK, StackOK
  <2>2. CASE MarkFileLive
    <3>. DEFINE f == Head(stack).file
    <3>1. f \in Files /\ stack # <<>>
      BY <2>2, StackTop DEF MarkFileLive, Shaking, ShakeCalls
    <3>2. PICK body : StackOK(body) /\ stack' = body \o Tail(stack)
      BY <2>2, <3>1, ShakeBodiesInRange, NothingToCall DEF MarkFileLive, Continue, ShakeTypeOK
    <3>3. StackOK(stack')
      BY <3>1, <3>2, StackStep DEF ShakeTypeOK, StackOK
    <3>. QED BY <2>2, <3>1, <3>3 DEF MarkFileLive, ShakeTypeOK, StackOK
  <2>3. CASE ScanOnePart
    <3>. DEFINE f == Head(stack).file
                p == Head(stack).part
    <3>1. f \in Files /\ p \in PartsOf(f) /\ stack # <<>>
      BY <2>3, StackTop DEF ScanOnePart, Shaking, ShakeCalls
    <3>2. PICK body : StackOK(body) /\ stack' = body \o Tail(stack)
      BY <2>3, <3>1, ShakeBodiesInRange DEF ScanOnePart, Continue, ShakeTypeOK
    <3>3. StackOK(stack')
      BY <3>1, <3>2, StackStep DEF ShakeTypeOK, StackOK
    <3>. QED BY <2>3, <3>3 DEF ScanOnePart, ShakeTypeOK, StackOK
  <2>4. CASE FollowOneRecord
    <3>. DEFINE f == Head(stack).file
                r == Head(stack).at
    <3>1. f \in Files /\ r \in RecordsOf(f) /\ stack # <<>>
      BY <2>4, StackTop DEF FollowOneRecord, Shaking, ShakeCalls
    <3>2. Followed(f, r) => Record(f, r).target \in Files
      BY <3>1, GraphFacts DEF Followed, ShakeTypeOK
    <3>3. PICK body : StackOK(body) /\ stack' = body \o Tail(stack)
      BY <2>4, <3>2, ShakeBodiesInRange, NothingToCall DEF FollowOneRecord, Continue, ShakeTypeOK
    <3>4. StackOK(stack')
      BY <3>1, <3>3, StackStep DEF ShakeTypeOK, StackOK
    <3>. QED BY <2>4, <3>4 DEF FollowOneRecord, ShakeTypeOK, StackOK
  <2>5. CASE StartSplitting
    <3>1. WalkOK(walk')
      BY <2>5, EntryCalls DEF StartSplitting, ShakeTypeOK
    <3>. QED BY <2>5, <3>1 DEF StartSplitting, ShakeTypeOK, WalkOK
  <2>6. CASE MarkFileReachable
    <3>. DEFINE f == Head(walk).file
                b == Head(walk).bit
                d == Head(walk).dist
                e == (d + 1) % (FarAway + 1)
    <3>1. f \in Files /\ b \in Nat /\ d \in Nat /\ walk # <<>>
      BY <2>6, WalkTop DEF MarkFileReachable, Splitting, WalkCalls
    <3>2. e \in Nat
      BY <3>1, GraphAssumption
    <3>3. WalkOK(ReachBody(f, b, e))
      BY <3>1, <3>2, WalkBodiesInRange DEF ShakeTypeOK
    <3>4. PICK body : WalkOK(body) /\ walk' = body \o Tail(walk)
      BY <2>6, <3>3, NothingToCall DEF MarkFileReachable, Proceed
    <3>5. WalkOK(walk')
      BY <3>1, <3>4, WalkStep DEF ShakeTypeOK, WalkOK
    <3>6. bits' \in [Files -> SUBSET Nat] /\ distance' \in [Files -> Nat]
      BY <2>6, <3>1 DEF MarkFileReachable, ShakeTypeOK
    <3>. QED BY <2>6, <3>5, <3>6 DEF MarkFileReachable, ShakeTypeOK, WalkOK
  <2>7. CASE ReachOneRecord
    <3>. DEFINE c == Head(walk)
    <3>1. c.file \in Files /\ c.at \in RecordsOf(c.file) /\ c.bit \in Nat /\ c.dist \in Nat /\ walk # <<>>
      BY <2>7, WalkTop DEF ReachOneRecord, Splitting, WalkCalls
    <3>2. Record(c.file, c.at).target # NoFile => Record(c.file, c.at).target \in Files
      BY <3>1, GraphFacts DEF ShakeTypeOK
    <3>3. PICK body : WalkOK(body) /\ walk' = body \o Tail(walk)
      BY <2>7, <3>1, <3>2, WalkBodiesInRange, NothingToCall DEF ReachOneRecord, Proceed, ShakeTypeOK
    <3>4. WalkOK(walk')
      BY <3>1, <3>3, WalkStep DEF ShakeTypeOK, WalkOK
    <3>. QED BY <2>7, <3>4 DEF ReachOneRecord, ShakeTypeOK, WalkOK
  <2>8. CASE ReachOnePart
    <3>. DEFINE c == Head(walk)
    <3>1. c.file \in Files /\ c.at \in PartsOf(c.file) /\ c.bit \in Nat /\ c.dist \in Nat /\ walk # <<>>
      BY <2>8, WalkTop DEF ReachOnePart, Splitting, WalkCalls
    <3>2. PICK body : WalkOK(body) /\ walk' = body \o Tail(walk)
      BY <2>8, <3>1, WalkBodiesInRange DEF ReachOnePart, Proceed, UsesOf, ShakeTypeOK
    <3>3. WalkOK(walk')
      BY <3>1, <3>2, WalkStep DEF ShakeTypeOK, WalkOK
    <3>. QED BY <2>8, <3>3 DEF ReachOnePart, ShakeTypeOK, WalkOK
  <2>9. CASE ReachOneUse
    <3>. DEFINE c == Head(walk)
                to == Part(c.file, c.at).dependencies[c.by].file
    <3>1. /\ c.file \in Files /\ c.at \in PartsOf(c.file) /\ c.bit \in Nat /\ c.dist \in Nat
          /\ c.by \in 1..Len(Part(c.file, c.at).dependencies) /\ walk # <<>>
      BY <2>9, WalkTop DEF ReachOneUse, Splitting, WalkCalls
    <3>2. to \in Files
      BY <3>1, GraphFacts DEF UseAt, ShakeTypeOK
    <3>3. PICK body : WalkOK(body) /\ walk' = body \o Tail(walk)
      BY <2>9, <3>1, <3>2, WalkBodiesInRange, NothingToCall DEF ReachOneUse, Proceed, ShakeTypeOK
    <3>4. WalkOK(walk')
      BY <3>1, <3>3, WalkStep DEF ShakeTypeOK, WalkOK
    <3>. QED BY <2>9, <3>4 DEF ReachOneUse, ShakeTypeOK, WalkOK
  <2>10. CASE FinishSplitting
    BY <2>10 DEF FinishSplitting, ShakeTypeOK
  <2>11. CASE UNCHANGED vars
    BY <2>11 DEF vars, ShakeTypeOK
  <2>. QED BY <2>1, <2>2, <2>3, <2>4, <2>5, <2>6, <2>7, <2>8, <2>9, <2>10, <2>11 DEF Next
<1>. QED BY <1>1, <1>2, PTL DEF Spec

-----------------------------------------------------------------------------
(* Nothing needed is shaken off.  The invariant says of every marked file  *)
(* and part that what it needs is marked, or that the call that will mark  *)
(* it is pending: F and P are the marked files and parts, C the pending    *)
(* calls.                                                                  *)

FileDone(f, F, C) == f \in F \/ MarkFile(f) \in C
PartDone(f, p, P, C) == <<f, p>> \in P \/ MarkPart(f, p) \in C

RecordServed(f, r, F, C) == Followed(f, r) => FileDone(Record(f, r).target, F, C)
RecordDone(f, r, F, C) == FollowRecord(f, r) \in C \/ RecordServed(f, r, F, C)

ScanServed(f, p, F, P, C) ==
    /\ \A i \in 1..Len(Part(f, p).records) : RecordDone(f, RecordAt(f, p, i), F, C)
    /\ Kept(f, p) => PartDone(f, p, P, C)
ScanDone(f, p, F, P, C) == ScanPart(f, p) \in C \/ ScanServed(f, p, F, P, C)

FileServed(f, F, P, C) ==
    /\ graph.file[f].kind = "js" =>
           /\ graph.file[f].css # NoFile => FileDone(graph.file[f].css, F, C)
           /\ \A p \in PartsOf(f) : ScanDone(f, p, F, P, C)
    /\ graph.file[f].kind = "css" => \A r \in RecordsOf(f) : RecordDone(f, r, F, C)

PartServed(f, p, F, P, C) ==
    /\ FileDone(f, F, C)
    /\ \A d \in 1..Len(Part(f, p).dependencies) :
           PartDone(UseAt(f, p, d).file, UseAt(f, p, d).part, P, C)

AllServed(F, P, C) ==
    /\ \A f \in ElementsOf(entries) : FileDone(f, F, C)
    /\ \A f \in F : FileServed(f, F, P, C)
    /\ \A q \in P : PartServed(q[1], q[2], F, P, C)

(* The call c did its work: what it stands for is marked or pending.       *)
CallServed(c, F, P, C) ==
    /\ \A f : c = MarkFile(f) => f \in F
    /\ \A f, p : c = MarkPart(f, p) => <<f, p>> \in P
    /\ \A f, p : c = ScanPart(f, p) => ScanServed(f, p, F, P, C)
    /\ \A f, r : c = FollowRecord(f, r) => RecordServed(f, r, F, C)

(* A call that did its work can leave the stack.                           *)
LEMMA Progress ==
    ASSUME NEW F, NEW P, NEW C, NEW F2, NEW P2, NEW C2, NEW c,
           F \subseteq F2, P \subseteq P2, C \subseteq {c} \cup C2,
           CallServed(c, F2, P2, C2)
    PROVE  /\ \A f : FileDone(f, F, C) => FileDone(f, F2, C2)
           /\ \A f : FileServed(f, F, P, C) => FileServed(f, F2, P2, C2)
           /\ \A f, p : PartServed(f, p, F, P, C) => PartServed(f, p, F2, P2, C2)
<1>1. ASSUME NEW f, FileDone(f, F, C) PROVE FileDone(f, F2, C2)
  BY <1>1 DEF FileDone, CallServed
<1>2. ASSUME NEW f, NEW p, PartDone(f, p, P, C) PROVE PartDone(f, p, P2, C2)
  BY <1>2 DEF PartDone, CallServed
<1>3. ASSUME NEW f, NEW r, RecordDone(f, r, F, C) PROVE RecordDone(f, r, F2, C2)
  <2>1. CASE FollowRecord(f, r) \in C
    BY <2>1 DEF RecordDone, CallServed
  <2>2. CASE RecordServed(f, r, F, C)
    BY <2>2, <1>1 DEF RecordDone, RecordServed
  <2>. QED BY <1>3, <2>1, <2>2 DEF RecordDone
<1>4. ASSUME NEW f, NEW p, ScanDone(f, p, F, P, C) PROVE ScanDone(f, p, F2, P2, C2)
  <2>1. CASE ScanPart(f, p) \in C
    BY <2>1 DEF ScanDone, CallServed
  <2>2. CASE ScanServed(f, p, F, P, C)
    BY <2>2, <1>2, <1>3 DEF ScanDone, ScanServed
  <2>. QED BY <1>4, <2>1, <2>2 DEF ScanDone
<1>5. ASSUME NEW f, FileServed(f, F, P, C) PROVE FileServed(f, F2, P2, C2)
  BY <1>5, <1>1, <1>3, <1>4 DEF FileServed
<1>6. ASSUME NEW f, NEW p, PartServed(f, p, F, P, C) PROVE PartServed(f, p, F2, P2, C2)
  BY <1>6, <1>1, <1>2 DEF PartServed
<1>. QED BY <1>1, <1>5, <1>6

(* What a file or a part needs depends on the graph and the entry points   *)
(* alone.                                                                  *)
LEMMA NeedsStay ==
    ASSUME graph' = graph, entries' = entries
    PROVE  /\ \A f : PartsOf(f)' = PartsOf(f)
           /\ \A f : RecordsOf(f)' = RecordsOf(f)
           /\ \A f, r : Record(f, r)' = Record(f, r)
           /\ \A f, p : Part(f, p)' = Part(f, p)
           /\ \A f, r : Followed(f, r)' <=> Followed(f, r)
           /\ \A f, p : Kept(f, p)' <=> Kept(f, p)
<1>1. /\ \A f : PartsOf(f)' = PartsOf(f)
      /\ \A f : RecordsOf(f)' = RecordsOf(f)
      /\ \A f, r : Record(f, r)' = Record(f, r)
      /\ \A f, p : Part(f, p)' = Part(f, p)
  BY DEF PartsOf, RecordsOf, Record, Part
<1>2. \A f, r : Followed(f, r)' <=> Followed(f, r)
  BY <1>1 DEF Followed
<1>3. \A f, r : KeepsPart(f, r)' <=> KeepsPart(f, r)
  BY <1>1, <1>2 DEF KeepsPart
<1>4. \A f : IsEntry(f)' <=> IsEntry(f)
  BY DEF IsEntry, ElementsOf
<1>5. \A f, p : Kept(f, p)' <=> Kept(f, p)
  BY <1>1, <1>3, <1>4 DEF Kept
<1>. QED BY <1>1, <1>2, <1>5

LEMMA ServedStays ==
    ASSUME graph' = graph, entries' = entries, AllServed(liveFiles', liveParts', ElementsOf(stack'))
    PROVE  AllServed(liveFiles, liveParts, ElementsOf(stack))'
<1>. DEFINE C == ElementsOf(stack)
<1>1. AllServed(liveFiles', liveParts', C')
  BY DEF ElementsOf
<1>2. ElementsOf(entries)' = ElementsOf(entries)
  BY DEF ElementsOf
<1>. HIDE DEF C
<1>3. ASSUME NEW f PROVE FileServed(f, liveFiles', liveParts', C') => FileServed(f, liveFiles, liveParts, C)'
  BY NeedsStay DEF FileServed, ScanDone, ScanServed, RecordDone, RecordServed, FileDone,
                   PartDone, RecordAt, MarkFile, MarkPart, ScanPart, FollowRecord
<1>4. ASSUME NEW f, NEW p
      PROVE  PartServed(f, p, liveFiles', liveParts', C') => PartServed(f, p, liveFiles, liveParts, C)'
  BY NeedsStay DEF PartServed, FileDone, PartDone, UseAt, MarkFile, MarkPart
<1>5. AllServed(liveFiles, liveParts, C)'
  BY <1>1, <1>2, <1>3, <1>4 DEF AllServed, FileDone, MarkFile
<1>. QED BY <1>5 DEF C

ServedInv ==
    /\ AllServed(liveFiles, liveParts, ElementsOf(stack))
    /\ phase # "shake" => stack = <<>>

(* An action that runs the call at the top of the stack keeps what was     *)
(* served, and serves what it marks.                                       *)
LEMMA ServedStep ==
    ASSUME ShakeTypeOK, ServedInv, stack # <<>>, graph' = graph, entries' = entries,
           liveFiles \subseteq liveFiles', liveParts \subseteq liveParts',
           NEW body, StackOK(body), stack' = body \o Tail(stack),
           CallServed(Head(stack), liveFiles', liveParts', ElementsOf(stack')),
           \A f \in liveFiles' \ liveFiles :
               FileServed(f, liveFiles', liveParts', ElementsOf(stack')),
           \A q \in liveParts' \ liveParts :
               PartServed(q[1], q[2], liveFiles', liveParts', ElementsOf(stack'))
    PROVE  AllServed(liveFiles, liveParts, ElementsOf(stack))'
<1>. DEFINE C == ElementsOf(stack)
            C2 == ElementsOf(stack')
<1>1. C \subseteq {Head(stack)} \cup C2
  <2>1. StackOK(stack)
    BY DEF ShakeTypeOK, StackOK
  <2>2. /\ ElementsOf(body \o Tail(stack)) = ElementsOf(body) \cup ElementsOf(Tail(stack))
        /\ ElementsOf(stack) = {Head(stack)} \cup ElementsOf(Tail(stack))
    BY <2>1, StackStep
  <2>. QED BY <2>2
<1>2. AllServed(liveFiles, liveParts, C)
  BY DEF ServedInv
<1>. HIDE DEF C, C2
<1>3. /\ \A f : FileDone(f, liveFiles, C) => FileDone(f, liveFiles', C2)
      /\ \A f : FileServed(f, liveFiles, liveParts, C) => FileServed(f, liveFiles', liveParts', C2)
      /\ \A f, p : PartServed(f, p, liveFiles, liveParts, C)
                       => PartServed(f, p, liveFiles', liveParts', C2)
  BY <1>1, Progress DEF C2
<1>4. AllServed(liveFiles', liveParts', C2)
  BY <1>2, <1>3 DEF AllServed, C2
<1>. QED BY <1>4, ServedStays DEF C2

(* Every file and part that the walk marked has, or will have, what it     *)
(* needs, for every scanned graph.                                         *)
LEMMA ServedCorrect == Spec => []ServedInv
<1>1. Init => ServedInv
  <2>. SUFFICES ASSUME Init PROVE ServedInv
    OBVIOUS
  <2>1. entries \in Seq(Files)
    BY EntryPointsAreFiles DEF Init
  <2>2. ElementsOf(stack) = {MarkFile(f) : f \in ElementsOf(entries)}
    BY <2>1, EntryCalls DEF Init
  <2>3. liveFiles = {} /\ liveParts = {} /\ phase = "shake"
    BY DEF Init
  <2>. QED BY <2>2, <2>3 DEF ServedInv, AllServed, FileDone
<1>2. ShakeTypeOK /\ ServedInv /\ [Next]_vars => ServedInv'
  <2>. SUFFICES ASSUME ShakeTypeOK, ServedInv, [Next]_vars PROVE ServedInv'
    OBVIOUS
  <2>. DEFINE C2 == ElementsOf(stack')
              c == Head(stack)
  <2>0. graph \in Graphs
    BY DEF ShakeTypeOK
  <2>1. CASE MarkPartLive
    <3>. DEFINE f == c.file
                p == c.part
                body == IF <<f, p>> \in liveParts THEN <<>> ELSE PartBody(f, p)
    <3>1. f \in Files /\ p \in PartsOf(f) /\ stack # <<>> /\ c.op = "part"
      BY <2>1, StackTop DEF MarkPartLive, Shaking, ShakeCalls
    <3>2. StackOK(body) /\ stack' = body \o Tail(stack)
      BY <2>0, <2>1, <3>1, ShakeBodiesInRange, NothingToCall DEF MarkPartLive, Continue
    <3>3. liveFiles' = liveFiles /\ liveParts' = liveParts \cup {<<f, p>>}
          /\ graph' = graph /\ entries' = entries /\ phase' = phase /\ phase = "shake"
      BY <2>1 DEF MarkPartLive, Shaking
    <3>4. ElementsOf(body) \subseteq C2
      <4>1. StackOK(stack)
        BY DEF ShakeTypeOK, StackOK
      <4>. HIDE DEF body
      <4>. QED BY <3>1, <3>2, <4>1, StackStep
    <3>5. CallServed(c, liveFiles', liveParts', C2)
      BY <3>1, <3>3 DEF CallServed, MarkFile, MarkPart, ScanPart, FollowRecord
    <3>6. <<f, p>> \notin liveParts => PartServed(f, p, liveFiles', liveParts', C2)
      BY <2>0, <3>1, <3>4, PartBodyCalls DEF PartServed, FileDone, PartDone
    <3>7. \A q \in liveParts' \ liveParts : PartServed(q[1], q[2], liveFiles', liveParts', C2)
      BY <3>3, <3>6
    <3>. HIDE DEF body, c
    <3>8. AllServed(liveFiles, liveParts, ElementsOf(stack))'
      BY <3>1, <3>2, <3>3, <3>5, <3>7, ServedStep DEF c
    <3>. QED BY <3>3, <3>8 DEF ServedInv
  <2>2. CASE MarkFileLive
    <3>. DEFINE f == c.file
                body == IF f \in liveFiles THEN <<>> ELSE FileBody(f)
    <3>1. f \in Files /\ stack # <<>> /\ c.op = "file"
      BY <2>2, StackTop DEF MarkFileLive, Shaking, ShakeCalls
    <3>2. StackOK(body) /\ stack' = body \o Tail(stack)
      BY <2>0, <2>2, <3>1, ShakeBodiesInRange, NothingToCall DEF MarkFileLive, Continue
    <3>3. liveFiles' = liveFiles \cup {f} /\ liveParts' = liveParts
          /\ graph' = graph /\ entries' = entries /\ phase' = phase /\ phase = "shake"
      BY <2>2 DEF MarkFileLive, Shaking
    <3>4. ElementsOf(body) \subseteq C2
      <4>1. StackOK(stack)
        BY DEF ShakeTypeOK, StackOK
      <4>. HIDE DEF body
      <4>. QED BY <3>1, <3>2, <4>1, StackStep
    <3>5. CallServed(c, liveFiles', liveParts', C2)
      BY <3>1, <3>3 DEF CallServed, MarkFile, MarkPart, ScanPart, FollowRecord
    <3>6. f \notin liveFiles => FileServed(f, liveFiles', liveParts', C2)
      BY <2>0, <3>1, <3>4, FileBodyCalls DEF FileServed, FileDone, ScanDone, RecordDone
    <3>7. \A g \in liveFiles' \ liveFiles : FileServed(g, liveFiles', liveParts', C2)
      BY <3>3, <3>6
    <3>. HIDE DEF body, c
    <3>8. AllServed(liveFiles, liveParts, ElementsOf(stack))'
      BY <3>1, <3>2, <3>3, <3>5, <3>7, ServedStep DEF c
    <3>. QED BY <3>3, <3>8 DEF ServedInv
  <2>3. CASE ScanOnePart
    <3>. DEFINE f == c.file
                p == c.part
                body == ScanBody(f, p)
    <3>1. f \in Files /\ p \in PartsOf(f) /\ stack # <<>> /\ c.op = "scan"
      BY <2>3, StackTop DEF ScanOnePart, Shaking, ShakeCalls
    <3>2. StackOK(body) /\ stack' = body \o Tail(stack)
      BY <2>0, <2>3, <3>1, ShakeBodiesInRange DEF ScanOnePart, Continue
    <3>3. liveFiles' = liveFiles /\ liveParts' = liveParts
          /\ graph' = graph /\ entries' = entries /\ phase' = phase /\ phase = "shake"
      BY <2>3 DEF ScanOnePart, Shaking
    <3>4. ElementsOf(body) \subseteq C2
      <4>1. StackOK(stack)
        BY DEF ShakeTypeOK, StackOK
      <4>. HIDE DEF body
      <4>. QED BY <3>1, <3>2, <4>1, StackStep
    <3>5. ScanServed(f, p, liveFiles', liveParts', C2)
      BY <2>0, <3>1, <3>4, ScanBodyCalls DEF ScanServed, RecordDone, PartDone
    <3>6. CallServed(c, liveFiles', liveParts', C2)
      BY <3>1, <3>5 DEF CallServed, MarkFile, MarkPart, ScanPart, FollowRecord
    <3>. HIDE DEF body, c
    <3>7. AllServed(liveFiles, liveParts, ElementsOf(stack))'
      BY <3>1, <3>2, <3>3, <3>6, ServedStep DEF c
    <3>. QED BY <3>3, <3>7 DEF ServedInv
  <2>4. CASE FollowOneRecord
    <3>. DEFINE f == c.file
                r == c.at
                body == IF Followed(f, r) THEN <<MarkFile(Record(f, r).target)>> ELSE <<>>
    <3>1. f \in Files /\ r \in RecordsOf(f) /\ stack # <<>> /\ c.op = "follow"
      BY <2>4, StackTop DEF FollowOneRecord, Shaking, ShakeCalls
    <3>2. Followed(f, r) => Record(f, r).target \in Files
      BY <2>0, <3>1, GraphFacts DEF Followed
    <3>3. StackOK(body) /\ stack' = body \o Tail(stack)
      BY <2>0, <2>4, <3>2, ShakeBodiesInRange, NothingToCall DEF FollowOneRecord, Continue
    <3>4. liveFiles' = liveFiles /\ liveParts' = liveParts
          /\ graph' = graph /\ entries' = entries /\ phase' = phase /\ phase = "shake"
      BY <2>4 DEF FollowOneRecord, Shaking
    <3>5. ElementsOf(body) \subseteq C2
      <4>1. StackOK(stack)
        BY DEF ShakeTypeOK, StackOK
      <4>. HIDE DEF body
      <4>. QED BY <3>1, <3>3, <4>1, StackStep
    <3>6. Followed(f, r) => MarkFile(Record(f, r).target) \in ElementsOf(body)
      <4>1. \A x : x \in ElementsOf(<<x>>)
        BY ElementsOfOne, Zenon
      <4>. QED BY <4>1
    <3>7. RecordServed(f, r, liveFiles', C2)
      BY <3>5, <3>6 DEF RecordServed, FileDone
    <3>8. CallServed(c, liveFiles', liveParts', C2)
      BY <3>1, <3>7 DEF CallServed, MarkFile, MarkPart, ScanPart, FollowRecord
    <3>. HIDE DEF body, c
    <3>9. AllServed(liveFiles, liveParts, ElementsOf(stack))'
      BY <3>1, <3>3, <3>4, <3>8, ServedStep DEF c
    <3>. QED BY <3>4, <3>9 DEF ServedInv
  <2>5. CASE UNCHANGED <<graph, entries, stack, liveFiles, liveParts>> /\ (stack = <<>> \/ phase' = phase)
    <3>1. AllServed(liveFiles', liveParts', ElementsOf(stack'))
      BY <2>5 DEF ServedInv
    <3>. QED BY <2>5, <3>1, ServedStays DEF ServedInv
  <2>6. CASE StartSplitting
    BY <2>5, <2>6 DEF StartSplitting
  <2>7. CASE MarkFileReachable \/ ReachOneRecord \/ ReachOnePart \/ ReachOneUse
    BY <2>5, <2>7 DEF MarkFileReachable, ReachOneRecord, ReachOnePart, ReachOneUse
  <2>8. CASE FinishSplitting
    BY <2>5, <2>8 DEF FinishSplitting, ServedInv
  <2>9. CASE UNCHANGED vars
    BY <2>5, <2>9 DEF vars
  <2>. QED BY <2>1, <2>2, <2>3, <2>4, <2>6, <2>7, <2>8, <2>9 DEF Next
<1>. QED BY <1>1, <1>2, ShakeTypeCorrect, PTL DEF Spec

(* Nothing that is needed is shaken off, for every scanned graph.          *)
THEOREM NothingNeededIsShaken == Spec => []LiveIsClosed
<1>1. ShakeTypeOK /\ ServedInv => LiveIsClosed
  <2>. SUFFICES ASSUME ShakeTypeOK, ServedInv, phase # "shake" PROVE Closed(liveFiles, liveParts)
    BY DEF LiveIsClosed
  <2>1. ElementsOf(stack) = {}
    BY ElementsOfNone DEF ServedInv
  <2>2. AllServed(liveFiles, liveParts, {})
    BY <2>1 DEF ServedInv
  <2>3. ElementsOf(entries) \subseteq liveFiles
    BY <2>2 DEF AllServed, FileDone
  <2>4. ASSUME NEW f \in liveFiles PROVE NeedsOfFile(f, liveFiles, liveParts)
    <3>1. FileServed(f, liveFiles, liveParts, {})
      BY <2>2 DEF AllServed
    <3>. QED BY <3>1 DEF FileServed, NeedsOfFile, ScanDone, ScanServed, RecordDone, RecordServed,
                         FileDone, PartDone, RecordAt, RecordsOf
  <2>5. ASSUME NEW q \in liveParts PROVE NeedsOfPart(q[1], q[2], liveFiles, liveParts)
    BY <2>2 DEF AllServed, PartServed, FileDone, PartDone, NeedsOfPart, UseAt
  <2>. QED BY <2>3, <2>4, <2>5 DEF Closed
<1>. QED BY <1>1, ServedCorrect, ShakeTypeCorrect, PTL

-----------------------------------------------------------------------------
(* Nothing is kept without a reason.  The invariant adds to LiveIsNeeded   *)
(* that every pending call asks for something that is needed.              *)

CallNeeded(c, F, P) ==
    /\ c.op \in {"file", "scan"} => c.file \in F
    /\ c.op = "part" => <<c.file, c.part>> \in P
    /\ c.op = "follow" /\ Followed(c.file, c.at) => Record(c.file, c.at).target \in F

CallsNeeded(F, P) == \A c \in ElementsOf(stack) : CallNeeded(c, F, P)

NeededInv ==
    \A F \in SUBSET Files : \A P \in SUBSET GraphParts :
        Closed(F, P) => /\ liveFiles \subseteq F /\ liveParts \subseteq P
                        /\ CallsNeeded(F, P)

LEMMA ClosedStays ==
    ASSUME graph' = graph, entries' = entries, NEW F, NEW P
    PROVE  Closed(F, P)' <=> Closed(F, P)
<1>1. ElementsOf(entries)' = ElementsOf(entries)
  BY DEF ElementsOf
<1>2. \A f : NeedsOfFile(f, F, P)' <=> NeedsOfFile(f, F, P)
  BY NeedsStay DEF NeedsOfFile, RecordsOf
<1>3. \A f, p : NeedsOfPart(f, p, F, P)' <=> NeedsOfPart(f, p, F, P)
  BY NeedsStay DEF NeedsOfPart
<1>. QED BY <1>1, <1>2, <1>3 DEF Closed

(* The calls of a body are needed if what runs it is.                      *)
LEMMA BodiesNeeded ==
    ASSUME graph \in Graphs, NEW F \in SUBSET Files, NEW P \in SUBSET GraphParts, Closed(F, P)
    PROVE  /\ \A f \in F : \A c \in ElementsOf(FileBody(f)) : CallNeeded(c, F, P)
           /\ \A f \in F : \A p \in PartsOf(f) :
                  \A c \in ElementsOf(ScanBody(f, p)) : CallNeeded(c, F, P)
           /\ \A f \in Files : \A p \in PartsOf(f) : <<f, p>> \in P =>
                  \A c \in ElementsOf(PartBody(f, p)) : CallNeeded(c, F, P)
<1>1. \A g \in F : CallNeeded(MarkFile(g), F, P)
  BY DEF CallNeeded, MarkFile
<1>2. ASSUME NEW f \in F, NEW c \in ElementsOf(FileBody(f)) PROVE CallNeeded(c, F, P)
  <2>1. NeedsOfFile(f, F, P)
    BY DEF Closed
  <2>2. CASE graph.file[f].kind = "js"
    <3>1. graph.file[f].css # NoFile => graph.file[f].css \in F
      BY <2>1, <2>2 DEF NeedsOfFile
    <3>2. \A p : CallNeeded(ScanPart(f, p), F, P)
      BY DEF CallNeeded, ScanPart
    <3>. QED BY <2>2, <3>1, <3>2, <1>1, FileBodyCalls
  <2>3. CASE graph.file[f].kind = "css"
    <3>1. \A r \in RecordsOf(f) : CallNeeded(FollowRecord(f, r), F, P)
      BY <2>1, <2>3 DEF NeedsOfFile, CallNeeded, FollowRecord, RecordsOf
    <3>. QED BY <2>3, <3>1, FileBodyCalls
  <2>4. CASE graph.file[f].kind = "copy"
    BY <2>4, FileBodyCalls
  <2>. QED BY <2>2, <2>3, <2>4, GraphFacts
<1>3. ASSUME NEW f \in F, NEW p \in PartsOf(f), NEW c \in ElementsOf(ScanBody(f, p))
      PROVE  CallNeeded(c, F, P)
  <2>1. NeedsOfFile(f, F, P) /\ graph.file[f].kind = "js"
    BY GraphFacts DEF Closed
  <2>2. \A i \in 1..Len(Part(f, p).records) : CallNeeded(FollowRecord(f, RecordAt(f, p, i)), F, P)
    BY <2>1 DEF NeedsOfFile, CallNeeded, FollowRecord, RecordAt
  <2>3. Kept(f, p) => CallNeeded(MarkPart(f, p), F, P)
    BY <2>1 DEF NeedsOfFile, CallNeeded, MarkPart
  <2>. QED BY <2>2, <2>3, ScanBodyCalls
<1>4. ASSUME NEW f \in Files, NEW p \in PartsOf(f), <<f, p>> \in P, NEW c \in ElementsOf(PartBody(f, p))
      PROVE  CallNeeded(c, F, P)
  <2>1. NeedsOfPart(f, p, F, P)
    BY <1>4 DEF Closed
  <2>2. \A d \in 1..Len(Part(f, p).dependencies) :
            CallNeeded(MarkPart(UseAt(f, p, d).file, UseAt(f, p, d).part), F, P)
    BY <2>1 DEF NeedsOfPart, CallNeeded, MarkPart, UseAt
  <2>3. CallNeeded(MarkFile(f), F, P)
    BY <2>1, <1>1 DEF NeedsOfPart
  <2>. QED BY <2>2, <2>3, PartBodyCalls
<1>. QED BY <1>2, <1>3, <1>4

(* Whatever keeps all that is needed keeps what the walk marked, for every *)
(* scanned graph.                                                          *)
THEOREM NothingIsKeptInVain == Spec => []LiveIsNeeded
<1>1. Init => NeededInv
  <2>. SUFFICES ASSUME Init, NEW F \in SUBSET Files, NEW P \in SUBSET GraphParts, Closed(F, P)
                PROVE  /\ liveFiles \subseteq F /\ liveParts \subseteq P
                       /\ CallsNeeded(F, P)
    BY DEF NeededInv
  <2>1. entries \in Seq(Files)
    BY EntryPointsAreFiles DEF Init
  <2>2. ElementsOf(stack) = {MarkFile(f) : f \in ElementsOf(entries)}
    BY <2>1, EntryCalls DEF Init
  <2>3. liveFiles = {} /\ liveParts = {}
    BY DEF Init
  <2>4. \A f \in F : CallNeeded(MarkFile(f), F, P)
    BY DEF CallNeeded, MarkFile
  <2>. QED BY <2>2, <2>3, <2>4 DEF Closed, CallsNeeded
<1>2. ShakeTypeOK /\ NeededInv /\ [Next]_vars => NeededInv'
  <2>. SUFFICES ASSUME ShakeTypeOK, NeededInv, [Next]_vars,
                       NEW F \in SUBSET Files, NEW P \in (SUBSET GraphParts)', Closed(F, P)'
                PROVE  /\ liveFiles' \subseteq F /\ liveParts' \subseteq P
                       /\ CallsNeeded(F, P)'
    BY DEF NeededInv
  <2>0. graph' = graph /\ entries' = entries
    BY DEF Next, MarkPartLive, MarkFileLive, ScanOnePart, FollowOneRecord, StartSplitting,
           MarkFileReachable, ReachOneRecord, ReachOnePart, ReachOneUse, FinishSplitting, vars
  <2>1. P \in SUBSET GraphParts /\ Closed(F, P) /\ graph \in Graphs
    BY <2>0, RangesStay, ClosedStays DEF ShakeTypeOK
  <2>2. liveFiles \subseteq F /\ liveParts \subseteq P /\ CallsNeeded(F, P)
    BY <2>1 DEF NeededInv
  <2>. DEFINE c == Head(stack)
              f == c.file
              p == c.part
  <2>3. stack # <<>> => /\ CallNeeded(c, F, P)
                        /\ \A e \in ElementsOf(Tail(stack)) : CallNeeded(e, F, P)
    <3>1. StackOK(stack)
      BY DEF ShakeTypeOK, StackOK
    <3>. QED BY <2>2, <3>1, NothingToCall, StackStep DEF CallsNeeded
  <2>4. ASSUME stack # <<>>, NEW body, StackOK(body), stack' = body \o Tail(stack),
               \A e \in ElementsOf(body) : CallNeeded(e, F, P)
        PROVE  CallsNeeded(F, P)'
    <3>1. StackOK(stack)
      BY DEF ShakeTypeOK, StackOK
    <3>2. ElementsOf(stack') = ElementsOf(body) \cup ElementsOf(Tail(stack))
      BY <2>4, <3>1, StackStep
    <3>3. \A e \in ElementsOf(stack') : CallNeeded(e, F, P)
      BY <2>3, <2>4, <3>2
    <3>4. \A e : CallNeeded(e, F, P)' <=> CallNeeded(e, F, P)
      BY <2>0, NeedsStay DEF CallNeeded
    <3>5. ElementsOf(stack') = ElementsOf(stack)'
      BY DEF ElementsOf
    <3>. QED BY <3>3, <3>4, <3>5 DEF CallsNeeded
  <2>5. \A e \in ElementsOf(<<>>) : CallNeeded(e, F, P)
    BY ElementsOfNone
  <2>6. CASE MarkPartLive
    <3>1. f \in Files /\ p \in PartsOf(f) /\ stack # <<>> /\ c.op = "part"
      BY <2>6, StackTop DEF MarkPartLive, Shaking, ShakeCalls
    <3>2. <<f, p>> \in P
      BY <2>3, <3>1 DEF CallNeeded
    <3>3. PICK body : StackOK(body) /\ stack' = body \o Tail(stack)
                      /\ \A e \in ElementsOf(body) : CallNeeded(e, F, P)
      BY <2>1, <2>5, <2>6, <3>1, <3>2, BodiesNeeded, ShakeBodiesInRange, NothingToCall
         DEF MarkPartLive, Continue
    <3>4. CallsNeeded(F, P)'
      BY <2>4, <3>1, <3>3
    <3>. QED BY <2>2, <2>6, <3>2, <3>4 DEF MarkPartLive
  <2>7. CASE MarkFileLive
    <3>1. f \in Files /\ stack # <<>> /\ c.op = "file"
      BY <2>7, StackTop DEF MarkFileLive, Shaking, ShakeCalls
    <3>2. f \in F
      BY <2>3, <3>1 DEF CallNeeded
    <3>3. PICK body : StackOK(body) /\ stack' = body \o Tail(stack)
                      /\ \A e \in ElementsOf(body) : CallNeeded(e, F, P)
      BY <2>1, <2>5, <2>7, <3>1, <3>2, BodiesNeeded, ShakeBodiesInRange, NothingToCall
         DEF MarkFileLive, Continue
    <3>4. CallsNeeded(F, P)'
      BY <2>4, <3>1, <3>3
    <3>. QED BY <2>2, <2>7, <3>2, <3>4 DEF MarkFileLive
  <2>8. CASE ScanOnePart
    <3>1. f \in Files /\ p \in PartsOf(f) /\ stack # <<>> /\ c.op = "scan"
      BY <2>8, StackTop DEF ScanOnePart, Shaking, ShakeCalls
    <3>2. f \in F
      BY <2>3, <3>1 DEF CallNeeded
    <3>3. StackOK(ScanBody(f, p)) /\ stack' = ScanBody(f, p) \o Tail(stack)
          /\ \A e \in ElementsOf(ScanBody(f, p)) : CallNeeded(e, F, P)
      BY <2>1, <2>8, <3>1, <3>2, BodiesNeeded, ShakeBodiesInRange DEF ScanOnePart, Continue
    <3>4. CallsNeeded(F, P)'
      BY <2>4, <3>1, <3>3
    <3>. QED BY <2>2, <2>8, <3>4 DEF ScanOnePart
  <2>9. CASE FollowOneRecord
    <3>. DEFINE r == c.at
                body == IF Followed(f, r) THEN <<MarkFile(Record(f, r).target)>> ELSE <<>>
    <3>1. f \in Files /\ r \in RecordsOf(f) /\ stack # <<>> /\ c.op = "follow"
      BY <2>9, StackTop DEF FollowOneRecord, Shaking, ShakeCalls
    <3>2. Followed(f, r) => Record(f, r).target \in Files /\ Record(f, r).target \in F
      BY <2>3, <3>1 DEF CallNeeded
    <3>3. StackOK(body) /\ stack' = body \o Tail(stack)
      BY <2>1, <2>9, <3>2, ShakeBodiesInRange, NothingToCall DEF FollowOneRecord, Continue
    <3>4. \A g : ElementsOf(<<MarkFile(g)>>) = {MarkFile(g)}
      BY ElementsOfOne, Zenon
    <3>5. \A e \in ElementsOf(body) : CallNeeded(e, F, P)
      <4>1. \A g \in F : CallNeeded(MarkFile(g), F, P)
        BY DEF CallNeeded, MarkFile
      <4>. QED BY <2>5, <3>2, <3>4, <4>1
    <3>. HIDE DEF body
    <3>6. CallsNeeded(F, P)'
      BY <2>4, <3>1, <3>3, <3>5
    <3>. QED BY <2>2, <2>9, <3>6 DEF FollowOneRecord
  <2>10. CASE UNCHANGED <<stack, liveFiles, liveParts>>
    <3>1. \A e : CallNeeded(e, F, P)' <=> CallNeeded(e, F, P)
      BY <2>0, NeedsStay DEF CallNeeded
    <3>2. ElementsOf(stack)' = ElementsOf(stack)
      BY <2>10 DEF ElementsOf
    <3>. QED BY <2>2, <2>10, <3>1, <3>2 DEF CallsNeeded
  <2>. QED BY <2>6, <2>7, <2>8, <2>9, <2>10 DEF Next, StartSplitting, MarkFileReachable,
              ReachOneRecord, ReachOnePart, ReachOneUse, FinishSplitting, vars
<1>3. NeededInv => LiveIsNeeded
  BY DEF NeededInv, LiveIsNeeded
<1>. QED BY <1>1, <1>2, <1>3, ShakeTypeCorrect, PTL DEF Spec

-----------------------------------------------------------------------------
(* Induction over natural numbers, for sets and for functions defined by   *)
(* recursion.                                                              *)

LEMMA NatMin == ASSUME NEW T \in SUBSET Nat, T # {} PROVE \E m \in T : \A n \in T : m <= n
<1>. DEFINE R == {r \in Nat \X Nat : r[1] < r[2]}
<1>1. IsWellFoundedOn(R, Nat)
  BY NatLessThanWellFounded DEF OpToRel
<1>2. PICK m \in T : \A n \in T : ~ (<<n, m>> \in R)
  BY <1>1, WFMin
<1>3. ASSUME NEW n \in T PROVE m <= n
  <2>1. ~ (<<n, m>> \in R)
    BY <1>2
  <2>2. ~ (n < m)
    BY <2>1
  <2>. QED  BY <2>2
<1>. QED  BY <1>3

LEMMA NatSets == ASSUME NEW T \in SUBSET Nat, 0 \in T, \A n \in T : n + 1 \in T PROVE T = Nat
<1>. SUFFICES ASSUME T # Nat PROVE FALSE
  OBVIOUS
<1>1. PICK m \in Nat \ T : \A n \in Nat \ T : m <= n
  BY NatMin
<1>2. m # 0 /\ m - 1 \in Nat
  BY <1>1
<1>3. m - 1 \in T
  BY <1>1, <1>2
<1>. QED  BY <1>1, <1>2, <1>3

(* Applying a function again and again makes a sequence.                   *)
LEMMA Iterates ==
    ASSUME NEW X, NEW x \in X, NEW F \in [X -> X]
    PROVE  \E g \in [Nat -> X] : g[0] = x /\ \A i \in Nat : g[i + 1] = F[g[i]]
<1>. DEFINE Good(h, n) == h \in [0..n -> X] /\ h[0] = x /\ \A i \in 1..n : h[i] = F[h[i - 1]]
<1>1. \A n \in Nat : \E h : Good(h, n)
  <2>. DEFINE T == {n \in Nat : \E h : Good(h, n)}
  <2>1. 0 \in T
    <3>1. Good([i \in 0..0 |-> x], 0)
      OBVIOUS
    <3>. QED BY <3>1
  <2>2. ASSUME NEW n \in T PROVE n + 1 \in T
    <3>1. PICK h : Good(h, n)
      OBVIOUS
    <3>. DEFINE k == [i \in 0..(n + 1) |-> IF i = n + 1 THEN F[h[n]] ELSE h[i]]
    <3>2. h[n] \in X /\ F[h[n]] \in X
      BY <3>1
    <3>3. k \in [0..(n + 1) -> X] /\ k[0] = x /\ k[n + 1] = F[h[n]] /\ \A i \in 0..n : k[i] = h[i]
      <4>1. n \in Nat
        OBVIOUS
      <4>2. \A i \in 0..(n + 1) : i = n + 1 \/ i \in 0..n
        BY <4>1
      <4>3. \A i \in 0..n : h[i] \in X
        BY <3>1
      <4>. QED BY <3>1, <3>2, <4>1, <4>2, <4>3
    <3>. HIDE DEF k
    <3>4. ASSUME NEW i \in 1..(n + 1) PROVE k[i] = F[k[i - 1]]
      <4>1. CASE i = n + 1
        BY <3>3, <4>1
      <4>2. CASE i # n + 1
        <5>1. i \in 1..n /\ i \in 0..n /\ i - 1 \in 0..n
          BY <4>2
        <5>. QED BY <3>1, <3>3, <5>1
      <4>. QED BY <4>1, <4>2
    <3>5. Good(k, n + 1)
      BY <3>3, <3>4
    <3>6. \E h2 : Good(h2, n + 1)
      BY <3>5
    <3>. HIDE DEF Good
    <3>. QED BY <3>6
  <2>. HIDE DEF T
  <2>3. T \in SUBSET Nat
    BY DEF T
  <2>4. T = Nat
    BY <2>1, <2>2, <2>3, NatSets
  <2>. QED BY <2>4 DEF T
<1>2. ASSUME NEW h, NEW n \in Nat, NEW k, NEW m \in Nat, Good(h, n), Good(k, m)
      PROVE  \A i \in Nat : i <= n /\ i <= m => h[i] = k[i]
  <2>. DEFINE T == {i \in Nat : i <= n /\ i <= m => h[i] = k[i]}
  <2>1. 0 \in T
    BY <1>2
  <2>2. ASSUME NEW i \in T PROVE i + 1 \in T
    <3>. SUFFICES ASSUME i + 1 <= n, i + 1 <= m PROVE h[i + 1] = k[i + 1]
      OBVIOUS
    <3>1. i + 1 \in 1..n /\ i + 1 \in 1..m /\ (i + 1) - 1 = i /\ h[i] = k[i]
      OBVIOUS
    <3>. QED BY <1>2, <3>1
  <2>. HIDE DEF T
  <2>3. T \in SUBSET Nat
    BY DEF T
  <2>4. T = Nat
    BY <2>1, <2>2, <2>3, NatSets
  <2>. QED BY <2>4 DEF T
<1>. DEFINE H(n) == CHOOSE h : Good(h, n)
            g == [n \in Nat |-> H(n)[n]]
<1>. HIDE DEF Good
<1>3. \A n \in Nat : Good(H(n), n)
  BY <1>1
<1>. HIDE DEF H
<1>4. g \in [Nat -> X]
  <2>1. ASSUME NEW n \in Nat PROVE H(n)[n] \in X
    BY <1>3 DEF Good
  <2>. QED BY <2>1
<1>5. g[0] = x
  BY <1>3 DEF Good
<1>6. ASSUME NEW i \in Nat PROVE g[i + 1] = F[g[i]]
  <2>1. H(i + 1)[i] = H(i)[i]
    BY <1>2, <1>3
  <2>2. H(i + 1)[i + 1] = F[H(i + 1)[i]]
    <3>1. i + 1 \in 1..(i + 1) /\ (i + 1) - 1 = i
      OBVIOUS
    <3>. QED BY <1>3, <3>1 DEF Good
  <2>. QED BY <2>1, <2>2
<1>. QED BY <1>4, <1>5, <1>6

(* What can only grow, up to a bound, is complete after as many steps.     *)
Saturates(X, g, size, N, F) ==
    /\ g \in [Nat -> X] /\ size \in [X -> Nat] /\ N \in Nat /\ F \in [X -> X]
    /\ \A i \in Nat : g[i + 1] = F[g[i]]
    /\ \A i \in Nat : size[g[i]] <= N
    /\ \A i \in Nat : g[i + 1] = g[i] \/ size[g[i + 1]] > size[g[i]]

LEMMA Saturation ==
    ASSUME NEW X, NEW g, NEW size, NEW N, NEW F, Saturates(X, g, size, N, F)
    PROVE  g[N + 1] = g[N]
<1>. USE DEF Saturates
<1>. DEFINE T == {i \in Nat : g[i + 1] = g[i] \/ size[g[i]] >= i}
<1>1. \A i \in Nat : size[g[i]] \in Nat
  OBVIOUS
<1>2. 0 \in T
  BY <1>1
<1>3. ASSUME NEW i \in T PROVE i + 1 \in T
  <2>1. i \in Nat /\ i + 1 \in Nat
    OBVIOUS
  <2>2. CASE g[i + 1] = g[i]
    <3>1. g[(i + 1) + 1] = F[g[i + 1]] /\ g[i + 1] = F[g[i]]
      BY <2>1
    <3>. QED BY <2>1, <2>2, <3>1
  <2>3. CASE g[i + 1] # g[i]
    <3>1. size[g[i]] >= i /\ size[g[i + 1]] > size[g[i]]
      BY <2>3
    <3>. QED BY <1>1, <2>1, <3>1
  <2>. QED BY <2>2, <2>3
<1>. HIDE DEF T
<1>4. T \in SUBSET Nat
  BY DEF T
<1>5. N \in T
  BY <1>2, <1>3, <1>4, NatSets
<1>6. size[g[N + 1]] <= N /\ size[g[N + 1]] \in Nat /\ size[g[N]] \in Nat
  BY <1>1
<1>. QED BY <1>5, <1>6 DEF T

-----------------------------------------------------------------------------
(* What is needed in some number of steps                                  *)

Wants == [files : SUBSET Files, parts : SUBSET GraphParts]

RecordsRead(f) ==
    IF graph.file[f].kind = "css" THEN RecordsOf(f)
    ELSE UNION {ElementsOf(Part(f, p).records) : p \in PartsOf(f)}

LEMMA NeededNextIs ==
    ASSUME NEW w
    PROVE  /\ \A f : f \in NeededNext(w).files <=>
                 \/ f \in w.files
                 \/ f # NoFile /\ \E g \in w.files : f = graph.file[g].css
                 \/ \E g \in w.files : \E r \in RecordsRead(g) :
                        Followed(g, r) /\ f = Record(g, r).target
                 \/ \E q \in w.parts : f = q[1]
           /\ \A q : q \in NeededNext(w).parts <=>
                 \/ q \in w.parts
                 \/ \E f \in w.files : \E p \in PartsOf(f) : Kept(f, p) /\ q = <<f, p>>
                 \/ \E x \in w.parts : \E d \in ElementsOf(Part(x[1], x[2]).dependencies) :
                        q = <<d.file, d.part>>
<1>. DEFINE css == {graph.file[f].css : f \in w.files} \ {NoFile}
            imported == UNION {{Record(f, r).target : r \in
                           {r \in RecordsRead(f) : Followed(f, r)}} : f \in w.files}
            kept == UNION {{<<f, p>> : p \in {p \in PartsOf(f) : Kept(f, p)}} : f \in w.files}
            used == UNION {{<<d.file, d.part>> :
                           d \in ElementsOf(Part(q[1], q[2]).dependencies)} : q \in w.parts}
<1>1. NeededNext(w) = [files |-> w.files \cup css \cup imported \cup {q[1] : q \in w.parts},
                       parts |-> w.parts \cup kept \cup used]
  BY DEF NeededNext, RecordsRead, RecordsOf
<1>2. \A f : f \in imported <=> \E g \in w.files : \E r \in RecordsRead(g) :
                        Followed(g, r) /\ f = Record(g, r).target
  OBVIOUS
<1>3. \A q : q \in kept <=> \E f \in w.files : \E p \in PartsOf(f) : Kept(f, p) /\ q = <<f, p>>
  OBVIOUS
<1>4. \A q : q \in used <=> \E x \in w.parts : \E d \in ElementsOf(Part(x[1], x[2]).dependencies) :
                        q = <<d.file, d.part>>
  OBVIOUS
<1>5. \A f : f \in css <=> f # NoFile /\ \E g \in w.files : f = graph.file[g].css
  OBVIOUS
<1>6. NeededNext(w).files = w.files \cup css \cup imported \cup {q[1] : q \in w.parts}
  BY <1>1
<1>7. NeededNext(w).parts = w.parts \cup kept \cup used
  BY <1>1
<1>. HIDE DEF css, imported, kept, used
<1>. QED BY <1>2, <1>3, <1>4, <1>5, <1>6, <1>7

LEMMA RecordsReadAre ==
    ASSUME graph \in Graphs, NEW f \in Files, NEW r \in RecordsRead(f)
    PROVE  /\ r \in RecordsOf(f)
           /\ Followed(f, r) => Record(f, r).target \in Files
<1>1. r \in RecordsOf(f)
  <2>1. CASE graph.file[f].kind = "css"
    BY <2>1 DEF RecordsRead
  <2>2. CASE graph.file[f].kind # "css"
    <3>1. PICK p \in PartsOf(f) : r \in ElementsOf(Part(f, p).records)
      BY <2>2 DEF RecordsRead
    <3>2. PICK i \in 1..Len(Part(f, p).records) : r = RecordAt(f, p, i)
      BY <3>1 DEF ElementsOf, RecordAt
    <3>. QED BY <3>2, GraphFacts
  <2>. QED BY <2>1, <2>2
<1>2. Record(f, r).target \in Files \cup {NoFile}
  BY <1>1, GraphFacts
<1>. QED BY <1>1, <1>2 DEF Followed

(* Whatever holds all that is needed holds what is needed one step further.*)
LEMMA NeededStaysIn ==
    ASSUME graph \in Graphs, NEW F \in SUBSET Files, NEW P \in SUBSET GraphParts, Closed(F, P),
           NEW w, w.files \subseteq F, w.parts \subseteq P
    PROVE  NeededNext(w).files \subseteq F /\ NeededNext(w).parts \subseteq P
<1>1. ASSUME NEW g \in w.files, graph.file[g].css # NoFile PROVE graph.file[g].css \in F
  <2>1. g \in Files /\ NeedsOfFile(g, F, P)
    BY <1>1 DEF Closed
  <2>2. graph.file[g].kind = "js"
    BY <1>1, <2>1, GraphFacts
  <2>. QED BY <1>1, <2>1, <2>2 DEF NeedsOfFile
<1>2. ASSUME NEW g \in w.files, NEW r \in RecordsRead(g), Followed(g, r)
      PROVE  Record(g, r).target \in F
  <2>1. g \in Files /\ NeedsOfFile(g, F, P)
    BY DEF Closed
  <2>2. CASE graph.file[g].kind = "css"
    BY <1>2, <2>1, <2>2 DEF NeedsOfFile, RecordsRead, RecordsOf
  <2>3. CASE graph.file[g].kind # "css"
    <3>1. PICK p \in PartsOf(g) : r \in ElementsOf(Part(g, p).records)
      BY <2>3 DEF RecordsRead
    <3>2. PICK i \in 1..Len(Part(g, p).records) : r = Part(g, p).records[i]
      BY <3>1 DEF ElementsOf
    <3>3. graph.file[g].kind = "js"
      BY <2>1, <3>1, GraphFacts
    <3>. QED BY <1>2, <2>1, <3>2, <3>3 DEF NeedsOfFile
  <2>. QED BY <2>2, <2>3
<1>3. ASSUME NEW g \in w.files, NEW p \in PartsOf(g), Kept(g, p) PROVE <<g, p>> \in P
  <2>1. g \in Files /\ NeedsOfFile(g, F, P)
    BY DEF Closed
  <2>2. graph.file[g].kind = "js"
    BY <2>1, GraphFacts
  <2>. QED BY <1>3, <2>1, <2>2 DEF NeedsOfFile
<1>4. ASSUME NEW x \in w.parts
      PROVE  /\ x[1] \in F
             /\ \A d \in ElementsOf(Part(x[1], x[2]).dependencies) : <<d.file, d.part>> \in P
  BY DEF Closed, NeedsOfPart, ElementsOf
<1>. QED BY <1>1, <1>2, <1>3, <1>4, NeededNextIs

(* When one step further nothing more is needed, all that is needed is     *)
(* there.                                                                  *)
LEMMA CompleteIsClosed ==
    ASSUME graph \in Graphs, NEW w \in Wants, NeededNext(w) = w, ElementsOf(entries) \subseteq w.files
    PROVE  Closed(w.files, w.parts)
<1>0. w.files \subseteq Files /\ w.parts \subseteq GraphParts
  BY DEF Wants
<1>1. ASSUME NEW f \in w.files PROVE NeedsOfFile(f, w.files, w.parts)
  <2>1. f \in Files
    BY <1>0
  <2>2. graph.file[f].css # NoFile => graph.file[f].css \in w.files
    BY NeededNextIs
  <2>3. \A r \in RecordsRead(f) : Followed(f, r) => Record(f, r).target \in w.files
    BY NeededNextIs
  <2>4. \A p \in PartsOf(f) : Kept(f, p) => <<f, p>> \in w.parts
    BY NeededNextIs
  <2>5. ASSUME graph.file[f].kind # "css", NEW p \in PartsOf(f), NEW i \in 1..Len(Part(f, p).records)
        PROVE  Part(f, p).records[i] \in RecordsRead(f)
    BY <2>5 DEF RecordsRead, ElementsOf
  <2>6. graph.file[f].kind = "css" => RecordsRead(f) = 1..Len(graph.file[f].records)
    BY DEF RecordsRead, RecordsOf
  <2>. QED BY <2>2, <2>3, <2>4, <2>5, <2>6 DEF NeedsOfFile
<1>2. ASSUME NEW q \in w.parts PROVE NeedsOfPart(q[1], q[2], w.files, w.parts)
  <2>1. q[1] \in w.files
    BY NeededNextIs
  <2>2. ASSUME NEW d \in 1..Len(Part(q[1], q[2]).dependencies)
        PROVE  <<Part(q[1], q[2]).dependencies[d].file, Part(q[1], q[2]).dependencies[d].part>> \in w.parts
    <3>1. Part(q[1], q[2]).dependencies[d] \in ElementsOf(Part(q[1], q[2]).dependencies)
      BY DEF ElementsOf
    <3>. QED BY <3>1, NeededNextIs
  <2>. QED BY <2>1, <2>2 DEF NeedsOfPart
<1>. QED BY <1>1, <1>2 DEF Closed

LEMMA WantsGrow ==
    ASSUME graph \in Graphs, NEW w \in Wants
    PROVE  /\ NeededNext(w) \in Wants
           /\ w.files \subseteq NeededNext(w).files /\ w.parts \subseteq NeededNext(w).parts
<1>0. w.files \subseteq Files /\ w.parts \subseteq GraphParts
  BY DEF Wants
<1>1. ASSUME NEW f \in NeededNext(w).files PROVE f \in Files
  <2>1. CASE f \in w.files
    BY <1>0, <2>1
  <2>2. ASSUME f # NoFile, NEW g \in w.files, f = graph.file[g].css PROVE f \in Files
    BY <1>0, <2>2, GraphFacts
  <2>3. ASSUME NEW g \in w.files, NEW r \in RecordsRead(g), Followed(g, r), f = Record(g, r).target
        PROVE  f \in Files
    BY <1>0, <2>3, RecordsReadAre
  <2>4. ASSUME NEW q \in w.parts, f = q[1] PROVE f \in Files
    BY <1>0, <2>4 DEF GraphParts
  <2>. QED BY <1>1, <2>1, <2>2, <2>3, <2>4, NeededNextIs
<1>2. ASSUME NEW q \in NeededNext(w).parts PROVE q \in GraphParts
  <2>1. CASE q \in w.parts
    BY <1>0, <2>1
  <2>2. ASSUME NEW f \in w.files, NEW p \in PartsOf(f), q = <<f, p>> PROVE q \in GraphParts
    BY <1>0, <2>2 DEF GraphParts
  <2>3. ASSUME NEW x \in w.parts, NEW d \in ElementsOf(Part(x[1], x[2]).dependencies),
               q = <<d.file, d.part>>
        PROVE  q \in GraphParts
    <3>1. x[1] \in Files /\ x[2] \in PartsOf(x[1])
      BY <1>0 DEF GraphParts
    <3>2. PICK i \in 1..Len(Part(x[1], x[2]).dependencies) : d = UseAt(x[1], x[2], i)
      BY DEF ElementsOf, UseAt
    <3>3. d.file \in Files /\ d.part \in PartsOf(d.file)
      BY <3>1, <3>2, GraphFacts
    <3>. QED BY <2>3, <3>3 DEF GraphParts
  <2>. QED BY <1>2, <2>1, <2>2, <2>3, NeededNextIs
<1>3. \E F, P : NeededNext(w) = [files |-> F, parts |-> P]
  BY DEF NeededNext
<1>4. NeededNext(w) \in Wants
  BY <1>1, <1>2, <1>3 DEF Wants
<1>. QED BY <1>4, NeededNextIs

LEMMA WantsIterate ==
    ASSUME NEW y \in Wants, NEW G \in [Wants -> Wants]
    PROVE  \E g \in [Nat -> Wants] : g[0] = y /\ \A i \in Nat : g[i + 1] = G[g[i]]
BY Iterates

LEMMA NeededSteps ==
    ASSUME graph \in Graphs, entries \in Seq(Files)
    PROVE  \E g \in [Nat -> Wants] :
              /\ g[0] = [files |-> ElementsOf(entries), parts |-> {}]
              /\ \A i \in Nat : g[i + 1] = NeededNext(g[i])
              /\ \A n \in Nat : NeededIn(n) = g[n]
<1>. DEFINE x == [files |-> ElementsOf(entries), parts |-> {}]
            F == [w \in Wants |-> NeededNext(w)]
            needed == CHOOSE needed : needed = [i \in Nat |-> IF i = 0
                          THEN [files |-> ElementsOf(entries), parts |-> {}]
                          ELSE NeededNext(needed[i - 1])]
<1>1. x \in Wants
  <2>1. ElementsOf(entries) \subseteq Files
    BY DEF ElementsOf
  <2>. QED BY <2>1 DEF Wants
<1>2. F \in [Wants -> Wants]
  BY WantsGrow
<1>3. PICK g \in [Nat -> Wants] : g[0] = x /\ \A i \in Nat : g[i + 1] = F[g[i]]
  <2>. HIDE DEF F, x, needed
  <2>. QED BY <1>1, <1>2, WantsIterate
<1>4. \A i \in Nat : g[i + 1] = NeededNext(g[i])
  BY <1>3
<1>5. g = [i \in Nat |-> IF i = 0 THEN x ELSE NeededNext(g[i - 1])]
  <2>1. ASSUME NEW i \in Nat PROVE g[i] = IF i = 0 THEN x ELSE NeededNext(g[i - 1])
    <3>1. CASE i = 0
      BY <1>3, <3>1
    <3>2. CASE i # 0
      <4>1. i - 1 \in Nat /\ (i - 1) + 1 = i
        BY <3>2
      <4>. QED BY <1>4, <3>2, <4>1
    <3>. QED BY <3>1, <3>2
  <2>2. g = [i \in Nat |-> g[i]]
    OBVIOUS
  <2>. QED BY <2>1, <2>2
<1>6. needed = [i \in Nat |-> IF i = 0 THEN x ELSE NeededNext(needed[i - 1])]
  BY <1>5
<1>7. \A n \in Nat : NeededIn(n) = needed[n]
  BY DEF NeededIn
<1>. HIDE DEF needed, x
<1>8. \A i \in Nat : needed[i] = IF i = 0 THEN x ELSE NeededNext(needed[i - 1])
  <2>. DEFINE h == [i \in Nat |-> IF i = 0 THEN x ELSE NeededNext(needed[i - 1])]
  <2>1. \A i \in Nat : h[i] = IF i = 0 THEN x ELSE NeededNext(needed[i - 1])
    OBVIOUS
  <2>2. needed = h
    BY <1>6
  <2>. HIDE DEF h
  <2>. QED BY <2>1, <2>2
<1>9. \A i \in Nat : needed[i] = g[i]
  <2>. DEFINE T == {i \in Nat : needed[i] = g[i]}
  <2>1. 0 \in T
    BY <1>3, <1>8
  <2>2. ASSUME NEW i \in T PROVE i + 1 \in T
    <3>1. i + 1 \in Nat /\ i + 1 # 0 /\ (i + 1) - 1 = i /\ needed[i] = g[i]
      OBVIOUS
    <3>2. needed[i + 1] = NeededNext(needed[i])
      BY <1>8, <3>1
    <3>. QED BY <1>4, <3>1, <3>2
  <2>. HIDE DEF T
  <2>3. T \in SUBSET Nat
    BY DEF T
  <2>4. T = Nat
    BY <2>1, <2>2, <2>3, NatSets
  <2>. QED BY <2>4 DEF T
<1>. QED BY <1>3, <1>4, <1>7, <1>9 DEF x

LEMMA GraphIsFinite ==
    ASSUME graph \in Graphs
    PROVE  IsFiniteSet(Files) /\ IsFiniteSet(GraphParts)
<1>1. IsFiniteSet(Files)
  BY GraphAssumption
<1>2. ASSUME NEW f \in Files PROVE IsFiniteSet({f} \X PartsOf(f))
  <2>1. IsFiniteSet({f}) /\ IsFiniteSet(PartsOf(f))
    <3>1. Len(graph.file[f].parts) \in Int
      BY GraphFacts
    <3>2. IsFiniteSet(1..Len(graph.file[f].parts))
      BY <3>1, FS_Interval
    <3>. QED BY <3>2, FS_Singleton DEF PartsOf
  <2>. QED BY <2>1, FS_Product
<1>3. IsFiniteSet({{f} \X PartsOf(f) : f \in Files})
  <2>. DEFINE T == {{f} \X PartsOf(f) : f \in Files}
              h == [f \in Files |-> {f} \X PartsOf(f)]
  <2>1. h \in Surjection(Files, T)
    BY DEF Surjection
  <2>. HIDE DEF h, T
  <2>2. IsFiniteSet(T)
    BY <1>1, <2>1, FS_Surjection
  <2>. QED BY <2>2 DEF T
<1>4. IsFiniteSet(GraphParts)
  BY <1>2, <1>3, FS_UNION DEF GraphParts
<1>. QED BY <1>1, <1>4

(* Both walks over, what is kept is what is needed in as many steps as     *)
(* there are files and parts: no file and no part is kept in vain, and no  *)
(* longer chain of needs leads to another one.                             *)
THEOREM WhatIsKeptIsNeeded == Spec => []LiveIsExact
<1>1. ShakeTypeOK /\ LiveIsClosed /\ LiveIsNeeded => LiveIsExact
  <2>. SUFFICES ASSUME ShakeTypeOK, LiveIsClosed, LiveIsNeeded, phase = "done"
                PROVE  LET w == NeededIn(Cardinality(Files) + Cardinality(GraphParts))
                       IN  liveFiles = w.files /\ liveParts = w.parts
    BY DEF LiveIsExact
  <2>. DEFINE N == Cardinality(Files) + Cardinality(GraphParts)
              size == [w \in Wants |-> Cardinality(w.files) + Cardinality(w.parts)]
              F == [w \in Wants |-> NeededNext(w)]
  <2>1. graph \in Graphs /\ entries \in Seq(Files) /\ liveFiles \subseteq Files
        /\ liveParts \subseteq GraphParts /\ Closed(liveFiles, liveParts)
    BY DEF ShakeTypeOK, LiveIsClosed
  <2>2. PICK g \in [Nat -> Wants] :
              /\ g[0] = [files |-> ElementsOf(entries), parts |-> {}]
              /\ \A i \in Nat : g[i + 1] = NeededNext(g[i])
              /\ \A n \in Nat : NeededIn(n) = g[n]
    BY <2>1, NeededSteps
  <2>3. \A i \in Nat : g[i].files \subseteq liveFiles /\ g[i].parts \subseteq liveParts
    <3>. DEFINE T == {i \in Nat : g[i].files \subseteq liveFiles /\ g[i].parts \subseteq liveParts}
    <3>1. 0 \in T
      <4>1. g[0].files = ElementsOf(entries) /\ g[0].parts = {}
        BY <2>2
      <4>. QED BY <2>1, <4>1 DEF Closed
    <3>2. ASSUME NEW i \in T PROVE i + 1 \in T
      <4>1. i \in Nat /\ g[i].files \subseteq liveFiles /\ g[i].parts \subseteq liveParts
        OBVIOUS
      <4>2. NeededNext(g[i]).files \subseteq liveFiles /\ NeededNext(g[i]).parts \subseteq liveParts
        BY <2>1, <4>1, NeededStaysIn
      <4>. QED BY <2>2, <4>1, <4>2
    <3>. HIDE DEF T
    <3>3. T \in SUBSET Nat
      BY DEF T
    <3>4. T = Nat
      BY <3>1, <3>2, <3>3, NatSets
    <3>. QED BY <3>4 DEF T
  <2>4. \A S \in SUBSET Files : IsFiniteSet(S) /\ Cardinality(S) \in Nat
                                 /\ Cardinality(S) <= Cardinality(Files)
    BY <2>1, GraphIsFinite, FS_Subset, FS_CardinalityType
  <2>5. \A S \in SUBSET GraphParts : IsFiniteSet(S) /\ Cardinality(S) \in Nat
                                 /\ Cardinality(S) <= Cardinality(GraphParts)
    BY <2>1, GraphIsFinite, FS_Subset, FS_CardinalityType
  <2>6. \A w \in Wants : w.files \in SUBSET Files /\ w.parts \in SUBSET GraphParts
    BY DEF Wants
  <2>7. N \in Nat /\ size \in [Wants -> Nat] /\ \A w \in Wants : size[w] <= N
    <3>1. Cardinality(Files) \in Nat /\ Cardinality(GraphParts) \in Nat
      BY <2>4, <2>5
    <3>2. ASSUME NEW w \in Wants
          PROVE  /\ Cardinality(w.files) + Cardinality(w.parts) \in Nat
                 /\ Cardinality(w.files) + Cardinality(w.parts) <= N
      BY <2>4, <2>5, <2>6, <3>1
    <3>. QED BY <3>1, <3>2
  <2>8. F \in [Wants -> Wants] /\ \A i \in Nat : g[i + 1] = F[g[i]]
    BY <2>1, <2>2, WantsGrow
  <2>9. ASSUME NEW i \in Nat PROVE g[i + 1] = g[i] \/ size[g[i + 1]] > size[g[i]]
    <3>. DEFINE v == g[i]
                w == g[i + 1]
    <3>1. v \in Wants /\ w \in Wants /\ v.files \subseteq w.files /\ v.parts \subseteq w.parts
      BY <2>1, <2>2, WantsGrow
    <3>. HIDE DEF v, w
    <3>2. v = w \/ v.files # w.files \/ v.parts # w.parts
      BY <3>1 DEF Wants
    <3>3. /\ Cardinality(v.files) \in Nat /\ Cardinality(w.files) \in Nat
          /\ Cardinality(v.parts) \in Nat /\ Cardinality(w.parts) \in Nat
      BY <2>4, <2>5, <2>6, <3>1
    <3>4. /\ Cardinality(v.files) <= Cardinality(w.files)
          /\ v.files # w.files => Cardinality(v.files) < Cardinality(w.files)
      BY <2>4, <2>6, <3>1, <3>3, FS_Subset
    <3>5. /\ Cardinality(v.parts) <= Cardinality(w.parts)
          /\ v.parts # w.parts => Cardinality(v.parts) < Cardinality(w.parts)
      BY <2>5, <2>6, <3>1, <3>3, FS_Subset
    <3>6. size[v] = Cardinality(v.files) + Cardinality(v.parts)
          /\ size[w] = Cardinality(w.files) + Cardinality(w.parts)
      BY <3>1
    <3>7. v = w \/ size[w] > size[v]
      BY <3>2, <3>3, <3>4, <3>5, <3>6
    <3>. QED BY <3>7 DEF v, w
  <2>10. g[N + 1] = g[N]
    <3>1. \A i \in Nat : size[g[i]] <= N
      BY <2>2, <2>7
    <3>2. size \in [Wants -> Nat] /\ N \in Nat
      BY <2>7
    <3>3. F \in [Wants -> Wants]
      BY <2>8
    <3>4. \A i \in Nat : g[i + 1] = F[g[i]]
      BY <2>8
    <3>5. \A i \in Nat : g[i + 1] = g[i] \/ size[g[i + 1]] > size[g[i]]
      <4>. HIDE DEF size, N, F
      <4>. QED BY <2>9
    <3>6. g \in [Nat -> Wants]
      BY <2>8
    <3>. HIDE DEF size, N, F
    <3>7. Saturates(Wants, g, size, N, F)
      BY <3>1, <3>2, <3>3, <3>4, <3>5, <3>6 DEF Saturates
    <3>. QED BY <3>7, Saturation
  <2>11. NeededNext(g[N]) = g[N] /\ g[N] \in Wants /\ NeededIn(N) = g[N]
    <3>1. N \in Nat
      BY <2>7
    <3>. HIDE DEF N, size, F
    <3>. QED BY <2>2, <2>10, <3>1
  <2>12. ElementsOf(entries) \subseteq g[N].files
    <3>. DEFINE T == {i \in Nat : ElementsOf(entries) \subseteq g[i].files}
    <3>1. 0 \in T
      BY <2>2
    <3>2. ASSUME NEW i \in T PROVE i + 1 \in T
      <4>1. i \in Nat /\ i + 1 \in Nat /\ g[i] \in Wants /\ ElementsOf(entries) \subseteq g[i].files
        BY <2>2
      <4>. HIDE DEF N, size, F, T
      <4>2. g[i].files \subseteq NeededNext(g[i]).files
        BY <2>1, <4>1, WantsGrow
      <4>3. g[i + 1] = NeededNext(g[i])
        BY <2>2, <4>1
      <4>. QED BY <4>1, <4>2, <4>3 DEF T
    <3>. HIDE DEF T
    <3>3. T \in SUBSET Nat
      BY DEF T
    <3>4. T = Nat
      BY <3>1, <3>2, <3>3, NatSets
    <3>. QED BY <2>7, <3>4 DEF T
  <2>13. Closed(g[N].files, g[N].parts)
    BY <2>1, <2>11, <2>12, CompleteIsClosed
  <2>14. liveFiles \subseteq g[N].files /\ liveParts \subseteq g[N].parts
    BY <2>6, <2>11, <2>13 DEF LiveIsNeeded
  <2>15. g[N].files \subseteq liveFiles /\ g[N].parts \subseteq liveParts
    BY <2>3, <2>7
  <2>. QED BY <2>11, <2>14, <2>15
<1>. QED BY <1>1, ShakeTypeCorrect, NothingNeededIsShaken, NothingIsKeptInVain, PTL

-----------------------------------------------------------------------------
(* The second walk.  Two things are asked of the files that an entered     *)
(* file leads to, and of the entry points: with m = "bit", that they have  *)
(* the bit k; with m = "dist", that they are no further than k from an     *)
(* entry point.  The invariant says that all that is asked is done, or     *)
(* that a pending call of the walk will do it.                             *)

Serves(m, c, k) == IF m = "bit" THEN k = c.bit ELSE c.dist <= k

Satisfied(m) ==
    {q \in Files \X Nat : IF m = "bit" THEN q[2] \in bits[q[1]] ELSE distance[q[1]] <= q[2]}

(* What a file asks of those it leads to.                                  *)
Owing(m) ==
    {q \in Files \X Nat : IF m = "bit" THEN q[2] \in bits[q[1]]
                          ELSE distance[q[1]] < FarAway /\ distance[q[1]] < q[2]}

First(m) == {<<entries[i], IF m = "bit" THEN i ELSE 0>> : i \in 1..Len(entries)}

AskFile(f, k)   == [op |-> "reach", file |-> f, at |-> 0, by |-> 0, key |-> k]
AskRecord(f, r, k) == [op |-> "record", file |-> f, at |-> r, by |-> 0, key |-> k]
AskPart(f, p, k)   == [op |-> "part", file |-> f, at |-> p, by |-> 0, key |-> k]
AskUse(f, p, i, k) == [op |-> "use", file |-> f, at |-> p, by |-> i, key |-> k]

Asked(c, k) == [op |-> c.op, file |-> c.file, at |-> c.at, by |-> c.by, key |-> k]

(* What the calls of C will do.                                            *)
Asks(m, C) == UNION {{Asked(c, k) : k \in {k \in Nat : Serves(m, c, k)}} : c \in C}

(* B is what is done, W is what the pending calls will do.                 *)
ReachDone(f, k, B, W) == f \notin liveFiles \/ <<f, k>> \in B \/ AskFile(f, k) \in W

RecordLed(f, r, k, B, W) ==
    Record(f, r).target # NoFile /\ ~IsExternalDynamicImport(f, r)
        => ReachDone(Record(f, r).target, k, B, W)
RecordEntered(f, r, k, B, W) == AskRecord(f, r, k) \in W \/ RecordLed(f, r, k, B, W)

UseLed(f, p, i, k, B, W) == UseAt(f, p, i).file # f => ReachDone(UseAt(f, p, i).file, k, B, W)
UseEntered(f, p, i, k, B, W) == AskUse(f, p, i, k) \in W \/ UseLed(f, p, i, k, B, W)

PartLed(f, p, k, B, W) ==
    \A i \in 1..Len(Part(f, p).dependencies) : UseEntered(f, p, i, k, B, W)
PartEntered(f, p, k, B, W) == AskPart(f, p, k) \in W \/ PartLed(f, p, k, B, W)

FileEntered(f, k, B, W) ==
    /\ graph.file[f].kind = "js" /\ graph.file[f].css # NoFile => ReachDone(graph.file[f].css, k, B, W)
    /\ graph.file[f].kind # "copy" => \A r \in RecordsOf(f) : RecordEntered(f, r, k, B, W)
    /\ graph.file[f].kind = "js" => \A p \in PartsOf(f) : PartEntered(f, p, k, B, W)

AllEntered(S, O, B, W) ==
    /\ \A q \in S : ReachDone(q[1], q[2], B, W)
    /\ \A q \in O : FileEntered(q[1], q[2], B, W)

(* What was asked is done, or handed on.                                   *)
AskDone(a, B, W) ==
    /\ \A f, k : a = AskFile(f, k) => f \notin liveFiles \/ <<f, k>> \in B
    /\ \A f, r, k : a = AskRecord(f, r, k) => RecordLed(f, r, k, B, W)
    /\ \A f, p, i, k : a = AskUse(f, p, i, k) => UseLed(f, p, i, k, B, W)
    /\ \A f, p, k : a = AskPart(f, p, k) => PartLed(f, p, k, B, W)

LEMMA AskedCalls ==
    ASSUME NEW m, NEW C, NEW k \in Nat
    PROVE  /\ \A f, b, d : Reach(f, b, d) \in C /\ Serves(m, Reach(f, b, d), k)
                               => AskFile(f, k) \in Asks(m, C)
           /\ \A f, r, b, d : ReachRecord(f, r, b, d) \in C /\ Serves(m, ReachRecord(f, r, b, d), k)
                               => AskRecord(f, r, k) \in Asks(m, C)
           /\ \A f, p, b, d : ReachPart(f, p, b, d) \in C /\ Serves(m, ReachPart(f, p, b, d), k)
                               => AskPart(f, p, k) \in Asks(m, C)
           /\ \A f, p, i, b, d : ReachUse(f, p, i, b, d) \in C /\ Serves(m, ReachUse(f, p, i, b, d), k)
                               => AskUse(f, p, i, k) \in Asks(m, C)
<1>1. ASSUME NEW c \in C, Serves(m, c, k) PROVE Asked(c, k) \in Asks(m, C)
  BY <1>1 DEF Asks
<1>2. /\ \A f, b, d : Asked(Reach(f, b, d), k) = AskFile(f, k)
      /\ \A f, r, b, d : Asked(ReachRecord(f, r, b, d), k) = AskRecord(f, r, k)
      /\ \A f, p, b, d : Asked(ReachPart(f, p, b, d), k) = AskPart(f, p, k)
      /\ \A f, p, i, b, d : Asked(ReachUse(f, p, i, b, d), k) = AskUse(f, p, i, k)
  BY DEF Asked, Reach, ReachRecord, ReachPart, ReachUse, AskFile, AskRecord, AskPart, AskUse
<1>. QED BY <1>1, <1>2

LEMMA AsksSplit ==
    ASSUME NEW m, NEW C, NEW D
    PROVE  /\ C \subseteq D => Asks(m, C) \subseteq Asks(m, D)
           /\ \A c : C \subseteq {c} \cup D =>
                 Asks(m, C) \subseteq {Asked(c, k) : k \in {k \in Nat : Serves(m, c, k)}} \cup Asks(m, D)
BY DEF Asks

(* What was asked is still done or asked when some of it was done.         *)
LEMMA WalkProgress ==
    ASSUME NEW B, NEW W, NEW B2, NEW W2, NEW A,
           B \subseteq B2, W \subseteq A \cup W2, \A a \in A : AskDone(a, B2, W2)
    PROVE  /\ \A f, k : ReachDone(f, k, B, W) => ReachDone(f, k, B2, W2)
           /\ \A f, k : FileEntered(f, k, B, W) => FileEntered(f, k, B2, W2)
<1>1. ASSUME NEW f, NEW k, ReachDone(f, k, B, W) PROVE ReachDone(f, k, B2, W2)
  BY <1>1 DEF ReachDone, AskDone
<1>2. ASSUME NEW f, NEW r, NEW k, RecordEntered(f, r, k, B, W) PROVE RecordEntered(f, r, k, B2, W2)
  <2>1. CASE AskRecord(f, r, k) \in W
    BY <2>1 DEF RecordEntered, AskDone
  <2>2. CASE RecordLed(f, r, k, B, W)
    BY <2>2, <1>1 DEF RecordEntered, RecordLed
  <2>. QED BY <1>2, <2>1, <2>2 DEF RecordEntered
<1>3. ASSUME NEW f, NEW p, NEW i, NEW k, UseEntered(f, p, i, k, B, W)
      PROVE  UseEntered(f, p, i, k, B2, W2)
  <2>1. CASE AskUse(f, p, i, k) \in W
    BY <2>1 DEF UseEntered, AskDone
  <2>2. CASE UseLed(f, p, i, k, B, W)
    BY <2>2, <1>1 DEF UseEntered, UseLed
  <2>. QED BY <1>3, <2>1, <2>2 DEF UseEntered
<1>4. ASSUME NEW f, NEW p, NEW k, PartEntered(f, p, k, B, W) PROVE PartEntered(f, p, k, B2, W2)
  <2>1. CASE AskPart(f, p, k) \in W
    BY <2>1 DEF PartEntered, AskDone
  <2>2. CASE PartLed(f, p, k, B, W)
    BY <2>2, <1>3 DEF PartEntered, PartLed
  <2>. QED BY <1>4, <2>1, <2>2 DEF PartEntered
<1>5. ASSUME NEW f, NEW k, FileEntered(f, k, B, W) PROVE FileEntered(f, k, B2, W2)
  BY <1>5, <1>1, <1>2, <1>4 DEF FileEntered
<1>. QED BY <1>1, <1>5

(* The invariant of the second walk.                                       *)
EnteredFor(m) == AllEntered(First(m), Owing(m), Satisfied(m), Asks(m, ElementsOf(walk)))

EnteredInv ==
    /\ phase = "shake" => bits = [f \in Files |-> {}] /\ distance = [f \in Files |-> FarAway]
    /\ phase # "shake" => EnteredFor("bit") /\ EnteredFor("dist")
    /\ phase = "done" => walk = <<>>

(* Entered or not depends on the graph, the entry points and what is live. *)
LEMMA EnteredStays ==
    ASSUME graph' = graph, entries' = entries, liveFiles' = liveFiles,
           NEW m \in {"bit", "dist"},
           AllEntered(First(m), Owing(m)', Satisfied(m)', Asks(m, ElementsOf(walk')))
    PROVE  EnteredFor(m)'
<1>. DEFINE B == Satisfied(m)
            O == Owing(m)
            W == Asks(m, ElementsOf(walk))
            S == First(m)
<1>1. AllEntered(S', O', B', W')
  <2>1. S' = First(m)
    BY DEF First
  <2>2. ElementsOf(walk') = ElementsOf(walk)'
    BY DEF ElementsOf
  <2>3. W' = Asks(m, ElementsOf(walk'))
    BY <2>2 DEF Asks, Asked, Serves
  <2>. QED BY <2>1, <2>3
<1>2. \A f : IsEntry(f)' <=> IsEntry(f)
  BY DEF IsEntry, ElementsOf
<1>3. \A f, r : IsExternalDynamicImport(f, r)' <=> IsExternalDynamicImport(f, r)
  BY <1>2, NeedsStay DEF IsExternalDynamicImport
<1>. HIDE DEF B, O, W, S
<1>4. ASSUME NEW f, NEW k PROVE ReachDone(f, k, B', W') => ReachDone(f, k, B, W)'
  BY DEF ReachDone, AskFile
<1>5. ASSUME NEW f, NEW r, NEW k
      PROVE  RecordEntered(f, r, k, B', W') => RecordEntered(f, r, k, B, W)'
  BY <1>3, <1>4, NeedsStay DEF RecordEntered, RecordLed, ReachDone, AskFile, AskRecord
<1>6. ASSUME NEW f, NEW p, NEW k PROVE PartEntered(f, p, k, B', W') => PartEntered(f, p, k, B, W)'
  BY NeedsStay DEF PartEntered, PartLed, UseEntered, UseLed, UseAt, ReachDone, AskFile, AskPart, AskUse
<1>7. ASSUME NEW f, NEW k PROVE FileEntered(f, k, B', W') => FileEntered(f, k, B, W)'
  BY <1>5, <1>6, NeedsStay DEF FileEntered, ReachDone, AskFile
<1>8. AllEntered(S, O, B, W)'
  BY <1>1, <1>4, <1>7 DEF AllEntered
<1>. QED BY <1>8 DEF B, O, W, S, EnteredFor

(* An action that runs the next call of the walk keeps what was entered.   *)
LEMMA EnteredStep ==
    ASSUME ShakeTypeOK, EnteredInv, phase # "shake", walk # <<>>,
           graph' = graph, entries' = entries, liveFiles' = liveFiles,
           NEW body, WalkOK(body), walk' = body \o Tail(walk),
           NEW m \in {"bit", "dist"},
           Satisfied(m) \subseteq Satisfied(m)',
           \A k \in Nat : Serves(m, Head(walk), k) =>
               AskDone(Asked(Head(walk), k), Satisfied(m)', Asks(m, ElementsOf(walk'))),
           \A q \in Owing(m)' \ Owing(m) :
               FileEntered(q[1], q[2], Satisfied(m)', Asks(m, ElementsOf(walk')))
    PROVE  EnteredFor(m)'
<1>. DEFINE c == Head(walk)
            W == Asks(m, ElementsOf(walk))
            W2 == Asks(m, ElementsOf(walk'))
            B2 == Satisfied(m)'
            A == {Asked(c, k) : k \in {k \in Nat : Serves(m, c, k)}}
<1>1. W \subseteq A \cup W2
  <2>1. WalkOK(walk)
    BY DEF ShakeTypeOK, WalkOK
  <2>2. /\ ElementsOf(body \o Tail(walk)) = ElementsOf(body) \cup ElementsOf(Tail(walk))
        /\ ElementsOf(walk) = {c} \cup ElementsOf(Tail(walk))
    BY <2>1, WalkStep
  <2>. DEFINE C == ElementsOf(walk)
              D == ElementsOf(walk')
  <2>3. C \subseteq {c} \cup D
    BY <2>2
  <2>. HIDE DEF C, D, c
  <2>4. Asks(m, C) \subseteq A \cup Asks(m, D)
    <3>1. \A x : C \subseteq {x} \cup D =>
             Asks(m, C) \subseteq {Asked(x, k) : k \in {k \in Nat : Serves(m, x, k)}} \cup Asks(m, D)
      BY AsksSplit
    <3>. QED BY <2>3, <3>1
  <2>. QED BY <2>4 DEF C, D
<1>2. AllEntered(First(m), Owing(m), Satisfied(m), W)
  BY DEF EnteredInv, EnteredFor
<1>3. \A a \in A : AskDone(a, B2, W2)
  OBVIOUS
<1>. HIDE DEF W, W2, B2, A
<1>4. /\ \A f, k : ReachDone(f, k, Satisfied(m), W) => ReachDone(f, k, B2, W2)
      /\ \A f, k : FileEntered(f, k, Satisfied(m), W) => FileEntered(f, k, B2, W2)
  <2>1. Satisfied(m) \subseteq B2
    BY DEF B2
  <2>. QED BY <1>1, <1>3, <2>1, WalkProgress
<1>5. \A q \in Owing(m)' \ Owing(m) : FileEntered(q[1], q[2], B2, W2)
  BY DEF B2, W2
<1>6. AllEntered(First(m), Owing(m)', B2, W2)
  BY <1>2, <1>4, <1>5 DEF AllEntered
<1>. QED BY <1>6, EnteredStays DEF B2, W2
(* What the walk entered led it on, or will, for every scanned graph.      *)
LEMMA EnteredCorrect == Spec => []EnteredInv
<1>1. Init => EnteredInv
  BY DEF Init, EnteredInv
<1>2. ShakeTypeOK /\ EnteredInv /\ [Next]_vars => EnteredInv'
  <2>. SUFFICES ASSUME ShakeTypeOK, EnteredInv, [Next]_vars PROVE EnteredInv'
    OBVIOUS
  <2>. DEFINE C2 == ElementsOf(walk')
              c == Head(walk)
  <2>0. graph \in Graphs /\ bits \in [Files -> SUBSET Nat] /\ distance \in [Files -> Nat]
    BY DEF ShakeTypeOK
  <2>1. ASSUME walk # <<>>, NEW body, WalkOK(body), walk' = body \o Tail(walk)
        PROVE  ElementsOf(body) \subseteq C2
    <3>1. WalkOK(walk)
      BY DEF ShakeTypeOK, WalkOK
    <3>. QED BY <2>1, <3>1, WalkStep
  <2>2. CASE MarkPartLive \/ MarkFileLive \/ ScanOnePart \/ FollowOneRecord
    <3>1. phase = "shake" /\ phase' = "shake" /\ bits' = bits /\ distance' = distance
      BY <2>2 DEF MarkPartLive, MarkFileLive, ScanOnePart, FollowOneRecord, Shaking
    <3>. QED BY <3>1 DEF EnteredInv
  <2>3. CASE StartSplitting
    <3>1. graph' = graph /\ entries' = entries /\ liveFiles' = liveFiles /\ phase' = "split"
          /\ bits' = [f \in Files |-> {}] /\ distance' = [f \in Files |-> FarAway]
      BY <2>3 DEF StartSplitting, EnteredInv
    <3>2. C2 = {Reach(entries[i], i, 0) : i \in 1..Len(entries)}
      BY <2>3, EntryCalls DEF StartSplitting, ShakeTypeOK
    <3>3. FarAway \in Nat
      BY GraphAssumption
    <3>4. ASSUME NEW m \in {"bit", "dist"} PROVE EnteredFor(m)'
      <4>1. Owing(m)' = {}
        BY <3>1, <3>3 DEF Owing
      <4>2. ASSUME NEW i \in 1..Len(entries)
            PROVE  ReachDone(entries[i], IF m = "bit" THEN i ELSE 0, Satisfied(m)', Asks(m, C2))
        <5>. DEFINE k == IF m = "bit" THEN i ELSE 0
        <5>1. Reach(entries[i], i, 0) \in C2 /\ k \in Nat
          BY <3>2
        <5>2. Serves(m, Reach(entries[i], i, 0), k)
          BY DEF Serves, Reach
        <5>. HIDE DEF k, C2
        <5>3. AskFile(entries[i], k) \in Asks(m, C2)
          BY <5>1, <5>2, AskedCalls
        <5>. QED BY <5>3 DEF ReachDone, k
      <4>3. \A q \in First(m) : ReachDone(q[1], q[2], Satisfied(m)', Asks(m, C2))
        BY <4>2 DEF First
      <4>4. AllEntered(First(m), Owing(m)', Satisfied(m)', Asks(m, C2))
        BY <4>1, <4>3 DEF AllEntered
      <4>. QED BY <3>1, <4>4, EnteredStays
    <3>. QED BY <3>1, <3>4 DEF EnteredInv
  <2>4. CASE MarkFileReachable
    <3>. DEFINE f == c.file
                b == c.bit
                d == c.dist
                e == (d + 1) % (FarAway + 1)
                closer == f \in liveFiles /\ d < distance[f]
                enters == f \in liveFiles /\ (closer \/ b \notin bits[f])
                body == IF enters THEN ReachBody(f, b, e) ELSE <<>>
    <3>1. f \in Files /\ b \in Nat /\ d \in Nat /\ walk # <<>> /\ c.op = "reach"
      BY <2>4, WalkTop DEF MarkFileReachable, Splitting, WalkCalls
    <3>2. e \in Nat /\ e <= d + 1
      <4>1. d + 1 \in Nat /\ FarAway + 1 \in Nat /\ FarAway + 1 > 0
        BY <3>1, GraphAssumption
      <4>2. \A x, n \in Nat : n > 0 => x % n \in Nat /\ x % n <= x
        OBVIOUS
      <4>. QED BY <4>1, <4>2
    <3>3. /\ walk' = body \o Tail(walk)
          /\ bits' = IF enters THEN [bits EXCEPT ![f] = @ \cup {b}] ELSE bits
          /\ distance' = IF closer THEN [distance EXCEPT ![f] = d] ELSE distance
      BY <2>4 DEF MarkFileReachable, Proceed
    <3>4. graph' = graph /\ entries' = entries /\ liveFiles' = liveFiles
          /\ phase' = phase /\ phase = "split"
      BY <2>4 DEF MarkFileReachable, Splitting
    <3>5. WalkOK(body)
      BY <2>0, <3>1, <3>2, WalkBodiesInRange, NothingToCall
    <3>6. \A g \in Files : bits'[g] = IF g = f /\ enters THEN bits[f] \cup {b} ELSE bits[g]
      BY <2>0, <3>3
    <3>7. \A g \in Files : distance'[g] = IF g = f /\ closer THEN d ELSE distance[g]
      BY <2>0, <3>3
    <3>8. \A g \in Files : bits[g] \subseteq Nat /\ distance[g] \in Nat
      BY <2>0
    <3>9. enters =>
            /\ graph.file[f].kind = "js" /\ graph.file[f].css # NoFile => Reach(graph.file[f].css, b, e) \in C2
            /\ graph.file[f].kind # "copy" => \A r \in RecordsOf(f) : ReachRecord(f, r, b, e) \in C2
            /\ graph.file[f].kind = "js" => \A p \in PartsOf(f) : ReachPart(f, p, b, e) \in C2
      <4>. SUFFICES ASSUME enters
                    PROVE  /\ graph.file[f].kind = "js" /\ graph.file[f].css # NoFile
                                  => Reach(graph.file[f].css, b, e) \in C2
                           /\ graph.file[f].kind # "copy"
                                  => \A r \in RecordsOf(f) : ReachRecord(f, r, b, e) \in C2
                           /\ graph.file[f].kind = "js"
                                  => \A p \in PartsOf(f) : ReachPart(f, p, b, e) \in C2
        OBVIOUS
      <4>1. ElementsOf(ReachBody(f, b, e)) \subseteq C2
        <5>1. WalkOK(ReachBody(f, b, e)) /\ walk' = ReachBody(f, b, e) \o Tail(walk)
          BY <3>3, <3>5
        <5>. QED BY <2>1, <3>1, <5>1
      <4>2. graph \in Graphs /\ f \in Files /\ b \in Nat /\ e \in Nat
        BY <2>0, <3>1, <3>2
      <4>. HIDE DEF C2, e, f, b, d, c, enters, body
      <4>. QED BY <4>1, <4>2, ReachBodyCalls
    <3>10. ASSUME NEW m \in {"bit", "dist"} PROVE EnteredFor(m)'
      <4>. DEFINE B2 == Satisfied(m)'
                  W2 == Asks(m, C2)
      <4>1. B2 = {q \in Files \X Nat : IF m = "bit" THEN q[2] \in bits'[q[1]]
                                       ELSE distance'[q[1]] <= q[2]}
        BY DEF Satisfied
      <4>2. Satisfied(m) \subseteq B2
        <5>1. ASSUME NEW g \in Files, NEW k \in Nat, <<g, k>> \in Satisfied(m) PROVE <<g, k>> \in B2
          BY <3>1, <3>6, <3>7, <3>8, <4>1, <5>1 DEF Satisfied
        <5>. QED BY <5>1 DEF Satisfied
      <4>3. ASSUME NEW k \in Nat, Serves(m, c, k) PROVE AskDone(Asked(c, k), B2, W2)
        <5>1. f \notin liveFiles \/ <<f, k>> \in B2
          <6>1. CASE m = "bit"
            BY <3>1, <3>6, <4>1, <4>3, <6>1 DEF Serves
          <6>2. CASE m = "dist"
            BY <3>1, <3>7, <3>8, <4>1, <4>3, <6>2 DEF Serves
          <6>. QED BY <6>1, <6>2
        <5>. HIDE DEF B2, W2
        <5>. QED BY <3>1, <5>1 DEF AskDone, Asked, AskFile, AskRecord, AskPart, AskUse
      <4>4. ASSUME NEW q \in Owing(m)' \ Owing(m) PROVE FileEntered(q[1], q[2], B2, W2)
        <5>. DEFINE k == q[2]
        <5>1. q \in Files \X Nat /\ k \in Nat
          BY DEF Owing
        <5>2. q[1] = f /\ enters /\ (IF m = "bit" THEN k = b ELSE e <= k)
          <6>1. CASE m = "bit"
            <7>1. k \in bits'[q[1]] /\ k \notin bits[q[1]]
              BY <5>1, <6>1 DEF Owing
            <7>. QED BY <3>6, <5>1, <6>1, <7>1
          <6>2. CASE m = "dist"
            <7>1. /\ distance'[q[1]] < FarAway /\ distance'[q[1]] < k
                  /\ ~(distance[q[1]] < FarAway /\ distance[q[1]] < k)
              BY <5>1, <6>2 DEF Owing
            <7>2. q[1] = f /\ closer /\ d < k
              BY <3>7, <5>1, <7>1
            <7>. QED BY <3>1, <3>2, <5>1, <6>2, <7>2
          <6>. QED BY <6>1, <6>2
        <5>3. /\ \A g : Serves(m, Reach(g, b, e), k)
              /\ \A r : Serves(m, ReachRecord(f, r, b, e), k)
              /\ \A p : Serves(m, ReachPart(f, p, b, e), k)
          BY <5>2 DEF Serves, Reach, ReachRecord, ReachPart
        <5>4. /\ graph.file[f].kind = "js" /\ graph.file[f].css # NoFile => AskFile(graph.file[f].css, k) \in W2
              /\ graph.file[f].kind # "copy" => \A r \in RecordsOf(f) : AskRecord(f, r, k) \in W2
              /\ graph.file[f].kind = "js" => \A p \in PartsOf(f) : AskPart(f, p, k) \in W2
          <6>. HIDE DEF C2, f, b, e, k, enters
          <6>. QED BY <3>9, <5>1, <5>2, <5>3, AskedCalls
        <5>. HIDE DEF B2, W2, f
        <5>. QED BY <5>2, <5>4 DEF FileEntered, ReachDone, RecordEntered, PartEntered
      <4>. HIDE DEF body
      <4>. QED BY <3>1, <3>3, <3>4, <3>5, <4>2, <4>3, <4>4, EnteredStep
    <3>. QED BY <3>4, <3>10 DEF EnteredInv
  <2>5. CASE ReachOneRecord
    <3>. DEFINE f == c.file
                r == c.at
                to == Record(f, r).target
                enters == to # NoFile /\ ~IsExternalDynamicImport(f, r)
                body == IF enters THEN <<Reach(to, c.bit, c.dist)>> ELSE <<>>
    <3>1. f \in Files /\ r \in RecordsOf(f) /\ c.bit \in Nat /\ c.dist \in Nat
          /\ walk # <<>> /\ c.op = "record"
      BY <2>5, WalkTop DEF ReachOneRecord, Splitting, WalkCalls
    <3>2. enters => to \in Files
      BY <2>0, <3>1, GraphFacts
    <3>3. WalkOK(body) /\ walk' = body \o Tail(walk)
      BY <2>0, <2>5, <3>1, <3>2, WalkBodiesInRange, NothingToCall DEF ReachOneRecord, Proceed
    <3>4. graph' = graph /\ entries' = entries /\ liveFiles' = liveFiles
          /\ bits' = bits /\ distance' = distance /\ phase' = phase /\ phase = "split"
      BY <2>5 DEF ReachOneRecord, Splitting
    <3>5. enters => Reach(to, c.bit, c.dist) \in C2
      <4>1. \A x : x \in ElementsOf(<<x>>)
        BY ElementsOfOne, Zenon
      <4>2. ElementsOf(body) \subseteq C2
        BY <2>1, <3>1, <3>3
      <4>. QED BY <4>1, <4>2
    <3>6. ASSUME NEW m \in {"bit", "dist"} PROVE EnteredFor(m)'
      <4>. DEFINE B2 == Satisfied(m)'
                  W2 == Asks(m, C2)
      <4>1. Satisfied(m)' = Satisfied(m) /\ Owing(m)' = Owing(m)
        BY <3>4 DEF Satisfied, Owing
      <4>2. ASSUME NEW k \in Nat, Serves(m, c, k) PROVE AskDone(Asked(c, k), B2, W2)
        <5>1. Serves(m, Reach(to, c.bit, c.dist), k)
          BY <4>2 DEF Serves, Reach
        <5>2. enters => AskFile(to, k) \in W2
          <6>. HIDE DEF C2, to, c, enters
          <6>. QED BY <3>5, <5>1, AskedCalls
        <5>. HIDE DEF B2, W2
        <5>3. RecordLed(f, r, k, B2, W2)
          BY <5>2 DEF RecordLed, ReachDone
        <5>. QED BY <3>1, <5>3 DEF AskDone, Asked, AskFile, AskRecord, AskPart, AskUse
      <4>. HIDE DEF body
      <4>. QED BY <3>1, <3>3, <3>4, <4>1, <4>2, EnteredStep
    <3>. QED BY <3>4, <3>6 DEF EnteredInv
  <2>6. CASE ReachOnePart
    <3>. DEFINE f == c.file
                p == c.at
                b == c.bit
                d == c.dist
                body == UsesOf(f, p, b, d)
    <3>1. f \in Files /\ p \in PartsOf(f) /\ b \in Nat /\ d \in Nat
          /\ walk # <<>> /\ c.op = "part"
      BY <2>6, WalkTop DEF ReachOnePart, Splitting, WalkCalls
    <3>2. WalkOK(body) /\ walk' = body \o Tail(walk)
      BY <2>0, <2>6, <3>1, WalkBodiesInRange DEF ReachOnePart, Proceed, UsesOf
    <3>3. graph' = graph /\ entries' = entries /\ liveFiles' = liveFiles
          /\ bits' = bits /\ distance' = distance /\ phase' = phase /\ phase = "split"
      BY <2>6 DEF ReachOnePart, Splitting
    <3>4. \A i \in 1..Len(Part(f, p).dependencies) : ReachUse(f, p, i, b, d) \in ElementsOf(body)
      BY <2>0, <3>1, UseCalls
    <3>5. \A i \in 1..Len(Part(f, p).dependencies) : ReachUse(f, p, i, b, d) \in C2
      <4>. HIDE DEF body, C2
      <4>1. ElementsOf(body) \subseteq C2
        BY <2>1, <3>1, <3>2
      <4>. QED BY <3>4, <4>1
    <3>6. ASSUME NEW m \in {"bit", "dist"} PROVE EnteredFor(m)'
      <4>. DEFINE B2 == Satisfied(m)'
                  W2 == Asks(m, C2)
      <4>1. Satisfied(m)' = Satisfied(m) /\ Owing(m)' = Owing(m)
        BY <3>3 DEF Satisfied, Owing
      <4>2. ASSUME NEW k \in Nat, Serves(m, c, k) PROVE AskDone(Asked(c, k), B2, W2)
        <5>1. \A i : Serves(m, ReachUse(f, p, i, b, d), k)
          BY <4>2 DEF Serves, ReachUse
        <5>2. \A i \in 1..Len(Part(f, p).dependencies) : AskUse(f, p, i, k) \in W2
          <6>. HIDE DEF C2, c, f, p, b, d
          <6>. QED BY <3>5, <5>1, AskedCalls
        <5>. HIDE DEF B2, W2
        <5>3. PartLed(f, p, k, B2, W2)
          BY <5>2 DEF PartLed, UseEntered
        <5>. QED BY <3>1, <5>3 DEF AskDone, Asked, AskFile, AskRecord, AskPart, AskUse
      <4>. HIDE DEF body
      <4>. QED BY <3>1, <3>2, <3>3, <4>1, <4>2, EnteredStep
    <3>. QED BY <3>3, <3>6 DEF EnteredInv
  <2>7. CASE ReachOneUse
    <3>. DEFINE f == c.file
                p == c.at
                i == c.by
                to == UseAt(f, p, i).file
                body == IF to # f THEN <<Reach(to, c.bit, c.dist)>> ELSE <<>>
    <3>1. f \in Files /\ p \in PartsOf(f) /\ i \in 1..Len(Part(f, p).dependencies)
          /\ c.bit \in Nat /\ c.dist \in Nat /\ walk # <<>> /\ c.op = "use"
      BY <2>7, WalkTop DEF ReachOneUse, Splitting, WalkCalls
    <3>2. to \in Files
      BY <2>0, <3>1, GraphFacts
    <3>3. WalkOK(body)
      BY <2>0, <3>1, <3>2, WalkBodiesInRange, NothingToCall
    <3>4. walk' = body \o Tail(walk)
      BY <2>7 DEF ReachOneUse, Proceed, UseAt
    <3>5. graph' = graph /\ entries' = entries /\ liveFiles' = liveFiles
          /\ bits' = bits /\ distance' = distance /\ phase' = phase /\ phase = "split"
      BY <2>7 DEF ReachOneUse, Splitting
    <3>6. to # f => Reach(to, c.bit, c.dist) \in C2
      <4>1. \A x : x \in ElementsOf(<<x>>)
        BY ElementsOfOne, Zenon
      <4>2. ElementsOf(body) \subseteq C2
        BY <2>1, <3>1, <3>3, <3>4
      <4>. QED BY <4>1, <4>2
    <3>7. ASSUME NEW m \in {"bit", "dist"} PROVE EnteredFor(m)'
      <4>. DEFINE B2 == Satisfied(m)'
                  W2 == Asks(m, C2)
      <4>1. Satisfied(m)' = Satisfied(m) /\ Owing(m)' = Owing(m)
        BY <3>5 DEF Satisfied, Owing
      <4>2. ASSUME NEW k \in Nat, Serves(m, c, k) PROVE AskDone(Asked(c, k), B2, W2)
        <5>1. Serves(m, Reach(to, c.bit, c.dist), k)
          BY <4>2 DEF Serves, Reach
        <5>2. to # f => AskFile(to, k) \in W2
          <6>. HIDE DEF C2, to, c, f
          <6>. QED BY <3>6, <5>1, AskedCalls
        <5>. HIDE DEF B2, W2
        <5>3. UseLed(f, p, i, k, B2, W2)
          BY <5>2 DEF UseLed, ReachDone
        <5>. QED BY <3>1, <5>3 DEF AskDone, Asked, AskFile, AskRecord, AskPart, AskUse
      <4>. HIDE DEF body
      <4>. QED BY <3>1, <3>3, <3>4, <3>5, <4>1, <4>2, EnteredStep
    <3>. QED BY <3>5, <3>7 DEF EnteredInv
  <2>8. CASE FinishSplitting \/ UNCHANGED vars
    <3>1. graph' = graph /\ entries' = entries /\ liveFiles' = liveFiles /\ walk' = walk
          /\ bits' = bits /\ distance' = distance
          /\ \/ phase' = phase
             \/ phase = "split" /\ phase' = "done" /\ walk = <<>>
      BY <2>8 DEF FinishSplitting, vars
    <3>2. ASSUME NEW m \in {"bit", "dist"}, EnteredFor(m) PROVE EnteredFor(m)'
      <4>1. Satisfied(m)' = Satisfied(m) /\ Owing(m)' = Owing(m)
        BY <3>1 DEF Satisfied, Owing
      <4>2. AllEntered(First(m), Owing(m)', Satisfied(m)', Asks(m, ElementsOf(walk')))
        BY <3>1, <3>2, <4>1 DEF EnteredFor
      <4>. QED BY <3>1, <4>2, EnteredStays
    <3>. QED BY <3>1, <3>2 DEF EnteredInv
  <2>. QED BY <2>2, <2>3, <2>4, <2>5, <2>6, <2>7, <2>8 DEF Next
<1>. QED BY <1>1, <1>2, ShakeTypeCorrect, PTL DEF Spec

-----------------------------------------------------------------------------
(* The walk is over: what it gave is closed under what leads on.           *)

LEMMA LeadsToIs ==
    ASSUME graph \in Graphs, NEW f \in Files, NEW g
    PROVE  g \in LeadsTo(f) <=>
              /\ g \in liveFiles
              /\ \/ g = graph.file[f].css
                 \/ \E r \in RecordsOf(f) : /\ g = Record(f, r).target /\ g # NoFile
                                            /\ ~IsExternalDynamicImport(f, r)
                 \/ \E p \in PartsOf(f) : \E i \in 1..Len(Part(f, p).dependencies) :
                        g = UseAt(f, p, i).file
<1>. DEFINE imported == {Record(f, r).target : r \in {r \in 1..Len(graph.file[f].records) :
                    Record(f, r).target # NoFile /\ ~IsExternalDynamicImport(f, r)}}
            used == UNION {{d.file : d \in ElementsOf(Part(f, p).dependencies)} : p \in PartsOf(f)}
<1>1. g \in imported <=> \E r \in RecordsOf(f) : /\ g = Record(f, r).target /\ g # NoFile
                                                 /\ ~IsExternalDynamicImport(f, r)
  BY DEF RecordsOf
<1>2. g \in used <=> \E p \in PartsOf(f) : \E i \in 1..Len(Part(f, p).dependencies) :
                        g = UseAt(f, p, i).file
  BY DEF ElementsOf, UseAt
<1>3. LeadsTo(f) = liveFiles \cap ({graph.file[f].css} \cup imported \cup used)
  BY DEF LeadsTo
<1>. HIDE DEF imported, used
<1>. QED BY <1>1, <1>2, <1>3

LEMMA WalkIsClosed ==
    ASSUME ShakeTypeOK, EnteredInv, phase = "done", NEW m \in {"bit", "dist"}
    PROVE  /\ \A q \in First(m) : q[1] \in liveFiles => q \in Satisfied(m)
           /\ \A q \in Owing(m) : \A g \in LeadsTo(q[1]) : <<g, q[2]>> \in Satisfied(m)
<1>. DEFINE B == Satisfied(m)
<1>0. graph \in Graphs /\ liveFiles \subseteq Files /\ NoFile \notin Files
      /\ distance \in [Files -> Nat]
  BY GraphAssumption DEF ShakeTypeOK
<1>1. AllEntered(First(m), Owing(m), B, {})
  <2>1. ElementsOf(walk) = {}
    BY ElementsOfNone DEF EnteredInv
  <2>2. Asks(m, {}) = {}
    BY DEF Asks
  <2>. QED BY <2>1, <2>2 DEF EnteredInv, EnteredFor
<1>2. ASSUME NEW f, NEW k, ReachDone(f, k, B, {}), f \in liveFiles PROVE <<f, k>> \in B
  BY <1>2 DEF ReachDone
<1>3. \A q \in First(m) : q = <<q[1], q[2]>>
  BY DEF First
<1>4. ASSUME NEW q \in Owing(m), NEW g \in LeadsTo(q[1]) PROVE <<g, q[2]>> \in B
  <2>. DEFINE f == q[1]
              k == q[2]
  <2>1. f \in Files /\ k \in Nat /\ q = <<f, k>> /\ FileEntered(f, k, B, {})
    BY <1>1 DEF AllEntered, Owing
  <2>2. q \in B
    BY <1>0, <2>1 DEF Owing, Satisfied
  <2>. HIDE DEF B, f, k
  <2>3. g \in liveFiles
    BY <1>0, <1>4, <2>1, LeadsToIs DEF f
  <2>4. CASE g = graph.file[f].css
    <3>1. graph.file[f].kind = "js" /\ graph.file[f].css # NoFile
      BY <1>0, <2>1, <2>3, <2>4, GraphFacts
    <3>. QED BY <1>2, <2>1, <2>3, <2>4, <3>1 DEF FileEntered, k
  <2>5. ASSUME NEW r \in RecordsOf(f), g = Record(f, r).target, g # NoFile,
               ~IsExternalDynamicImport(f, r)
        PROVE  <<g, k>> \in B
    <3>1. graph.file[f].kind # "copy"
      BY <1>0, <2>1, GraphFacts
    <3>2. RecordLed(f, r, k, B, {})
      BY <2>1, <3>1 DEF FileEntered, RecordEntered
    <3>. QED BY <1>2, <2>3, <2>5, <3>2 DEF RecordLed
  <2>6. ASSUME NEW p \in PartsOf(f), NEW i \in 1..Len(Part(f, p).dependencies),
               g = UseAt(f, p, i).file
        PROVE  <<g, k>> \in B
    <3>1. graph.file[f].kind = "js"
      BY <1>0, <2>1, GraphFacts
    <3>2. UseLed(f, p, i, k, B, {})
      BY <2>1, <3>1 DEF FileEntered, PartEntered, PartLed, UseEntered
    <3>. QED BY <1>2, <2>1, <2>2, <2>3, <2>6, <3>2 DEF UseLed
  <2>7. \/ g = graph.file[f].css
        \/ \E r \in RecordsOf(f) : /\ g = Record(f, r).target /\ g # NoFile
                                   /\ ~IsExternalDynamicImport(f, r)
        \/ \E p \in PartsOf(f) : \E i \in 1..Len(Part(f, p).dependencies) :
               g = UseAt(f, p, i).file
    BY <1>0, <1>4, <2>1, LeadsToIs DEF f
  <2>. QED BY <2>4, <2>5, <2>6, <2>7 DEF k
<1>5. ASSUME NEW q \in First(m), q[1] \in liveFiles PROVE q \in B
  BY <1>1, <1>2, <1>3, <1>5 DEF AllEntered
<1>. QED BY <1>4, <1>5

(* Of the entry points and of their bits this means:                       *)
LEMMA BitsAreClosed ==
    ASSUME ShakeTypeOK, EnteredInv, phase = "done"
    PROVE  /\ \A i \in 1..Len(entries) : entries[i] \in liveFiles => i \in bits[entries[i]]
           /\ \A f \in Files : \A b \in bits[f] : \A g \in LeadsTo(f) : b \in bits[g]
<1>1. bits \in [Files -> SUBSET Nat]
  BY DEF ShakeTypeOK
<1>2. ASSUME NEW i \in 1..Len(entries), entries[i] \in liveFiles PROVE i \in bits[entries[i]]
  <2>1. <<entries[i], i>> \in First("bit")
    BY DEF First
  <2>2. <<entries[i], i>> \in Satisfied("bit")
    BY <1>2, <2>1, WalkIsClosed
  <2>. QED BY <2>2 DEF Satisfied
<1>3. ASSUME NEW f \in Files, NEW b \in bits[f], NEW g \in LeadsTo(f) PROVE b \in bits[g]
  <2>1. <<f, b>> \in Owing("bit")
    BY <1>1 DEF Owing
  <2>2. <<g, b>> \in Satisfied("bit")
    BY <2>1, WalkIsClosed
  <2>. QED BY <2>2 DEF Satisfied
<1>. QED BY <1>2, <1>3

(* Every kept file belongs to an entry point when both walks are over, for *)
(* every scanned graph: the kept files that have a bit keep, with their    *)
(* kept parts, all that is needed, so that there is no other kept file.    *)
THEOREM WhatIsKeptIsReached == Spec => []EveryLiveFileIsReached
<1>1. ShakeTypeOK /\ LiveIsClosed /\ LiveIsNeeded /\ EnteredInv => EveryLiveFileIsReached
  <2>. SUFFICES ASSUME ShakeTypeOK, LiveIsClosed, LiveIsNeeded, EnteredInv, phase = "done"
                PROVE  \A f \in liveFiles : bits[f] # {}
    BY DEF EveryLiveFileIsReached
  <2>. DEFINE F == {f \in liveFiles : bits[f] # {}}
              P == {q \in liveParts : q[1] \in F}
  <2>1. Closed(liveFiles, liveParts)
    BY DEF LiveIsClosed
  <2>2. graph \in Graphs /\ liveFiles \subseteq Files /\ liveParts \subseteq GraphParts
        /\ bits \in [Files -> SUBSET Nat] /\ entries \in Seq(Files)
    BY DEF ShakeTypeOK
  <2>3. ASSUME NEW f \in F, NEW g \in LeadsTo(f) PROVE g \in F
    <3>1. PICK b \in bits[f] : TRUE
      OBVIOUS
    <3>2. f \in Files /\ g \in liveFiles
      BY <2>2 DEF LeadsTo
    <3>. QED BY <3>2, BitsAreClosed
  <2>4. ElementsOf(entries) \subseteq F
    BY <2>1, BitsAreClosed DEF Closed, ElementsOf
  <2>5. ASSUME NEW f \in F PROVE NeedsOfFile(f, F, P)
    <3>1. f \in liveFiles /\ f \in Files
      BY <2>2
    <3>2. NeedsOfFile(f, liveFiles, liveParts)
      BY <2>1, <3>1 DEF Closed
    <3>. HIDE DEF F
    <3>3. ASSUME NEW r \in RecordsOf(f), Followed(f, r), Record(f, r).target \in liveFiles
          PROVE  Record(f, r).target \in F
      <4>1. Record(f, r).target # NoFile /\ Record(f, r).kind # "dynamic"
        BY <2>2, <3>1, <3>3, GraphFacts DEF Followed
      <4>2. Record(f, r).target \in LeadsTo(f)
        BY <2>2, <3>1, <3>3, <4>1, LeadsToIs DEF IsExternalDynamicImport
      <4>. QED BY <2>3, <4>2
    <3>4. CASE graph.file[f].kind = "js"
      <4>1. ASSUME graph.file[f].css # NoFile PROVE graph.file[f].css \in F
        <5>1. graph.file[f].css \in liveFiles
          BY <3>2, <3>4, <4>1 DEF NeedsOfFile
        <5>2. graph.file[f].css \in LeadsTo(f)
          BY <2>2, <3>1, <5>1, LeadsToIs
        <5>. QED BY <2>3, <5>2
      <4>2. ASSUME NEW p \in PartsOf(f), NEW i \in 1..Len(Part(f, p).records),
                   Followed(f, Part(f, p).records[i])
            PROVE  Record(f, Part(f, p).records[i]).target \in F
        <5>1. Part(f, p).records[i] \in RecordsOf(f)
          BY <2>2, <3>1, GraphFacts DEF RecordAt
        <5>2. Record(f, Part(f, p).records[i]).target \in liveFiles
          BY <3>2, <3>4, <4>2 DEF NeedsOfFile
        <5>. QED BY <3>3, <4>2, <5>1, <5>2
      <4>3. ASSUME NEW p \in PartsOf(f), Kept(f, p) PROVE <<f, p>> \in P
        BY <2>5, <3>2, <3>4, <4>3 DEF NeedsOfFile
      <4>. HIDE DEF P
      <4>. QED BY <3>4, <4>1, <4>2, <4>3 DEF NeedsOfFile
    <3>5. CASE graph.file[f].kind = "css"
      <4>1. ASSUME NEW r \in RecordsOf(f), Followed(f, r) PROVE Record(f, r).target \in F
        BY <3>2, <3>3, <3>5, <4>1 DEF NeedsOfFile, RecordsOf
      <4>. QED BY <3>5, <4>1 DEF NeedsOfFile, RecordsOf
    <3>6. CASE graph.file[f].kind = "copy"
      BY <3>6 DEF NeedsOfFile
    <3>. QED BY <2>2, <3>1, <3>4, <3>5, <3>6, GraphFacts
  <2>6. ASSUME NEW q \in P PROVE NeedsOfPart(q[1], q[2], F, P)
    <3>. DEFINE f == q[1]
                p == q[2]
    <3>1. q \in liveParts /\ f \in F /\ f \in Files /\ p \in PartsOf(f)
      BY <2>2 DEF GraphParts
    <3>2. NeedsOfPart(f, p, liveFiles, liveParts)
      BY <2>1, <3>1 DEF Closed
    <3>3. ASSUME NEW i \in 1..Len(Part(f, p).dependencies)
          PROVE  <<UseAt(f, p, i).file, UseAt(f, p, i).part>> \in P
      <4>. DEFINE g == UseAt(f, p, i).file
                  x == UseAt(f, p, i).part
      <4>1. <<g, x>> \in liveParts
        BY <3>2 DEF NeedsOfPart, UseAt
      <4>2. g \in liveFiles
        BY <2>1, <4>1 DEF Closed, NeedsOfPart
      <4>3. g \in LeadsTo(f)
        BY <2>2, <3>1, <4>2, LeadsToIs
      <4>4. g \in F
        BY <2>3, <3>1, <4>3
      <4>. QED BY <4>1, <4>4
    <3>. HIDE DEF P
    <3>. QED BY <3>1, <3>3 DEF NeedsOfPart, UseAt
  <2>7. Closed(F, P)
    <3>. HIDE DEF P
    <3>. QED BY <2>4, <2>5, <2>6 DEF Closed
  <2>8. F \in SUBSET Files /\ P \in SUBSET GraphParts
    BY <2>2
  <2>9. liveFiles \subseteq F
    <3>. HIDE DEF P, F
    <3>. QED BY <2>7, <2>8 DEF LiveIsNeeded
  <2>. QED BY <2>9
<1>. QED BY <1>1, ShakeTypeCorrect, NothingNeededIsShaken, NothingIsKeptInVain, EnteredCorrect, PTL

-----------------------------------------------------------------------------
(* The walk gives a file no bit and no distance without a way to it, of    *)
(* that length, from an entry point.  g[b][d] stands for the files that    *)
(* are d steps from entry point b at most: the invariant holds for all     *)
(* families of sets that the steps lead through, and WithinSteps is one.   *)

Chains(g) ==
    /\ g \in [1..Len(entries) -> [Nat -> SUBSET Files]]
    /\ \A b \in 1..Len(entries) :
          /\ entries[b] \in liveFiles => entries[b] \in g[b][0]
          /\ \A d \in Nat : \A f \in g[b][d] : f \in g[b][d + 1] /\ LeadsTo(f) \subseteq g[b][d + 1]

CallSound(c, g) ==
    /\ c.bit \in 1..Len(entries)
    /\ c.op = "reach" /\ c.file \in liveFiles => c.file \in g[c.bit][c.dist]
    /\ c.op # "reach" => c.dist # 0 /\ c.file \in g[c.bit][c.dist - 1]

SoundFor(g) ==
    /\ \A c \in ElementsOf(walk) : CallSound(c, g)
    /\ \A f \in Files : \A b \in bits[f] : b \in 1..Len(entries) /\ \E d \in Nat : f \in g[b][d]
    /\ \A f \in Files : distance[f] # FarAway =>
           \E b \in 1..Len(entries) : f \in g[b][distance[f]]

(* A call that is d steps from entry point b has d files behind it, so     *)
(* that a distance cannot wrap around.                                     *)
Nearer(b, d) == {f \in Files : b \in bits[f] /\ distance[f] < d}

CallBounded(c) == c.dist <= Cardinality(Nearer(c.bit, c.dist))

BoundedInv == phase # "shake" => \A c \in ElementsOf(walk) : CallBounded(c)

SoundInv == phase # "shake" => \A g : Chains(g) => SoundFor(g)

LEMMA NearerIsFinite ==
    \A b, d : /\ IsFiniteSet(Nearer(b, d))
              /\ Cardinality(Nearer(b, d)) \in Nat /\ Cardinality(Nearer(b, d)) <= Cardinality(Files)
<1>1. IsFiniteSet(Files)
  BY GraphAssumption
<1>2. \A b, d : Nearer(b, d) \subseteq Files
  BY DEF Nearer
<1>. QED BY <1>1, <1>2, FS_Subset, FS_CardinalityType

(* The bound of a call stays when files get bits or smaller distances.     *)
LEMMA BoundsStay ==
    ASSUME distance \in [Files -> Nat], distance' \in [Files -> Nat],
           \A f \in Files : bits[f] \subseteq bits'[f] /\ distance'[f] <= distance[f],
           NEW c \in WalkCalls, CallBounded(c)
    PROVE  CallBounded(c)'
<1>. DEFINE S == Nearer(c.bit, c.dist)
            T == Nearer(c.bit, c.dist)'
<1>0. c.dist \in Nat
  BY DEF WalkCalls
<1>1. S \subseteq T
  BY <1>0 DEF Nearer
<1>2. IsFiniteSet(T) /\ Cardinality(S) \in Nat /\ Cardinality(T) \in Nat
  <2>1. T \subseteq Files /\ IsFiniteSet(Files)
    BY GraphAssumption DEF Nearer
  <2>2. IsFiniteSet(T)
    BY <2>1, FS_Subset
  <2>. QED BY <2>2, NearerIsFinite, FS_CardinalityType
<1>. HIDE DEF S, T
<1>3. Cardinality(S) <= Cardinality(T)
  BY <1>1, <1>2, FS_Subset
<1>4. c.dist <= Cardinality(S) /\ (CallBounded(c)' <=> c.dist <= Cardinality(T))
  BY DEF CallBounded, S, T
<1>. QED BY <1>0, <1>2, <1>3, <1>4

(* One step further than a file that is entered is not too far to count.   *)
LEMMA NoWrap ==
    ASSUME ShakeTypeOK, BoundedInv, phase # "shake", walk # <<>>,
           Head(walk).file \in liveFiles,
           Head(walk).dist < distance[Head(walk).file]
               \/ Head(walk).bit \notin bits[Head(walk).file]
    PROVE  (Head(walk).dist + 1) % (FarAway + 1) = Head(walk).dist + 1
<1>. DEFINE f == Head(walk).file
            b == Head(walk).bit
            d == Head(walk).dist
            S == Nearer(b, d)
<1>1. f \in Files /\ d \in Nat /\ distance[f] \in Nat /\ FarAway \in Nat
  BY WalkTop, GraphAssumption DEF ShakeTypeOK, WalkCalls
<1>2. d <= Cardinality(S)
  <2>1. Head(walk) \in ElementsOf(walk)
    BY WalkStep, NothingToCall, ElementsOfTail DEF ShakeTypeOK
  <2>. QED BY <2>1 DEF BoundedInv, CallBounded
<1>3. f \notin S
  BY <1>1 DEF Nearer
<1>4. IsFiniteSet(S) /\ Cardinality(S) \in Nat
  BY NearerIsFinite
<1>. HIDE DEF S
<1>5. S \cup {f} \subseteq Files
  BY <1>1 DEF S, Nearer
<1>. HIDE DEF f, b, d
<1>6. Cardinality(S \cup {f}) = Cardinality(S) + 1
  BY <1>3, <1>4, FS_AddElement
<1>7. Cardinality(S \cup {f}) <= Cardinality(Files) /\ Cardinality(Files) \in Nat
      /\ Cardinality(Files) <= FarAway
  BY <1>5, GraphAssumption, FS_Subset, FS_CardinalityType
<1>8. d + 1 \in Nat /\ FarAway + 1 \in Nat /\ d + 1 < FarAway + 1
  BY <1>1, <1>2, <1>4, <1>6, <1>7
<1>9. \A x, n \in Nat : x < n => x % n = x
  OBVIOUS
<1>. QED BY <1>8, <1>9 DEF d

LEMMA BoundedCorrect == Spec => []BoundedInv
<1>1. Init => BoundedInv
  BY DEF Init, BoundedInv
<1>2. ShakeTypeOK /\ ShakeTypeOK' /\ BoundedInv /\ [Next]_vars => BoundedInv'
  <2>. SUFFICES ASSUME ShakeTypeOK, ShakeTypeOK', BoundedInv, [Next]_vars PROVE BoundedInv'
    OBVIOUS
  <2>. DEFINE c == Head(walk)
  <2>0. /\ graph \in Graphs /\ bits \in [Files -> SUBSET Nat] /\ distance \in [Files -> Nat]
        /\ distance' \in [Files -> Nat] /\ FarAway \in Nat
    BY GraphAssumption DEF ShakeTypeOK
  <2>1. ASSUME walk # <<>>
        PROVE  /\ c \in WalkCalls /\ c \in ElementsOf(walk)
               /\ ElementsOf(Tail(walk)) \subseteq ElementsOf(walk)
               /\ ElementsOf(walk) \subseteq WalkCalls
               /\ \A body : WalkOK(body) =>
                     ElementsOf(body \o Tail(walk)) = ElementsOf(body) \cup ElementsOf(Tail(walk))
    <3>1. WalkOK(walk)
      BY DEF ShakeTypeOK, WalkOK
    <3>2. ElementsOf(walk) \subseteq WalkCalls
      <4>1. walk \in Seq(WalkCalls)
        BY DEF ShakeTypeOK
      <4>. QED BY <4>1, ElementOfSeq DEF ElementsOf
    <3>. QED BY <2>1, <3>1, <3>2, WalkStep, NothingToCall
  <2>2. ASSUME walk # <<>>, phase # "shake", NEW body, WalkOK(body), walk' = body \o Tail(walk),
               \A f \in Files : bits[f] \subseteq bits'[f] /\ distance'[f] <= distance[f],
               \A x \in ElementsOf(body) : CallBounded(x)'
        PROVE  \A x \in ElementsOf(walk)' : CallBounded(x)'
    <3>1. ElementsOf(walk)' = ElementsOf(body) \cup ElementsOf(Tail(walk))
      <4>1. ElementsOf(walk)' = ElementsOf(walk')
        BY DEF ElementsOf
      <4>. QED BY <2>1, <2>2, <4>1
    <3>2. \A x \in ElementsOf(Tail(walk)) : x \in WalkCalls /\ CallBounded(x)
      BY <2>1, <2>2 DEF BoundedInv
    <3>3. \A x \in ElementsOf(Tail(walk)) : CallBounded(x)'
      BY <2>0, <2>2, <3>2, BoundsStay
    <3>. QED BY <2>2, <3>1, <3>3
  <2>3. ASSUME walk # <<>>, phase # "shake", NEW body, WalkOK(body), walk' = body \o Tail(walk),
               bits' = bits, distance' = distance,
               \A x \in ElementsOf(body) : x.bit = c.bit /\ x.dist = c.dist
        PROVE  \A x \in ElementsOf(walk)' : CallBounded(x)'
    <3>1. CallBounded(c)
      BY <2>1, <2>3 DEF BoundedInv
    <3>2. \A x \in ElementsOf(body) : CallBounded(x)'
      BY <2>3, <3>1 DEF CallBounded, Nearer
    <3>3. \A f \in Files : bits[f] \subseteq bits'[f] /\ distance'[f] <= distance[f]
      BY <2>0, <2>3
    <3>. QED BY <2>2, <2>3, <3>2, <3>3
  <2>4. CASE MarkPartLive \/ MarkFileLive \/ ScanOnePart \/ FollowOneRecord
    <3>1. phase' = "shake"
      BY <2>4 DEF MarkPartLive, MarkFileLive, ScanOnePart, FollowOneRecord, Shaking
    <3>. QED BY <3>1 DEF BoundedInv
  <2>5. CASE StartSplitting
    <3>1. ElementsOf(walk') = {Reach(entries[i], i, 0) : i \in 1..Len(entries)}
      BY <2>5, EntryCalls DEF StartSplitting, ShakeTypeOK
    <3>2. \A x \in ElementsOf(walk') : x.dist = 0
      BY <3>1 DEF Reach
    <3>3. \A x \in ElementsOf(walk)' : x.dist = 0
      BY <3>2 DEF ElementsOf
    <3>4. \A b, d : Cardinality(Nearer(b, d)') \in Nat
      <4>1. \A b, d : Nearer(b, d)' \subseteq Files
        BY DEF Nearer
      <4>2. IsFiniteSet(Files)
        BY GraphAssumption
      <4>. QED BY <4>1, <4>2, FS_Subset, FS_CardinalityType
    <3>5. \A x \in ElementsOf(walk)' : CallBounded(x)'
      BY <3>3, <3>4 DEF CallBounded
    <3>. QED BY <3>5 DEF BoundedInv
  <2>6. CASE MarkFileReachable
    <3>. DEFINE f == c.file
                b == c.bit
                d == c.dist
                e == (d + 1) % (FarAway + 1)
                closer == f \in liveFiles /\ d < distance[f]
                enters == f \in liveFiles /\ (closer \/ b \notin bits[f])
                body == IF enters THEN ReachBody(f, b, e) ELSE <<>>
                After(i, n) == {g \in Files : i \in bits'[g] /\ distance'[g] < n}
    <3>1. f \in Files /\ b \in Nat /\ d \in Nat /\ walk # <<>> /\ c.op = "reach" /\ phase = "split"
      BY <2>6, WalkTop DEF MarkFileReachable, Splitting, WalkCalls
    <3>2. /\ walk' = body \o Tail(walk)
          /\ bits' = IF enters THEN [bits EXCEPT ![f] = @ \cup {b}] ELSE bits
          /\ distance' = IF closer THEN [distance EXCEPT ![f] = d] ELSE distance
      BY <2>6 DEF MarkFileReachable, Proceed
    <3>3. e \in Nat /\ e <= d + 1
      <4>1. d + 1 \in Nat /\ FarAway + 1 \in Nat /\ FarAway + 1 > 0
        BY <2>0, <3>1
      <4>2. \A x, n \in Nat : n > 0 => x % n \in Nat /\ x % n <= x
        OBVIOUS
      <4>. QED BY <4>1, <4>2
    <3>4. WalkOK(body)
      BY <2>0, <3>1, <3>3, WalkBodiesInRange, NothingToCall
    <3>5. \A g \in Files : bits'[g] = IF g = f /\ enters THEN bits[f] \cup {b} ELSE bits[g]
      BY <2>0, <3>2
    <3>6. \A g \in Files : distance'[g] = IF g = f /\ closer THEN d ELSE distance[g]
      BY <2>0, <3>2
    <3>7. \A g \in Files : bits[g] \subseteq bits'[g] /\ distance'[g] <= distance[g]
      BY <2>0, <3>1, <3>5, <3>6
    <3>8. ASSUME enters PROVE d + 1 <= Cardinality(After(b, d + 1))
      <4>. DEFINE S == Nearer(b, d)
                  T == After(b, d + 1)
      <4>0. /\ distance[f] \in Nat /\ (b \notin bits[f] \/ ~(distance[f] < d))
            /\ b \in bits'[f] /\ distance'[f] < d + 1
            /\ \A g \in Files : b \in bits[g] /\ distance[g] < d => b \in bits'[g] /\ distance'[g] < d + 1
        <5>1. \A g \in Files : distance[g] \in Nat
          BY <2>0
        <5>. HIDE DEF b, d, f
        <5>2. \A g \in Files : b \in bits[g] /\ distance[g] < d => b \in bits'[g] /\ distance'[g] < d + 1
          BY <3>1, <3>5, <3>6, <5>1
        <5>. QED BY <3>1, <3>5, <3>6, <3>8, <5>1, <5>2
      <4>5. d <= Cardinality(S)
        BY <2>1, <3>1 DEF BoundedInv, CallBounded
      <4>. HIDE DEF b, d, f
      <4>1. f \notin S
        BY <4>0 DEF Nearer
      <4>2. f \in T
        BY <3>1, <4>0
      <4>3. S \subseteq T
        BY <4>0 DEF Nearer
      <4>4. IsFiniteSet(T) /\ IsFiniteSet(S) /\ Cardinality(S) \in Nat /\ Cardinality(T) \in Nat
        <5>1. T \subseteq Files /\ IsFiniteSet(Files)
          BY GraphAssumption
        <5>. QED BY <5>1, NearerIsFinite, FS_Subset, FS_CardinalityType
      <4>. HIDE DEF S, T
      <4>6. Cardinality(S \cup {f}) = Cardinality(S) + 1
        BY <4>1, <4>4, FS_AddElement
      <4>7. S \cup {f} \subseteq T
        BY <4>2, <4>3
      <4>8. Cardinality(S \cup {f}) <= Cardinality(T)
        BY <4>4, <4>7, FS_Subset
      <4>. QED BY <3>1, <4>4, <4>5, <4>6, <4>8 DEF T
    <3>9. enters => e = d + 1
      BY <3>1, NoWrap
    <3>10. ASSUME NEW x \in ElementsOf(body) PROVE CallBounded(x)'
      <4>1. enters
        BY ElementsOfNone
      <4>2. x.bit = b /\ x.dist = e
        <5>1. x \in ElementsOf(ReachBody(f, b, e))
          BY <4>1
        <5>0. graph \in Graphs /\ f \in Files /\ b \in Nat /\ e \in Nat
          BY <2>0, <3>1, <3>3
        <5>. HIDE DEF e, b, d, f, c, body, enters
        <5>2. \/ \E g : x = Reach(g, b, e)
              \/ \E r : x = ReachRecord(f, r, b, e)
              \/ \E p : x = ReachPart(f, p, b, e)
          BY <5>0, <5>1, ReachBodyCalls
        <5>. QED BY <5>2 DEF Reach, ReachRecord, ReachPart
      <4>3. CallBounded(x)' <=> x.dist <= Cardinality(After(x.bit, x.dist))
        BY DEF CallBounded, Nearer
      <4>. HIDE DEF e, b, d, f, enters, After
      <4>. QED BY <3>8, <3>9, <4>1, <4>2, <4>3
    <3>. HIDE DEF body
    <3>11. \A x \in ElementsOf(walk)' : CallBounded(x)'
      BY <2>2, <3>1, <3>2, <3>4, <3>7, <3>10
    <3>. QED BY <3>11 DEF BoundedInv
  <2>7. CASE ReachOneRecord
    <3>. DEFINE to == Record(c.file, c.at).target
                enters == to # NoFile /\ ~IsExternalDynamicImport(c.file, c.at)
                body == IF enters THEN <<Reach(to, c.bit, c.dist)>> ELSE <<>>
    <3>1. c.file \in Files /\ c.at \in RecordsOf(c.file) /\ c.bit \in Nat /\ c.dist \in Nat
          /\ walk # <<>> /\ phase = "split"
      BY <2>7, WalkTop DEF ReachOneRecord, Splitting, WalkCalls
    <3>2. enters => to \in Files
      BY <2>0, <3>1, GraphFacts
    <3>3. WalkOK(body) /\ walk' = body \o Tail(walk) /\ bits' = bits /\ distance' = distance
      BY <2>0, <2>7, <3>1, <3>2, WalkBodiesInRange, NothingToCall DEF ReachOneRecord, Proceed
    <3>4. \A x \in ElementsOf(body) : x.bit = c.bit /\ x.dist = c.dist
      <4>1. \A y : ElementsOf(<<y>>) = {y}
        BY ElementsOfOne, Zenon
      <4>2. \A x \in ElementsOf(body) : x = Reach(to, c.bit, c.dist)
        BY <4>1, ElementsOfNone
      <4>. QED BY <4>2 DEF Reach
    <3>. HIDE DEF body
    <3>. QED BY <2>3, <3>1, <3>3, <3>4 DEF BoundedInv
  <2>8. CASE ReachOnePart
    <3>. DEFINE f == c.file
                p == c.at
                b == c.bit
                d == c.dist
                body == UsesOf(f, p, b, d)
    <3>1. f \in Files /\ p \in PartsOf(f) /\ b \in Nat /\ d \in Nat
          /\ walk # <<>> /\ phase = "split"
      BY <2>8, WalkTop DEF ReachOnePart, Splitting, WalkCalls
    <3>2. WalkOK(body) /\ walk' = body \o Tail(walk) /\ bits' = bits /\ distance' = distance
      BY <2>0, <2>8, <3>1, WalkBodiesInRange DEF ReachOnePart, Proceed, UsesOf
    <3>3. \A x \in ElementsOf(body) :
            \E i \in 1..Len(Part(f, p).dependencies) : x = ReachUse(f, p, i, b, d)
      BY <2>0, <3>1, UseCalls
    <3>. HIDE DEF body
    <3>4. \A x \in ElementsOf(body) : x.bit = c.bit /\ x.dist = c.dist
      BY <3>3 DEF ReachUse
    <3>. QED BY <2>3, <3>1, <3>2, <3>4 DEF BoundedInv
  <2>9. CASE ReachOneUse
    <3>. DEFINE to == UseAt(c.file, c.at, c.by).file
                body == IF to # c.file THEN <<Reach(to, c.bit, c.dist)>> ELSE <<>>
    <3>1. c.file \in Files /\ c.at \in PartsOf(c.file)
          /\ c.by \in 1..Len(Part(c.file, c.at).dependencies)
          /\ c.bit \in Nat /\ c.dist \in Nat /\ walk # <<>> /\ phase = "split"
      BY <2>9, WalkTop DEF ReachOneUse, Splitting, WalkCalls
    <3>2. to \in Files
      BY <2>0, <3>1, GraphFacts
    <3>3. WalkOK(body)
      BY <2>0, <3>1, <3>2, WalkBodiesInRange, NothingToCall
    <3>4. walk' = body \o Tail(walk) /\ bits' = bits /\ distance' = distance
      BY <2>9 DEF ReachOneUse, Proceed, UseAt
    <3>5. \A x \in ElementsOf(body) : x.bit = c.bit /\ x.dist = c.dist
      <4>1. \A y : ElementsOf(<<y>>) = {y}
        BY ElementsOfOne, Zenon
      <4>2. \A x \in ElementsOf(body) : x = Reach(to, c.bit, c.dist)
        BY <4>1, ElementsOfNone
      <4>. QED BY <4>2 DEF Reach
    <3>. HIDE DEF body
    <3>. QED BY <2>3, <3>1, <3>3, <3>4, <3>5 DEF BoundedInv
  <2>10. CASE FinishSplitting \/ UNCHANGED vars
    <3>1. walk' = walk /\ bits' = bits /\ distance' = distance /\ (phase # "shake" \/ phase' = phase)
      BY <2>10 DEF FinishSplitting, vars
    <3>2. ElementsOf(walk)' = ElementsOf(walk) /\ \A x : CallBounded(x)' <=> CallBounded(x)
      BY <3>1 DEF ElementsOf, CallBounded, Nearer
    <3>. QED BY <3>1, <3>2 DEF BoundedInv
  <2>. QED BY <2>4, <2>5, <2>6, <2>7, <2>8, <2>9, <2>10 DEF Next
<1>. QED BY <1>1, <1>2, ShakeTypeCorrect, PTL DEF Spec

(* It depends on the graph, the entry points and what is live alone what   *)
(* leads where.                                                            *)
LEMMA ChainsStay ==
    ASSUME graph' = graph, entries' = entries, liveFiles' = liveFiles
    PROVE  /\ \A g : Chains(g)' <=> Chains(g)
           /\ \A c, g : CallSound(c, g)' <=> CallSound(c, g)
<1>1. \A f : IsEntry(f)' <=> IsEntry(f)
  BY DEF IsEntry, ElementsOf
<1>2. \A f, r : IsExternalDynamicImport(f, r)' <=> IsExternalDynamicImport(f, r)
  BY <1>1, NeedsStay DEF IsExternalDynamicImport
<1>3. \A f : LeadsTo(f)' = LeadsTo(f)
  BY <1>2, NeedsStay DEF LeadsTo, ElementsOf
<1>. QED BY <1>3 DEF Chains, CallSound

(* An action that runs the next call of the walk and gives no bit and no   *)
(* distance is sound if what it calls is.                                  *)
LEMMA SoundStep ==
    ASSUME ShakeTypeOK, SoundInv, phase # "shake", walk # <<>>,
           graph' = graph, entries' = entries, liveFiles' = liveFiles,
           bits' = bits, distance' = distance,
           NEW body, WalkOK(body), walk' = body \o Tail(walk),
           \A g : Chains(g) /\ CallSound(Head(walk), g) =>
               \A x \in ElementsOf(body) : CallSound(x, g)
    PROVE  SoundInv'
<1>. SUFFICES ASSUME NEW g, Chains(g) PROVE SoundFor(g)'
  BY ChainsStay DEF SoundInv
<1>1. SoundFor(g)
  BY DEF SoundInv
<1>2. /\ ElementsOf(walk)' = ElementsOf(body) \cup ElementsOf(Tail(walk))
      /\ ElementsOf(walk) = {Head(walk)} \cup ElementsOf(Tail(walk))
  <2>1. WalkOK(walk)
    BY DEF ShakeTypeOK, WalkOK
  <2>2. ElementsOf(walk)' = ElementsOf(walk')
    BY DEF ElementsOf
  <2>. QED BY <2>1, <2>2, WalkStep
<1>3. \A x \in ElementsOf(walk)' : CallSound(x, g)
  BY <1>1, <1>2 DEF SoundFor
<1>4. \A x \in ElementsOf(walk)' : CallSound(x, g)'
  BY <1>3, ChainsStay
<1>. QED BY <1>1, <1>4 DEF SoundFor

LEMMA SoundCorrect == Spec => []SoundInv
<1>1. Init => SoundInv
  BY DEF Init, SoundInv
<1>2. ShakeTypeOK /\ EnteredInv /\ BoundedInv /\ SoundInv /\ [Next]_vars => SoundInv'
  <2>. SUFFICES ASSUME ShakeTypeOK, EnteredInv, BoundedInv, SoundInv, [Next]_vars PROVE SoundInv'
    OBVIOUS
  <2>. DEFINE c == Head(walk)
  <2>0. /\ graph \in Graphs /\ bits \in [Files -> SUBSET Nat] /\ distance \in [Files -> Nat]
        /\ FarAway \in Nat /\ entries \in Seq(Files) /\ liveFiles \subseteq Files
    BY GraphAssumption DEF ShakeTypeOK
  <2>1. \A x : ElementsOf(<<x>>) = {x}
    BY ElementsOfOne, Zenon
  <2>2. CASE MarkPartLive \/ MarkFileLive \/ ScanOnePart \/ FollowOneRecord
    <3>1. phase' = "shake"
      BY <2>2 DEF MarkPartLive, MarkFileLive, ScanOnePart, FollowOneRecord, Shaking
    <3>. QED BY <3>1 DEF SoundInv
  <2>3. CASE StartSplitting
    <3>1. graph' = graph /\ entries' = entries /\ liveFiles' = liveFiles
          /\ bits' = [f \in Files |-> {}] /\ distance' = [f \in Files |-> FarAway]
      BY <2>3 DEF StartSplitting, EnteredInv
    <3>2. ElementsOf(walk)' = {Reach(entries[i], i, 0) : i \in 1..Len(entries)}
      <4>1. ElementsOf(walk)' = ElementsOf(walk')
        BY DEF ElementsOf
      <4>. QED BY <2>0, <2>3, <4>1, EntryCalls DEF StartSplitting
    <3>3. ASSUME NEW g, Chains(g) PROVE SoundFor(g)'
      <4>1. ASSUME NEW i \in 1..Len(entries) PROVE CallSound(Reach(entries[i], i, 0), g)
        BY <3>3 DEF CallSound, Reach, Chains
      <4>2. \A x \in ElementsOf(walk)' : CallSound(x, g)'
        BY <3>1, <3>2, <4>1, ChainsStay
      <4>. QED BY <3>1, <4>2 DEF SoundFor
    <3>. QED BY <3>1, <3>3, ChainsStay DEF SoundInv
  <2>4. CASE MarkFileReachable
    <3>. DEFINE f == c.file
                b == c.bit
                d == c.dist
                e == (d + 1) % (FarAway + 1)
                closer == f \in liveFiles /\ d < distance[f]
                enters == f \in liveFiles /\ (closer \/ b \notin bits[f])
                body == IF enters THEN ReachBody(f, b, e) ELSE <<>>
    <3>1. f \in Files /\ b \in Nat /\ d \in Nat /\ walk # <<>> /\ c.op = "reach" /\ phase = "split"
      BY <2>4, WalkTop DEF MarkFileReachable, Splitting, WalkCalls
    <3>2. /\ walk' = body \o Tail(walk)
          /\ bits' = IF enters THEN [bits EXCEPT ![f] = @ \cup {b}] ELSE bits
          /\ distance' = IF closer THEN [distance EXCEPT ![f] = d] ELSE distance
      BY <2>4 DEF MarkFileReachable, Proceed
    <3>3. graph' = graph /\ entries' = entries /\ liveFiles' = liveFiles
      BY <2>4 DEF MarkFileReachable
    <3>4. enters => e = d + 1
      BY <3>1, NoWrap
    <3>5. e \in Nat
      <4>1. d + 1 \in Nat /\ FarAway + 1 \in Nat /\ FarAway + 1 > 0
        BY <2>0, <3>1
      <4>2. \A x, n \in Nat : n > 0 => x % n \in Nat
        OBVIOUS
      <4>. QED BY <4>1, <4>2
    <3>6. \A g \in Files : bits'[g] = IF g = f /\ enters THEN bits[f] \cup {b} ELSE bits[g]
      BY <2>0, <3>2
    <3>7. \A g \in Files : distance'[g] = IF g = f /\ closer THEN d ELSE distance[g]
      BY <2>0, <3>2
    <3>8. WalkOK(body)
      BY <2>0, <3>1, <3>5, WalkBodiesInRange, NothingToCall
    <3>9. /\ ElementsOf(walk)' = ElementsOf(body) \cup ElementsOf(Tail(walk))
          /\ ElementsOf(walk) = {c} \cup ElementsOf(Tail(walk))
      <4>1. WalkOK(walk)
        BY DEF ShakeTypeOK, WalkOK
      <4>2. ElementsOf(walk)' = ElementsOf(walk')
        BY DEF ElementsOf
      <4>. HIDE DEF body
      <4>. QED BY <3>1, <3>2, <3>8, <4>1, <4>2, WalkStep
    <3>10. ASSUME NEW g, Chains(g) PROVE SoundFor(g)'
      <4>1. SoundFor(g)
        BY <3>1, <3>10 DEF SoundInv
      <4>2. CallSound(c, g)
        BY <3>9, <4>1 DEF SoundFor
      <4>3. b \in 1..Len(entries) /\ (f \in liveFiles => f \in g[b][d])
        BY <3>1, <4>2 DEF CallSound
      <4>4. ASSUME NEW x \in ElementsOf(body) PROVE CallSound(x, g)
        <5>1. enters /\ x \in ElementsOf(ReachBody(f, b, d + 1))
          BY <3>4, ElementsOfNone
        <5>2. f \in g[b][d] /\ LeadsTo(f) \subseteq g[b][d + 1]
          BY <3>1, <3>10, <4>3, <5>1 DEF Chains
        <5>3. d + 1 \in Nat /\ d + 1 # 0 /\ (d + 1) - 1 = d
          BY <3>1
        <5>. HIDE DEF f, b, d, e, c, body, enters
        <5>4. \/ graph.file[f].kind = "js" /\ x = Reach(graph.file[f].css, b, d + 1)
              \/ \E r : x = ReachRecord(f, r, b, d + 1)
              \/ \E p : x = ReachPart(f, p, b, d + 1)
          <6>. DEFINE n == d + 1
          <6>1. graph \in Graphs /\ f \in Files /\ b \in Nat /\ n \in Nat
                /\ x \in ElementsOf(ReachBody(f, b, n))
            BY <2>0, <3>1, <5>1, <5>3
          <6>. HIDE DEF n
          <6>2. \/ graph.file[f].kind = "js" /\ x = Reach(graph.file[f].css, b, n)
                \/ \E r : x = ReachRecord(f, r, b, n)
                \/ \E p : x = ReachPart(f, p, b, n)
            BY <6>1, ReachBodyCalls
          <6>. QED BY <6>2 DEF n
        <5>5. CASE x = Reach(graph.file[f].css, b, d + 1)
          <6>1. graph.file[f].css \in liveFiles => graph.file[f].css \in g[b][d + 1]
            BY <2>0, <3>1, <5>2, LeadsToIs
          <6>. QED BY <4>3, <5>5, <6>1 DEF CallSound, Reach
        <5>6. CASE \E r : x = ReachRecord(f, r, b, d + 1)
          BY <4>3, <5>2, <5>3, <5>6 DEF CallSound, ReachRecord
        <5>7. CASE \E p : x = ReachPart(f, p, b, d + 1)
          BY <4>3, <5>2, <5>3, <5>7 DEF CallSound, ReachPart
        <5>. QED BY <5>4, <5>5, <5>6, <5>7
      <4>5. \A x \in ElementsOf(walk)' : CallSound(x, g)'
        <5>. HIDE DEF body
        <5>. QED BY <3>3, <3>9, <4>1, <4>4, ChainsStay DEF SoundFor
      <4>6. ASSUME NEW h \in Files, NEW k \in bits'[h]
            PROVE  k \in 1..Len(entries) /\ \E n \in Nat : h \in g[k][n]
        <5>1. CASE k \in bits[h]
          BY <4>1, <5>1 DEF SoundFor
        <5>2. CASE k \notin bits[h]
          <6>1. h = f /\ enters /\ k = b
            BY <3>6, <5>2
          <6>. QED BY <3>1, <4>3, <6>1
        <5>. QED BY <5>1, <5>2
      <4>7. ASSUME NEW h \in Files, distance'[h] # FarAway
            PROVE  \E k \in 1..Len(entries) : h \in g[k][distance'[h]]
        <5>1. CASE distance'[h] = distance[h]
          BY <4>1, <4>7, <5>1 DEF SoundFor
        <5>2. CASE distance'[h] # distance[h]
          <6>1. h = f /\ closer /\ distance'[h] = d
            BY <3>7, <5>2
          <6>. QED BY <4>3, <6>1
        <5>. QED BY <5>1, <5>2
      <4>. HIDE DEF f, b, d, e, c, body, enters, closer
      <4>. QED BY <3>3, <4>5, <4>6, <4>7 DEF SoundFor
    <3>. QED BY <3>3, <3>10, ChainsStay DEF SoundInv
  <2>5. CASE ReachOneRecord
    <3>. DEFINE f == c.file
                to == Record(f, c.at).target
                enters == to # NoFile /\ ~IsExternalDynamicImport(f, c.at)
                body == IF enters THEN <<Reach(to, c.bit, c.dist)>> ELSE <<>>
    <3>1. f \in Files /\ c.at \in RecordsOf(f) /\ c.bit \in Nat /\ c.dist \in Nat
          /\ walk # <<>> /\ c.op = "record" /\ phase = "split"
      BY <2>5, WalkTop DEF ReachOneRecord, Splitting, WalkCalls
    <3>2. enters => to \in Files
      BY <2>0, <3>1, GraphFacts
    <3>3. WalkOK(body) /\ walk' = body \o Tail(walk)
      BY <2>0, <2>5, <3>1, <3>2, WalkBodiesInRange, NothingToCall DEF ReachOneRecord, Proceed
    <3>4. graph' = graph /\ entries' = entries /\ liveFiles' = liveFiles
          /\ bits' = bits /\ distance' = distance
      BY <2>5 DEF ReachOneRecord
    <3>5. ASSUME NEW g, Chains(g), CallSound(c, g), NEW x \in ElementsOf(body)
          PROVE  CallSound(x, g)
      <4>1. enters /\ x = Reach(to, c.bit, c.dist)
        BY <2>1, ElementsOfNone
      <4>2. c.bit \in 1..Len(entries) /\ c.dist - 1 \in Nat /\ (c.dist - 1) + 1 = c.dist
            /\ f \in g[c.bit][c.dist - 1]
        BY <3>1, <3>5 DEF CallSound
      <4>3. LeadsTo(f) \subseteq g[c.bit][c.dist]
        <5>. DEFINE n == c.dist - 1
        <5>1. n \in Nat /\ f \in g[c.bit][n] /\ n + 1 = c.dist
          BY <4>2
        <5>. HIDE DEF n
        <5>. QED BY <3>5, <4>2, <5>1 DEF Chains
      <4>4. to \in liveFiles => to \in LeadsTo(f)
        BY <2>0, <3>1, <4>1, LeadsToIs
      <4>. QED BY <4>1, <4>2, <4>3, <4>4 DEF CallSound, Reach
    <3>. HIDE DEF body
    <3>. QED BY <3>1, <3>3, <3>4, <3>5, SoundStep
  <2>6. CASE ReachOnePart
    <3>. DEFINE f == c.file
                p == c.at
                b == c.bit
                d == c.dist
                body == UsesOf(f, p, b, d)
    <3>1. f \in Files /\ p \in PartsOf(f) /\ b \in Nat /\ d \in Nat
          /\ walk # <<>> /\ c.op = "part" /\ phase = "split"
      BY <2>6, WalkTop DEF ReachOnePart, Splitting, WalkCalls
    <3>2. WalkOK(body) /\ walk' = body \o Tail(walk)
      BY <2>0, <2>6, <3>1, WalkBodiesInRange DEF ReachOnePart, Proceed, UsesOf
    <3>3. graph' = graph /\ entries' = entries /\ liveFiles' = liveFiles
          /\ bits' = bits /\ distance' = distance
      BY <2>6 DEF ReachOnePart
    <3>4. \A x \in ElementsOf(body) :
            \E i \in 1..Len(Part(f, p).dependencies) : x = ReachUse(f, p, i, b, d)
      BY <2>0, <3>1, UseCalls
    <3>. HIDE DEF body
    <3>5. ASSUME NEW g, CallSound(c, g), NEW x \in ElementsOf(body) PROVE CallSound(x, g)
      <4>1. x.op = "use" /\ x.file = f /\ x.bit = b /\ x.dist = d
        BY <3>4 DEF ReachUse
      <4>. QED BY <3>1, <3>5, <4>1 DEF CallSound
    <3>. QED BY <3>1, <3>2, <3>3, <3>5, SoundStep
  <2>7. CASE ReachOneUse
    <3>. DEFINE f == c.file
                to == UseAt(f, c.at, c.by).file
                body == IF to # f THEN <<Reach(to, c.bit, c.dist)>> ELSE <<>>
    <3>1. f \in Files /\ c.at \in PartsOf(f) /\ c.by \in 1..Len(Part(f, c.at).dependencies)
          /\ c.bit \in Nat /\ c.dist \in Nat /\ walk # <<>> /\ c.op = "use" /\ phase = "split"
      BY <2>7, WalkTop DEF ReachOneUse, Splitting, WalkCalls
    <3>2. to \in Files
      BY <2>0, <3>1, GraphFacts
    <3>3. WalkOK(body)
      BY <2>0, <3>1, <3>2, WalkBodiesInRange, NothingToCall
    <3>4. walk' = body \o Tail(walk)
      BY <2>7 DEF ReachOneUse, Proceed, UseAt
    <3>5. graph' = graph /\ entries' = entries /\ liveFiles' = liveFiles
          /\ bits' = bits /\ distance' = distance
      BY <2>7 DEF ReachOneUse
    <3>6. ASSUME NEW g, Chains(g), CallSound(c, g), NEW x \in ElementsOf(body)
          PROVE  CallSound(x, g)
      <4>1. x = Reach(to, c.bit, c.dist)
        BY <2>1, ElementsOfNone
      <4>2. c.bit \in 1..Len(entries) /\ c.dist - 1 \in Nat /\ (c.dist - 1) + 1 = c.dist
            /\ f \in g[c.bit][c.dist - 1]
        BY <3>1, <3>6 DEF CallSound
      <4>3. LeadsTo(f) \subseteq g[c.bit][c.dist]
        <5>. DEFINE n == c.dist - 1
        <5>1. n \in Nat /\ f \in g[c.bit][n] /\ n + 1 = c.dist
          BY <4>2
        <5>. HIDE DEF n
        <5>. QED BY <3>6, <4>2, <5>1 DEF Chains
      <4>4. to \in liveFiles => to \in LeadsTo(f)
        BY <2>0, <3>1, LeadsToIs
      <4>. QED BY <4>1, <4>2, <4>3, <4>4 DEF CallSound, Reach
    <3>. HIDE DEF body
    <3>. QED BY <3>1, <3>3, <3>4, <3>5, <3>6, SoundStep
  <2>8. CASE FinishSplitting \/ UNCHANGED vars
    <3>1. graph' = graph /\ entries' = entries /\ liveFiles' = liveFiles /\ walk' = walk
          /\ bits' = bits /\ distance' = distance /\ (phase # "shake" \/ phase' = phase)
      BY <2>8 DEF FinishSplitting, vars
    <3>2. ElementsOf(walk)' = ElementsOf(walk)
      BY <3>1 DEF ElementsOf
    <3>3. \A g : SoundFor(g) => SoundFor(g)'
      BY <3>1, <3>2, ChainsStay DEF SoundFor
    <3>. QED BY <3>1, <3>3, ChainsStay DEF SoundInv
  <2>. QED BY <2>2, <2>3, <2>4, <2>5, <2>6, <2>7, <2>8 DEF Next
<1>. QED BY <1>1, <1>2, ShakeTypeCorrect, EnteredCorrect, BoundedCorrect, PTL DEF Spec

-----------------------------------------------------------------------------
(* What is within some number of steps of an entry point                   *)

LEMMA SetsIterate ==
    ASSUME NEW y \in SUBSET Files, NEW G \in [SUBSET Files -> SUBSET Files]
    PROVE  \E g \in [Nat -> SUBSET Files] : g[0] = y /\ \A i \in Nat : g[i + 1] = G[g[i]]
<1>. DEFINE X == SUBSET Files
<1>1. y \in X /\ G \in [X -> X]
  OBVIOUS
<1>. HIDE DEF X
<1>2. \E g \in [Nat -> X] : g[0] = y /\ \A i \in Nat : g[i + 1] = G[g[i]]
  BY <1>1, Iterates
<1>. QED BY <1>2 DEF X

LEMMA SetsSaturate ==
    ASSUME NEW g \in [Nat -> SUBSET Files], NEW G,
           \A i \in Nat : g[i + 1] = G[g[i]],
           \A i \in Nat : g[i] \subseteq g[i + 1]
    PROVE  g[Cardinality(Files) + 1] = g[Cardinality(Files)]
<1>. DEFINE N == Cardinality(Files)
            size(i) == Cardinality(g[i])
            T == {i \in Nat : g[i + 1] = g[i] \/ size(i) >= i}
<1>1. IsFiniteSet(Files) /\ N \in Nat
  BY GraphAssumption, FS_CardinalityType
<1>2. \A i \in Nat : IsFiniteSet(g[i]) /\ size(i) \in Nat /\ size(i) <= N
  BY <1>1, FS_Subset, FS_CardinalityType
<1>3. \A i \in Nat : g[i + 1] # g[i] => size(i + 1) > size(i)
  <2>. SUFFICES ASSUME NEW i \in Nat, g[i + 1] # g[i] PROVE size(i + 1) > size(i)
    OBVIOUS
  <2>1. i + 1 \in Nat /\ IsFiniteSet(g[i + 1]) /\ g[i] \subseteq g[i + 1]
    BY <1>2
  <2>. DEFINE S == g[i]
              T2 == g[i + 1]
  <2>2. S # T2 /\ S \subseteq T2 /\ IsFiniteSet(T2)
    BY <2>1
  <2>. HIDE DEF S, T2
  <2>3. Cardinality(S) <= Cardinality(T2) /\ Cardinality(S) # Cardinality(T2)
    BY <2>2, FS_Subset
  <2>4. size(i) <= size(i + 1) /\ size(i) # size(i + 1)
    BY <2>3 DEF S, T2
  <2>5. size(i) \in Nat /\ size(i + 1) \in Nat
    BY <1>2, <2>1
  <2>. HIDE DEF size
  <2>. QED BY <2>4, <2>5
<1>. HIDE DEF size
<1>4. 0 \in T
  BY <1>2
<1>5. ASSUME NEW i \in T PROVE i + 1 \in T
  <2>1. i \in Nat /\ i + 1 \in Nat
    OBVIOUS
  <2>2. CASE g[i + 1] = g[i]
    <3>1. g[(i + 1) + 1] = G[g[i + 1]] /\ g[i + 1] = G[g[i]]
      BY <2>1
    <3>. QED BY <2>1, <2>2, <3>1
  <2>3. CASE g[i + 1] # g[i]
    <3>1. size(i) >= i /\ size(i + 1) > size(i)
      BY <1>3, <2>3
    <3>2. size(i + 1) >= i + 1
      BY <1>2, <2>1, <3>1
    <3>. QED BY <2>1, <3>2
  <2>. QED BY <2>2, <2>3
<1>. HIDE DEF T, N
<1>6. N \in T
  <2>1. T \in SUBSET Nat
    BY DEF T
  <2>. QED BY <1>1, <1>4, <1>5, <2>1, NatSets
<1>7. CASE g[N + 1] # g[N]
  <2>1. size(N) >= N /\ size(N + 1) > size(N)
    BY <1>1, <1>3, <1>6, <1>7 DEF T
  <2>2. N + 1 \in Nat
    BY <1>1
  <2>. QED BY <1>1, <1>2, <2>1, <2>2
<1>. QED BY <1>7 DEF N

LEMMA StepsWithin ==
    ASSUME graph \in Graphs, liveFiles \subseteq Files, NEW b \in 1..Len(entries)
    PROVE  \E g \in [Nat -> SUBSET Files] :
              /\ g[0] = {entries[b]} \cap liveFiles
              /\ \A i \in Nat : g[i + 1] = g[i] \cup UNION {LeadsTo(f) : f \in g[i]}
              /\ \A n \in Nat : WithinSteps(b, n) = g[n]
              /\ \A n \in Nat : g[n] \subseteq g[Cardinality(Files)]
<1>. DEFINE x == {entries[b]} \cap liveFiles
            Step(S) == S \cup UNION {LeadsTo(f) : f \in S}
            F == [S \in SUBSET Files |-> Step(S)]
            within == CHOOSE within : within = [i \in Nat |-> IF i = 0
                          THEN {entries[b]} \cap liveFiles
                          ELSE LET was == within[i - 1] IN was \cup UNION {LeadsTo(f) : f \in was}]
<1>1. x \in SUBSET Files
  OBVIOUS
<1>2. F \in [SUBSET Files -> SUBSET Files]
  <2>1. \A f : LeadsTo(f) \subseteq liveFiles
    BY DEF LeadsTo
  <2>. QED BY <2>1
<1>3. \A n \in Nat : WithinSteps(b, n) = within[n]
  BY DEF WithinSteps
<1>. HIDE DEF x, F
<1>4. PICK g \in [Nat -> SUBSET Files] : g[0] = x /\ \A i \in Nat : g[i + 1] = F[g[i]]
  <2>. HIDE DEF within, Step
  <2>. QED BY <1>1, <1>2, SetsIterate
<1>5. \A i \in Nat : g[i + 1] = Step(g[i])
  BY <1>4 DEF F
<1>6. g = [i \in Nat |-> IF i = 0 THEN x ELSE Step(g[i - 1])]
  <2>. HIDE DEF Step
  <2>1. ASSUME NEW i \in Nat PROVE g[i] = IF i = 0 THEN x ELSE Step(g[i - 1])
    <3>1. CASE i = 0
      BY <1>4, <3>1
    <3>2. CASE i # 0
      <4>1. i - 1 \in Nat /\ (i - 1) + 1 = i
        BY <3>2
      <4>. QED BY <1>5, <3>2, <4>1
    <3>. QED BY <3>1, <3>2
  <2>2. g = [i \in Nat |-> g[i]]
    OBVIOUS
  <2>. QED BY <2>1, <2>2
<1>7. within = [i \in Nat |-> IF i = 0 THEN x ELSE Step(within[i - 1])]
  BY <1>6 DEF x
<1>. HIDE DEF within, Step
<1>8. \A i \in Nat : within[i] = IF i = 0 THEN x ELSE Step(within[i - 1])
  <2>. DEFINE h == [i \in Nat |-> IF i = 0 THEN x ELSE Step(within[i - 1])]
  <2>1. \A i \in Nat : h[i] = IF i = 0 THEN x ELSE Step(within[i - 1])
    OBVIOUS
  <2>2. within = h
    BY <1>7
  <2>. HIDE DEF h
  <2>. QED BY <2>1, <2>2
<1>9. \A i \in Nat : within[i] = g[i]
  <2>. DEFINE T == {i \in Nat : within[i] = g[i]}
  <2>1. 0 \in T
    BY <1>4, <1>8
  <2>2. ASSUME NEW i \in T PROVE i + 1 \in T
    <3>1. i + 1 \in Nat /\ i + 1 # 0 /\ (i + 1) - 1 = i /\ within[i] = g[i]
      OBVIOUS
    <3>2. within[i + 1] = Step(within[i])
      BY <1>8, <3>1
    <3>. QED BY <1>5, <3>1, <3>2
  <2>. HIDE DEF T
  <2>3. T \in SUBSET Nat
    BY DEF T
  <2>4. T = Nat
    BY <2>1, <2>2, <2>3, NatSets
  <2>. QED BY <2>4 DEF T
<1>10. \A i \in Nat : g[i] \subseteq g[i + 1]
  BY <1>5 DEF Step
<1>. DEFINE N == Cardinality(Files)
<1>11. N \in Nat
  BY GraphAssumption, FS_CardinalityType
<1>12. g[N + 1] = g[N]
  BY <1>2, <1>4, <1>10, SetsSaturate
<1>. HIDE DEF N
<1>13. \A i \in Nat : g[i] \subseteq g[N]
  <2>1. \A k \in Nat : g[N + k] = g[N]
    <3>. DEFINE T == {k \in Nat : g[N + k] = g[N]}
    <3>1. 0 \in T
      BY <1>11
    <3>2. ASSUME NEW k \in T PROVE k + 1 \in T
      <4>1. k \in Nat /\ N + k \in Nat /\ N + (k + 1) = (N + k) + 1 /\ g[N + k] = g[N]
        BY <1>11
      <4>2. g[(N + k) + 1] = F[g[N + k]] /\ g[N + 1] = F[g[N]]
        BY <1>4, <1>11, <4>1
      <4>. QED BY <1>12, <4>1, <4>2
    <3>. HIDE DEF T
    <3>3. T \in SUBSET Nat
      BY DEF T
    <3>4. T = Nat
      BY <3>1, <3>2, <3>3, NatSets
    <3>. QED BY <3>4 DEF T
  <2>2. \A k \in Nat : \A i \in Nat : g[i] \subseteq g[i + k]
    <3>. DEFINE T == {k \in Nat : \A i \in Nat : g[i] \subseteq g[i + k]}
    <3>1. 0 \in T
      OBVIOUS
    <3>2. ASSUME NEW k \in T PROVE k + 1 \in T
      <4>1. ASSUME NEW i \in Nat PROVE g[i] \subseteq g[i + (k + 1)]
        <5>1. k \in Nat /\ i + k \in Nat /\ i + (k + 1) = (i + k) + 1 /\ g[i] \subseteq g[i + k]
          OBVIOUS
        <5>. QED BY <1>10, <5>1
      <4>. QED BY <4>1
    <3>. HIDE DEF T
    <3>3. T \in SUBSET Nat
      BY DEF T
    <3>4. T = Nat
      BY <3>1, <3>2, <3>3, NatSets
    <3>. QED BY <3>4 DEF T
  <2>3. ASSUME NEW i \in Nat PROVE g[i] \subseteq g[N]
    <3>1. CASE i <= N
      <4>1. N - i \in Nat /\ i + (N - i) = N
        BY <1>11, <3>1
      <4>. QED BY <2>2, <4>1
    <3>2. CASE ~(i <= N)
      <4>1. i - N \in Nat /\ N + (i - N) = i
        BY <1>11, <3>2
      <4>. QED BY <2>1, <4>1
    <3>. QED BY <3>1, <3>2
  <2>. QED BY <2>3
<1>. QED BY <1>3, <1>4, <1>5, <1>9, <1>13 DEF x, Step, N

(* When both walks are over, every live file has the bit of exactly the    *)
(* entry points it can be reached from, and its distance is the length of  *)
(* the shortest way from any of them, for every scanned graph: no way is   *)
(* missed by an early return, none is made up, and no distance wraps.      *)
THEOREM BitsAndDistancesAreExact == Spec => []EntryBitsAreReachability
<1>1. ShakeTypeOK /\ EnteredInv /\ SoundInv => EntryBitsAreReachability
  <2>. SUFFICES ASSUME ShakeTypeOK, EnteredInv, SoundInv, phase = "done"
                PROVE  EntryBitsAreReachability
    BY DEF EntryBitsAreReachability
  <2>. DEFINE n == Cardinality(Files)
              B == 1..Len(entries)
              near(d) == UNION {WithinSteps(b, d) : b \in B}
              chain == [b \in B |-> [d \in Nat |-> WithinSteps(b, d)]]
  <2>0. /\ graph \in Graphs /\ bits \in [Files -> SUBSET Nat] /\ distance \in [Files -> Nat]
        /\ FarAway \in Nat /\ liveFiles \subseteq Files /\ entries \in Seq(Files)
        /\ n \in Nat /\ n <= FarAway
    BY GraphAssumption, FS_CardinalityType DEF ShakeTypeOK
  <2>1. ASSUME NEW b \in B
        PROVE  /\ WithinSteps(b, 0) = {entries[b]} \cap liveFiles
               /\ \A d \in Nat : /\ WithinSteps(b, d) \in SUBSET Files
                                 /\ WithinSteps(b, d + 1) =
                                       WithinSteps(b, d) \cup UNION {LeadsTo(f) : f \in WithinSteps(b, d)}
                                 /\ WithinSteps(b, d) \subseteq WithinSteps(b, n)
    <3>1. PICK g \in [Nat -> SUBSET Files] :
              /\ g[0] = {entries[b]} \cap liveFiles
              /\ \A i \in Nat : g[i + 1] = g[i] \cup UNION {LeadsTo(f) : f \in g[i]}
              /\ \A i \in Nat : WithinSteps(b, i) = g[i]
              /\ \A i \in Nat : g[i] \subseteq g[Cardinality(Files)]
      BY <2>0, StepsWithin
    <3>2. WithinSteps(b, 0) = {entries[b]} \cap liveFiles
      BY <3>1
    <3>3. ASSUME NEW d \in Nat
          PROVE  /\ WithinSteps(b, d) \in SUBSET Files
                 /\ WithinSteps(b, d + 1) =
                       WithinSteps(b, d) \cup UNION {LeadsTo(f) : f \in WithinSteps(b, d)}
                 /\ WithinSteps(b, d) \subseteq WithinSteps(b, n)
      <4>1. d + 1 \in Nat /\ n \in Nat
        BY <2>0
      <4>2. WithinSteps(b, d) = g[d] /\ WithinSteps(b, d + 1) = g[d + 1] /\ WithinSteps(b, n) = g[n]
        BY <3>1, <4>1
      <4>. QED BY <3>1, <4>1, <4>2
    <3>. QED BY <3>2, <3>3
  <2>2. Chains(chain)
    <3>1. chain \in [B -> [Nat -> SUBSET Files]]
      BY <2>1
    <3>2. ASSUME NEW b \in B
          PROVE  /\ entries[b] \in liveFiles => entries[b] \in chain[b][0]
                 /\ \A d \in Nat : \A f \in chain[b][d] :
                       f \in chain[b][d + 1] /\ LeadsTo(f) \subseteq chain[b][d + 1]
      <4>1. \A d \in Nat : chain[b][d] = WithinSteps(b, d) /\ chain[b][d + 1] = WithinSteps(b, d + 1)
        OBVIOUS
      <4>2. chain[b][0] = WithinSteps(b, 0)
        BY <4>1
      <4>3. ASSUME NEW d \in Nat, NEW f \in WithinSteps(b, d)
            PROVE  f \in WithinSteps(b, d + 1) /\ LeadsTo(f) \subseteq WithinSteps(b, d + 1)
        <5>1. WithinSteps(b, d + 1) =
                  WithinSteps(b, d) \cup UNION {LeadsTo(h) : h \in WithinSteps(b, d)}
          BY <2>1
        <5>. QED BY <5>1
      <4>4. entries[b] \in liveFiles => entries[b] \in WithinSteps(b, 0)
        BY <2>1
      <4>. HIDE DEF chain
      <4>. QED BY <4>1, <4>2, <4>3, <4>4
    <3>. HIDE DEF chain
    <3>. QED BY <3>1, <3>2 DEF Chains
  <2>3. SoundFor(chain)
    BY <2>2 DEF SoundInv
  <2>. HIDE DEF n
  <2>4. ASSUME NEW f \in Files, NEW b \in bits[f] PROVE b \in B /\ f \in WithinSteps(b, n)
    <3>1. b \in B /\ \E d \in Nat : f \in chain[b][d]
      BY <2>3 DEF SoundFor
    <3>. QED BY <2>1, <3>1
  <2>5. ASSUME NEW b \in B PROVE \A d \in Nat : \A f \in WithinSteps(b, d) : b \in bits[f]
    <3>. DEFINE T == {d \in Nat : \A f \in WithinSteps(b, d) : b \in bits[f]}
    <3>1. 0 \in T
      BY <2>1, BitsAreClosed
    <3>2. ASSUME NEW d \in T PROVE d + 1 \in T
      <4>1. d \in Nat /\ \A f \in WithinSteps(b, d) : b \in bits[f]
        OBVIOUS
      <4>2. ASSUME NEW f \in WithinSteps(b, d), NEW g \in LeadsTo(f) PROVE b \in bits[g]
        <5>1. f \in Files /\ b \in bits[f]
          BY <2>1, <4>1
        <5>. QED BY <5>1, BitsAreClosed
      <4>. QED BY <2>1, <4>1, <4>2
    <3>. HIDE DEF T
    <3>3. T \in SUBSET Nat
      BY DEF T
    <3>4. T = Nat
      BY <3>1, <3>2, <3>3, NatSets
    <3>. QED BY <3>4 DEF T
  <2>6. /\ \A f \in Files : bits[f] \subseteq B
        /\ \A b \in B : {f \in Files : b \in bits[f]} = WithinSteps(b, n)
    BY <2>0, <2>1, <2>4, <2>5
  <2>7. ASSUME NEW b \in B
        PROVE  \A d \in Nat : d < n => \A f \in WithinSteps(b, d) : distance[f] <= d
    <3>. DEFINE T == {d \in Nat : d < n => \A f \in WithinSteps(b, d) : distance[f] <= d}
    <3>1. 0 \in T
      <4>1. ASSUME NEW f \in WithinSteps(b, 0) PROVE distance[f] <= 0
        <5>1. f = entries[b] /\ f \in liveFiles
          BY <2>1
        <5>2. <<f, 0>> \in First("dist")
          BY <5>1 DEF First
        <5>3. <<f, 0>> \in Satisfied("dist")
          BY <5>1, <5>2, WalkIsClosed
        <5>. QED BY <5>3 DEF Satisfied
      <4>. QED BY <4>1
    <3>2. ASSUME NEW d \in T PROVE d + 1 \in T
      <4>. SUFFICES ASSUME d + 1 < n PROVE \A f \in WithinSteps(b, d + 1) : distance[f] <= d + 1
        OBVIOUS
      <4>1. d \in Nat /\ d + 1 \in Nat /\ d < n /\ \A f \in WithinSteps(b, d) : distance[f] <= d
        BY <2>0
      <4>2. ASSUME NEW f \in WithinSteps(b, d)
            PROVE  /\ distance[f] <= d + 1
                   /\ \A g \in LeadsTo(f) : distance[g] <= d + 1
        <5>1. f \in Files /\ distance[f] \in Nat /\ distance[f] <= d
          BY <2>0, <2>1, <4>1
        <5>2. distance[f] < FarAway /\ distance[f] < d + 1 /\ distance[f] <= d + 1
          BY <2>0, <4>1, <5>1
        <5>3. <<f, d + 1>> \in Owing("dist")
          BY <4>1, <5>1, <5>2 DEF Owing
        <5>4. \A g \in LeadsTo(f) : <<g, d + 1>> \in Satisfied("dist")
          BY <5>3, WalkIsClosed
        <5>. QED BY <5>2, <5>4 DEF Satisfied
      <4>. QED BY <2>1, <4>1, <4>2
    <3>. HIDE DEF T
    <3>3. T \in SUBSET Nat
      BY DEF T
    <3>4. T = Nat
      BY <3>1, <3>2, <3>3, NatSets
    <3>. QED BY <3>4 DEF T
  <2>8. ASSUME NEW b \in B, NEW d \in Nat
        PROVE  \A k \in Nat : WithinSteps(b, d) \subseteq WithinSteps(b, d + k)
    <3>. DEFINE T == {k \in Nat : WithinSteps(b, d) \subseteq WithinSteps(b, d + k)}
    <3>1. 0 \in T
      OBVIOUS
    <3>2. ASSUME NEW k \in T PROVE k + 1 \in T
      <4>1. k \in Nat /\ d + k \in Nat /\ d + (k + 1) = (d + k) + 1
            /\ WithinSteps(b, d) \subseteq WithinSteps(b, d + k)
        OBVIOUS
      <4>. QED BY <2>1, <4>1
    <3>. HIDE DEF T
    <3>3. T \in SUBSET Nat
      BY DEF T
    <3>4. T = Nat
      BY <3>1, <3>2, <3>3, NatSets
    <3>. QED BY <3>4 DEF T
  <2>9. ASSUME NEW d \in 0..(n - 1) PROVE {f \in Files : distance[f] <= d} = near(d)
    <3>0. d \in Nat /\ d < n
      BY <2>0
    <3>1. ASSUME NEW f \in Files, distance[f] <= d PROVE f \in near(d)
      <4>1. distance[f] \in Nat /\ distance[f] # FarAway
        BY <2>0, <3>0, <3>1
      <4>2. PICK b \in B : f \in chain[b][distance[f]]
        BY <2>3, <4>1 DEF SoundFor
      <4>3. d - distance[f] \in Nat /\ distance[f] + (d - distance[f]) = d
        BY <3>0, <3>1, <4>1
      <4>4. f \in WithinSteps(b, d)
        BY <2>8, <4>1, <4>2, <4>3
      <4>. QED BY <4>4
    <3>2. ASSUME NEW f \in near(d) PROVE f \in Files /\ distance[f] <= d
      <4>1. PICK b \in B : f \in WithinSteps(b, d)
        OBVIOUS
      <4>. QED BY <2>1, <2>7, <3>0, <4>1
    <3>. HIDE DEF near
    <3>. QED BY <3>1, <3>2
  <2>. HIDE DEF near
  <2>. QED BY <2>6, <2>9 DEF EntryBitsAreReachability, near, n
<1>. QED BY <1>1, ShakeTypeCorrect, EnteredCorrect, SoundCorrect, PTL
=============================================================================
