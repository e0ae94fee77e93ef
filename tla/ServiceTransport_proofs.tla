---------------------- MODULE ServiceTransport_proofs ----------------------
(***************************************************************************)
(* Theorems about ServiceTransport, for any number of jobs and calls and   *)
(* any space of ids: types, RequestsAreServed and AnswersMatchCalls.       *)
(***************************************************************************)
EXTENDS ServiceTransport, FiniteSets, FiniteSetTheorems, TLAPS

USE DEF Callers, Ids, Mutexes

-----------------------------------------------------------------------------
(* Types, packets included.                                                *)

FromHost ==
    [kind : {"request"}, job : Jobs] \cup [kind : {"answer"}, id : Ids, token : Nat]
    \cup [kind : {"eof"}]
ToHost == [kind : {"call"}, id : Ids, token : Nat] \cup [kind : {"response"}, job : Jobs]

Places ==
    /\ main \in {"read", "close", "close2", "clear", "joinPinger", "joinJobs", "shutdown",
                 "disposed", "drop", "joinWriter", "exited"}
    /\ writer \in {"up", "down", "drained"}
    /\ pinger \in {"wait", "calling", "done"}
    /\ job \in [Jobs -> {"unsent", "sent", "run", "calling", "respond", "finished"}]
    /\ call \in [Callers -> {"none", "lock", "check", "send", "wait", "ok", "err"}]
    /\ lock \in [Mutexes -> Callers \cup {None}]
    /\ closed \in BOOLEAN /\ context \in BOOLEAN /\ creates \subseteq Jobs

Packets ==
    /\ input \in Seq(FromHost)
    /\ outgoing \in Seq(ToHost)
    /\ atHost \subseteq [id : Ids, token : Nat]

Numbers ==
    /\ calls \in Nat
    /\ nextId \in 0..IdSpace
    /\ id \in [Callers -> Ids]
    /\ token \in [Callers -> Nat]
    /\ reply \in [Callers -> Nat \cup {None}]
    /\ DOMAIN pending \subseteq Ids
    /\ pending = [i \in DOMAIN pending |-> pending[i]]
    /\ \A i \in DOMAIN pending : pending[i] \in Callers

Shape == Places /\ Packets /\ Numbers

LEMMA AppendElements ==
    ASSUME NEW S, NEW s \in Seq(S), NEW x \in S
    PROVE  /\ Append(s, x) \in Seq(S)
           /\ Len(Append(s, x)) = Len(s) + 1
           /\ \A n \in 1..Len(s) : Append(s, x)[n] = s[n]
           /\ Append(s, x)[Len(s) + 1] = x
OBVIOUS

LEMMA TailElements ==
    ASSUME NEW S, NEW s \in Seq(S), s # <<>>
    PROVE  /\ Tail(s) \in Seq(S)
           /\ Len(s) \in Nat \ {0} /\ Len(Tail(s)) = Len(s) - 1
           /\ \A n \in 1..Len(Tail(s)) : n + 1 \in 1..Len(s) /\ Tail(s)[n] = s[n + 1]
           /\ Head(s) = s[1] /\ Head(s) \in S
OBVIOUS

LEMMA PacketTypes ==
    /\ \A j \in Jobs : JobRequest(j) \in FromHost /\ Response(j) \in ToHost
    /\ \A i \in Ids, t \in Nat : Answer(i, t) \in FromHost /\ Request(i, t) \in ToHost
    /\ EndOfInput \in FromHost
BY DEF FromHost, ToHost, JobRequest, Response, Answer, Request, EndOfInput

\* An id below the bound is drawn as it is.
LEMMA DrawnId ==
    ASSUME NEW n \in 0..IdSpace
    PROVE  n % IdSpace \in Ids /\ (n < IdSpace => n % IdSpace = n)
BY TransportAssumption

\* The steps of the transport, one disjunct for each kind of thread.
LEMMA StepsOfTheTransport ==
    ASSUME [Next]_vars
    PROVE  \/ ~Exited /\ (HostAnswers \/ HostRepeats \/ HostCloses \/ \E j \in Jobs : HostRequests(j))
           \/ ~Exited /\ (Write \/ WriteFails \/ WriterEnds)
           \/ ~Exited /\ (ReadRequest \/ ReadAnswer \/ ReadEof)
           \/ ~Exited /\ (CloseLocks("close", 1, "close2") \/ CloseLocks("close2", 2, "clear") \/ Close)
           \/ ~Exited /\ (JoinPinger \/ JoinJobs \/ Shutdown \/ Disposed \/ DropService \/ JoinWriter)
           \/ ~Exited /\ (BuilderCalls \/ BuilderResumes \/ PingWaits \/ PingReturns)
           \/ ~Exited /\ \E j \in Jobs : JobCalls(j) \/ JobResumes(j) \/ JobHandled(j) \/ JobResponds(j)
           \/ ~Exited /\ \E c \in Callers : SendLock(c) \/ SendCheck(c) \/ SendPacket(c) \/ Receive(c)
           \/ UNCHANGED vars
BY DEF Next, HostStep, MainStep, ThreadStep, SendRequest, JobStep

\* A call that begins or ends leaves the numbers in their ranges.
LEMMA CallTypes ==
    ASSUME Numbers, NEW Steps, call \in [Callers -> Steps], {"lock", "none"} \subseteq Steps,
           NEW c \in Callers, BeginCall(c) \/ EndCall(c)
    PROVE  Numbers' /\ call' \in [Callers -> Steps]
<1>1. nextId' = nextId /\ pending' = pending
  BY DEF BeginCall, EndCall
<1>2. CASE BeginCall(c)
  <2>1. call' \in [Callers -> Steps] /\ calls' \in Nat /\ token' \in [Callers -> Nat]
    BY <1>2 DEF BeginCall, Numbers
  <2>2. id' = id /\ reply' = reply
    BY <1>2 DEF BeginCall
  <2>. QED BY <1>1, <2>1, <2>2 DEF Numbers
<1>3. CASE EndCall(c)
  <2>1. call' \in [Callers -> Steps] /\ calls' = calls
    BY <1>3 DEF EndCall
  <2>2. id' \in [Callers -> Ids] /\ token' \in [Callers -> Nat]
    BY <1>3, TransportAssumption DEF EndCall, Numbers
  <2>3. reply' \in [Callers -> Nat \cup {None}]
    BY <1>3 DEF EndCall, Numbers
  <2>. QED BY <1>1, <2>1, <2>2, <2>3 DEF Numbers
<1>. QED BY <1>2, <1>3

LEMMA ShapeStep == ASSUME Shape, [Next]_vars PROVE Shape'
<1>. USE TransportAssumption
     DEF Shape, Places, Packets, Numbers, hostVars, pipeVars, jobVars, sendVars, Exited
<1>1. ASSUME NEW j \in Jobs, HostRequests(j) PROVE Shape'
  BY <1>1, PacketTypes, AppendElements DEF HostRequests
<1>2. CASE HostAnswers
  <2>1. PICK r \in atHost : input' = Append(input, Answer(r.id, r.token)) /\ atHost' = atHost \ {r}
    BY <1>2 DEF HostAnswers
  <2>2. Answer(r.id, r.token) \in FromHost
    BY PacketTypes
  <2>. QED  BY <1>2, <2>1, <2>2, AppendElements DEF HostAnswers
<1>3. CASE HostRepeats
  <2>1. PICK i \in 0..(nextId - 1) : input' = Append(input, Answer(i, 0))
    BY <1>3 DEF HostRepeats
  <2>2. Answer(i, 0) \in FromHost
    <3>1. i \in Ids
      OBVIOUS
    <3>. QED  BY <3>1, PacketTypes
  <2>. QED  BY <1>3, <2>1, <2>2, AppendElements DEF HostRepeats
<1>4. CASE HostCloses
  BY <1>4, PacketTypes, AppendElements DEF HostCloses
<1>5. CASE Write
  <2>1. outgoing' \in Seq(ToHost) /\ Head(outgoing) \in ToHost
    BY <1>5, TailElements DEF Write
  <2>2. atHost' \subseteq [id : Ids, token : Nat]
    BY <1>5, <2>1 DEF Write, ToHost
  <2>. QED  BY <1>5, <2>1, <2>2 DEF Write
<1>6. CASE WriteFails \/ WriterEnds
  <2>1. outgoing' \in Seq(ToHost)
    <3>1. <<>> \in Seq(ToHost)
      OBVIOUS
    <3>. QED  BY <1>6, <3>1 DEF WriteFails, WriterEnds
  <2>. QED  BY <1>6, <2>1 DEF WriteFails, WriterEnds
<1>7. CASE ReadRequest
  <2>1. input' \in Seq(FromHost) /\ Head(input) \in FromHost
    BY <1>7, TailElements DEF ReadRequest, Read
  <2>2. Head(input).job \in Jobs
    BY <1>7, <2>1 DEF ReadRequest, FromHost
  <2>. QED  BY <1>7, <2>1, <2>2 DEF ReadRequest, Read
<1>8. CASE ReadAnswer
  <2>1. input' \in Seq(FromHost) /\ Head(input) \in FromHost
    BY <1>8, TailElements DEF ReadAnswer, Read
  <2>2. Head(input).id \in Ids /\ Head(input).token \in Nat
    BY <1>8, <2>1 DEF ReadAnswer, FromHost
  <2>3. /\ DOMAIN pending' \subseteq Ids
        /\ pending' = [k \in DOMAIN pending' |-> pending'[k]]
        /\ \A k \in DOMAIN pending' : pending'[k] \in Callers
    <3>1. CASE pending' = pending
      BY <3>1
    <3>2. CASE pending' = [k \in DOMAIN pending \ {Head(input).id} |-> pending[k]]
      BY <3>2
    <3>. QED  BY <1>8, <3>1, <3>2 DEF ReadAnswer, Without
  <2>4. reply' \in [Callers -> Nat \cup {None}] /\ main' \in {main, "close"}
    BY <1>8, <2>2 DEF ReadAnswer
  <2>5. /\ job' = job
        /\ UNCHANGED <<atHost, pipeVars, creates, context, nextId, call, id, token, calls, lock,
                       closed, pinger>>
    BY <1>8 DEF ReadAnswer, Read
  <2>6. Places'
    BY <2>4, <2>5
  <2>7. Packets'
    BY <2>1, <2>5
  <2>8. Numbers'
    BY <2>3, <2>4, <2>5
  <2>. QED  BY <2>6, <2>7, <2>8
<1>9. CASE ReadEof
  <2>1. input' \in Seq(FromHost)
    BY <1>9, TailElements DEF ReadEof, Read
  <2>. QED  BY <1>9, <2>1 DEF ReadEof, Read
<1>10. CASE CloseLocks("close", 1, "close2") \/ CloseLocks("close2", 2, "clear")
  <2>1. lock' \in [Mutexes -> Callers \cup {None}]
    BY <1>10 DEF CloseLocks
  <2>. QED  BY <1>10, <2>1 DEF CloseLocks
<1>11. CASE Close
  BY <1>11 DEF Close
<1>12. CASE JoinPinger \/ JoinJobs \/ DropService \/ JoinWriter
  BY <1>12 DEF JoinPinger, JoinJobs, DropService, JoinWriter, ToMain
<1>13. CASE Shutdown
  BY <1>13 DEF Shutdown, ToMain, BeginCall
<1>14. CASE Disposed
  <2>1. Numbers'
    BY <1>14 DEF Disposed, ToMain, EndCall
  <2>2. Places'
    BY <1>14 DEF Disposed, ToMain, EndCall
  <2>. QED  BY <1>14, <2>1, <2>2 DEF Disposed, ToMain
<1>15. CASE BuilderCalls \/ BuilderResumes
  BY <1>15 DEF BuilderCalls, BuilderResumes, BeginCall, EndCall
<1>16. CASE PingWaits \/ PingReturns
  BY <1>16 DEF PingWaits, PingReturns, BeginCall, EndCall
<1>17. ASSUME NEW j \in Jobs, JobCalls(j) \/ JobResumes(j) PROVE Shape'
  <2>1. j \in Callers /\ (BeginCall(j) \/ EndCall(j))
    BY <1>17 DEF JobCalls, JobResumes
  <2>2. Numbers' /\ call' \in [Callers -> {"none", "lock", "check", "send", "wait", "ok", "err"}]
    BY <2>1, CallTypes
  <2>3. job' \in [Jobs -> {"unsent", "sent", "run", "calling", "respond", "finished"}]
    BY <1>17 DEF JobCalls, JobResumes
  <2>4. UNCHANGED <<hostVars, pipeVars, creates, context, lock, closed, main, pinger>>
    BY <1>17 DEF JobCalls, JobResumes
  <2>5. Places'
    BY <2>2, <2>3, <2>4
  <2>6. Packets'
    BY <2>4
  <2>. HIDE DEF Numbers, Places, Packets
  <2>. QED  BY <2>2, <2>5, <2>6
<1>18. ASSUME NEW j \in Jobs, JobHandled(j) PROVE Shape'
  <2>1. job' \in [Jobs -> {"unsent", "sent", "run", "calling", "respond", "finished"}]
        /\ context' \in BOOLEAN
    BY <1>18 DEF JobHandled
  <2>2. UNCHANGED <<hostVars, pipeVars, creates, sendVars, lock, closed, main, pinger>>
    BY <1>18 DEF JobHandled
  <2>3. Places'
    BY <2>1, <2>2
  <2>4. Packets' /\ Numbers'
    BY <2>2
  <2>. QED  BY <2>3, <2>4
<1>19. ASSUME NEW j \in Jobs, JobResponds(j) PROVE Shape'
  <2>1. job' \in [Jobs -> {"unsent", "sent", "run", "calling", "respond", "finished"}]
    BY <1>19 DEF JobResponds
  <2>2. outgoing' \in Seq(ToHost)
    <3>1. Response(j) \in ToHost /\ outgoing \in Seq(ToHost)
      BY PacketTypes
    <3>2. outgoing' = Append(outgoing, Response(j)) \/ outgoing' = outgoing
      BY <1>19 DEF JobResponds
    <3>3. Append(outgoing, Response(j)) \in Seq(ToHost)
      <4>. HIDE DEF Shape, Places, Packets, Numbers
      <4>. QED  BY <3>1, AppendElements
    <3>. QED  BY <3>1, <3>2, <3>3
  <2>3. UNCHANGED <<hostVars, writer, answers, creates, context, sendVars, lock, closed, main, pinger>>
    BY <1>19 DEF JobResponds
  <2>4. Places'
    BY <2>1, <2>3
  <2>5. Packets' /\ Numbers'
    BY <2>2, <2>3
  <2>. QED  BY <2>4, <2>5
<1>20. ASSUME NEW c \in Callers, SendLock(c) PROVE Shape'
  BY <1>20 DEF SendLock
<1>21. ASSUME NEW c \in Callers, SendCheck(c) PROVE Shape'
  <2>. DEFINE i == nextId % IdSpace
  <2>1. i \in Ids
    BY DrawnId
  <2>2. /\ UNCHANGED <<input, outgoing, atHost, main, writer, pinger, job, closed, context, creates>>
        /\ UNCHANGED <<calls, token, reply>>
        /\ lock' \in [Mutexes -> Callers \cup {None}]
    BY <1>21 DEF SendCheck
  <2>3. call' \in [Callers -> {"none", "lock", "check", "send", "wait", "ok", "err"}]
    BY <1>21 DEF SendCheck
  <2>4. \/ UNCHANGED <<nextId, pending, id>>
        \/ /\ id' = [id EXCEPT ![c] = i]
           /\ nextId' = i + 1
           /\ pending' = [k \in DOMAIN pending \cup {i} |-> IF k = i THEN c ELSE pending[k]]
    BY <1>21 DEF SendCheck
  <2>. HIDE DEF i
  <2>5. nextId' \in 0..IdSpace /\ id' \in [Callers -> Ids]
    BY <2>1, <2>4
  <2>6. /\ DOMAIN pending' \subseteq Ids
        /\ pending' = [k \in DOMAIN pending' |-> pending'[k]]
        /\ \A k \in DOMAIN pending' : pending'[k] \in Callers
    <3>1. CASE UNCHANGED pending
      BY <3>1
    <3>2. CASE pending' = [k \in DOMAIN pending \cup {i} |-> IF k = i THEN c ELSE pending[k]]
      <4>1. DOMAIN pending' = DOMAIN pending \cup {i}
        BY <3>2
      <4>2. \A k \in DOMAIN pending' : pending'[k] = IF k = i THEN c ELSE pending[k]
        BY <3>2
      <4>3. pending' = [k \in DOMAIN pending' |-> pending'[k]]
        BY <3>2
      <4>. QED  BY <2>1, <4>1, <4>2, <4>3
    <3>. QED  BY <2>4, <3>1, <3>2
  <2>7. Numbers'
    BY <2>2, <2>5, <2>6
  <2>. QED  BY <2>2, <2>3, <2>7
<1>22. ASSUME NEW c \in Callers, SendPacket(c) PROVE Shape'
  <2>1. Request(id[c], token[c]) \in ToHost
    BY PacketTypes
  <2>2. outgoing' \in Seq(ToHost)
    <3>1. Append(outgoing, Request(id[c], token[c])) \in Seq(ToHost)
      BY <2>1, AppendElements
    <3>. QED  BY <1>22, <3>1 DEF SendPacket
  <2>3. Numbers'
    BY <1>22 DEF SendPacket, Without
  <2>. QED  BY <1>22, <2>2, <2>3 DEF SendPacket
<1>23. ASSUME NEW c \in Callers, Receive(c) PROVE Shape'
  BY <1>23 DEF Receive
<1>24. CASE UNCHANGED vars
  BY <1>24 DEF vars
<1>. QED
  BY <1>1, <1>2, <1>3, <1>4, <1>5, <1>6, <1>7, <1>8, <1>9, <1>10, <1>11, <1>12, <1>13, <1>14,
     <1>15, <1>16, <1>17, <1>18, <1>19, <1>20, <1>21, <1>22, <1>23, <1>24, StepsOfTheTransport

-----------------------------------------------------------------------------
(* Requests and responses.                                                 *)

\* A thread that is not waiting for a call has none.
Calling ==
    /\ \A j \in Jobs : call[j] # "none" => job[j] = "calling"
    /\ call[Pinger] # "none" => pinger = "calling"
    /\ call[Main] # "none" => main \in {"disposed", "exited"}
    /\ call[Builder] # "none" => context

\* A request is in the pipe once, before its job starts.
SentOnce ==
    \A m, n \in 1..Len(input) : input[m].kind = "request" =>
        /\ job[input[m].job] = "sent"
        /\ input[n] = input[m] => n = m

\* The response of a job that has finished is in the pipe or at the host,
\* once, unless the writer has failed.
AnsweredOnce ==
    /\ answers \in [Jobs -> 0..1]
    /\ \A j \in Jobs : answers[j] = 1 => job[j] = "finished"
    /\ \A m, n \in 1..Len(outgoing) : outgoing[m].kind = "response" =>
          /\ job[outgoing[m].job] = "finished" /\ answers[outgoing[m].job] = 0
          /\ outgoing[n] = outgoing[m] => n = m
    /\ \A j \in Jobs : job[j] = "finished" /\ answers[j] = 0 /\ writer # "down" =>
          \E n \in 1..Len(outgoing) : outgoing[n] = Response(j)
    /\ writer # "up" => outgoing = <<>>

\* After the jobs are joined none starts, so no context appears.
Ending ==
    /\ main \in {"shutdown", "disposed", "drop", "joinWriter"} => JobsJoined
    /\ main = "disposed" => call[Builder] = "none"
    /\ writer = "drained" => main \in {"joinWriter", "exited"} /\ JobsJoined

Served == Calling /\ SentOnce /\ AnsweredOnce /\ Ending /\ NoContextLeft

\* Where jobs, calls and the shutdown stand: no packet matters here, except
\* that a request that is read finds its job not started.
LEMMA EndingStep ==
    ASSUME Shape, Calling, SentOnce, Ending, NoContextLeft, [Next]_vars
    PROVE  Calling' /\ Ending' /\ NoContextLeft'
<1>. DEFINE Goal == Calling /\ Ending /\ NoContextLeft
<1>. SUFFICES Goal'
  OBVIOUS
<1>. USE TransportAssumption
     DEF Shape, Places, Numbers, Calling, Ending, NoContextLeft, JobsJoined, hostVars, pipeVars,
         jobVars, sendVars, Exited
<1>1. CASE HostAnswers \/ HostRepeats \/ HostCloses \/ \E j \in Jobs : HostRequests(j)
  BY <1>1 DEF HostAnswers, HostRepeats, HostCloses, HostRequests
<1>2. CASE Write \/ WriteFails
  BY <1>2 DEF Write, WriteFails
<1>3. CASE WriterEnds
  BY <1>3 DEF WriterEnds, ServiceHeld
<1>4. CASE ReadRequest
  <2>1. Head(input) = input[1] /\ 1 \in 1..Len(input)
    BY <1>4, TailElements DEF ReadRequest, Read, Packets
  <2>2. job[Head(input).job] = "sent"
    BY <1>4, <2>1 DEF ReadRequest, SentOnce
  <2>. QED  BY <1>4, <2>2 DEF ReadRequest, Read
<1>5. CASE ReadAnswer \/ ReadEof
  BY <1>5 DEF ReadAnswer, ReadEof, Read
<1>6. CASE CloseLocks("close", 1, "close2") \/ CloseLocks("close2", 2, "clear") \/ Close
  BY <1>6 DEF CloseLocks, Close
<1>7. CASE JoinPinger \/ JoinJobs \/ DropService \/ JoinWriter
  BY <1>7 DEF JoinPinger, JoinJobs, DropService, JoinWriter, ToMain
<1>8. CASE Shutdown
  BY <1>8 DEF Shutdown, ToMain, BeginCall
<1>9. CASE Disposed
  BY <1>9 DEF Disposed, ToMain, EndCall
<1>10. CASE BuilderCalls
  BY <1>10 DEF BuilderCalls, BeginCall
<1>11. CASE BuilderResumes
  BY <1>11 DEF BuilderResumes, EndCall
<1>12. CASE PingWaits \/ PingReturns
  BY <1>12 DEF PingWaits, PingReturns, BeginCall, EndCall
<1>13. ASSUME NEW j \in Jobs, JobCalls(j) PROVE Goal'
  BY <1>13 DEF JobCalls, BeginCall
<1>14. ASSUME NEW j \in Jobs, JobResumes(j) PROVE Goal'
  BY <1>14 DEF JobResumes, EndCall
<1>15. ASSUME NEW j \in Jobs, JobHandled(j) \/ JobResponds(j) PROVE Goal'
  BY <1>15 DEF JobHandled, JobResponds
<1>16. ASSUME NEW c \in Callers, SendLock(c) \/ SendCheck(c) \/ SendPacket(c) \/ Receive(c)
       PROVE Goal'
  <2>1. call[c] # "none" /\ \E p : call' = [call EXCEPT ![c] = p]
    BY <1>16 DEF SendLock, SendCheck, SendPacket, Receive
  <2>2. UNCHANGED <<job, main, pinger, context, writer>>
    BY <1>16 DEF SendLock, SendCheck, SendPacket, Receive
  <2>3. UNCHANGED JobsJoined
    BY <2>2
  <2>. QED  BY <2>1, <2>2
<1>17. CASE UNCHANGED vars
  BY <1>17 DEF vars
<1>. QED
  BY <1>1, <1>2, <1>3, <1>4, <1>5, <1>6, <1>7, <1>8, <1>9, <1>10, <1>11, <1>12, <1>13, <1>14,
     <1>15, <1>16, <1>17, StepsOfTheTransport

\* The host sends a request once, and reading it starts its job.
LEMMA SentOnceStep == ASSUME Shape, SentOnce, [Next]_vars PROVE SentOnce'
<1>. USE DEF Shape, Places, Packets, hostVars, pipeVars, jobVars
<1>1. ASSUME NEW x \in FromHost, input' = Append(input, x), x.kind # "request", UNCHANGED job
      PROVE SentOnce'
  <2>1. /\ Len(input') = Len(input) + 1
        /\ \A n \in 1..Len(input) : input'[n] = input[n]
        /\ input'[Len(input) + 1] = x
    BY <1>1, AppendElements
  <2>. QED  BY <1>1, <2>1 DEF SentOnce
<1>2. ASSUME NEW j \in Jobs, HostRequests(j) PROVE SentOnce'
  <2>1. /\ Len(input') = Len(input) + 1
        /\ \A n \in 1..Len(input) : input'[n] = input[n]
        /\ input'[Len(input) + 1] = JobRequest(j)
    BY <1>2, AppendElements, PacketTypes DEF HostRequests
  <2>2. job[j] = "unsent" /\ job' = [job EXCEPT ![j] = "sent"]
    BY <1>2 DEF HostRequests
  <2>3. ASSUME NEW n \in 1..Len(input), input[n].kind = "request"
        PROVE  input[n].job \in Jobs /\ input[n].job # j /\ input[n] # JobRequest(j)
    <3>1. input[n] \in FromHost
      OBVIOUS
    <3>2. input[n].job \in Jobs /\ job[input[n].job] = "sent"
      BY <2>3, <3>1 DEF FromHost, SentOnce
    <3>. QED  BY <2>2, <3>2 DEF JobRequest
  <2>4. ASSUME NEW m \in 1..Len(input'), NEW n \in 1..Len(input'), input'[m].kind = "request"
        PROVE  job'[input'[m].job] = "sent" /\ (input'[n] = input'[m] => n = m)
    <3>1. CASE m \in 1..Len(input)
      <4>1. input'[m] = input[m] /\ input[m].kind = "request"
        BY <2>1, <2>4, <3>1
      <4>2. job[input[m].job] = "sent" /\ \A k \in 1..Len(input) : input[k] = input[m] => k = m
        BY <3>1, <4>1 DEF SentOnce
      <4>3. input[m].job \in Jobs /\ input[m].job # j /\ input[m] # JobRequest(j)
        BY <2>3, <3>1, <4>1
      <4>4. n \in 1..Len(input) \/ n = Len(input) + 1
        BY <2>1
      <4>. QED  BY <2>1, <2>2, <4>1, <4>2, <4>3, <4>4
    <3>2. CASE m = Len(input) + 1
      <4>1. input'[m] = JobRequest(j) /\ input'[m].job = j /\ input'[m].kind = "request"
        BY <2>1, <3>2 DEF JobRequest
      <4>2. ASSUME NEW k \in 1..Len(input) PROVE input[k] # JobRequest(j)
        BY <2>3 DEF JobRequest
      <4>. QED  BY <2>1, <2>2, <3>2, <4>1, <4>2
    <3>. QED  BY <2>1, <3>1, <3>2
  <2>. QED  BY <2>4 DEF SentOnce
<1>3. CASE HostAnswers
  <2>1. PICK r \in atHost : input' = Append(input, Answer(r.id, r.token))
    BY <1>3 DEF HostAnswers
  <2>2. Answer(r.id, r.token) \in FromHost /\ Answer(r.id, r.token).kind # "request"
    BY PacketTypes DEF Answer
  <2>. QED  BY <1>1, <1>3, <2>1, <2>2 DEF HostAnswers
<1>4. CASE HostRepeats
  <2>1. PICK i \in 0..(nextId - 1) : input' = Append(input, Answer(i, 0))
    BY <1>4 DEF HostRepeats
  <2>2. i \in Ids
    BY TransportAssumption DEF Numbers
  <2>3. Answer(i, 0) \in FromHost /\ Answer(i, 0).kind # "request"
    BY <2>2, PacketTypes DEF Answer
  <2>. QED  BY <1>1, <1>4, <2>1, <2>3 DEF HostRepeats
<1>5. CASE HostCloses
  BY <1>1, <1>5, PacketTypes DEF HostCloses, EndOfInput
<1>6. CASE ReadRequest \/ ReadAnswer \/ ReadEof
  <2>1. /\ Len(input') = Len(input) - 1 /\ Len(input) \in Nat \ {0}
        /\ \A n \in 1..Len(input') : n + 1 \in 1..Len(input) /\ input'[n] = input[n + 1]
        /\ Head(input) = input[1] /\ Head(input) \in FromHost
    <3>1. input' = Tail(input) /\ input # <<>> /\ input \in Seq(FromHost)
      BY <1>6 DEF ReadRequest, ReadAnswer, ReadEof, Read
    <3>. QED  BY <3>1, TailElements
  <2>2. ASSUME NEW m \in 1..Len(input'), NEW n \in 1..Len(input'), input'[m].kind = "request"
        PROVE  job'[input'[m].job] = "sent" /\ (input'[n] = input'[m] => n = m)
    <3>1. job[input[m + 1].job] = "sent" /\ input[m + 1] # input[1]
      <4>1. m + 1 \in 1..Len(input) /\ 1 \in 1..Len(input) /\ m + 1 # 1
        BY <2>1
      <4>2. input[m + 1].kind = "request"
        BY <2>1, <2>2
      <4>. QED  BY <4>1, <4>2 DEF SentOnce
    <3>2. input[m + 1] \in FromHost
      BY <2>1
    <3>3. input[m + 1].job \in Jobs /\ input[m + 1].kind = "request"
      BY <2>1, <2>2, <3>2 DEF FromHost
    <3>4. ASSUME ReadRequest PROVE input[1].job # input[m + 1].job
      <4>1. input[1].kind = "request"
        BY <2>1, <3>4 DEF ReadRequest
      <4>2. input[1] = JobRequest(input[1].job)
        BY <2>1, <4>1 DEF FromHost, JobRequest
      <4>3. input[m + 1] = JobRequest(input[m + 1].job)
        BY <3>2, <3>3 DEF FromHost, JobRequest
      <4>. QED  BY <3>1, <4>2, <4>3
    <3>5. job'[input[m + 1].job] = "sent"
      <4>1. CASE ReadRequest
        <5>. DEFINE j == input[m + 1].job
                    r == input[1].job
        <5>1. job' = [job EXCEPT ![r] = "run"]
          BY <2>1, <4>1 DEF ReadRequest
        <5>2. job \in [Jobs -> {"unsent", "sent", "run", "calling", "respond", "finished"}]
          BY DEF Places
        <5>3. j \in Jobs /\ job[j] = "sent" /\ r # j
          BY <3>1, <3>3, <3>4, <4>1
        <5>. HIDE DEF j, r, Shape
        <5>4. job'[j] = "sent"
          BY <5>1, <5>2, <5>3
        <5>. QED  BY <5>4 DEF j
      <4>2. CASE ReadAnswer \/ ReadEof
        BY <3>1, <4>2 DEF ReadAnswer, ReadEof
      <4>. QED  BY <1>6, <4>1, <4>2
    <3>6. input'[n] = input'[m] => n = m
      <4>1. /\ m + 1 \in 1..Len(input) /\ n + 1 \in 1..Len(input)
            /\ input'[m] = input[m + 1] /\ input'[n] = input[n + 1]
        BY <2>1
      <4>2. input[n + 1] = input[m + 1] => n + 1 = m + 1
        BY <3>3, <4>1 DEF SentOnce
      <4>. QED  BY <2>1, <4>1, <4>2
    <3>7. input'[m] = input[m + 1]
      BY <2>1
    <3>. QED  BY <3>5, <3>6, <3>7
  <2>. QED  BY <2>2 DEF SentOnce
<1>7. ASSUME input' = input, \A j \in Jobs : job[j] = "sent" => job'[j] = "sent" PROVE SentOnce'
  <2>1. \A n \in 1..Len(input) : input[n].kind = "request" => input[n].job \in Jobs
    BY DEF FromHost
  <2>. QED  BY <1>7, <2>1 DEF SentOnce
<1>8. CASE Write \/ WriteFails \/ WriterEnds
  BY <1>7, <1>8 DEF Write, WriteFails, WriterEnds
<1>9. CASE CloseLocks("close", 1, "close2") \/ CloseLocks("close2", 2, "clear") \/ Close
  BY <1>7, <1>9 DEF CloseLocks, Close
<1>10. CASE JoinPinger \/ JoinJobs \/ Shutdown \/ Disposed \/ DropService \/ JoinWriter
  BY <1>7, <1>10 DEF JoinPinger, JoinJobs, Shutdown, Disposed, DropService, JoinWriter, ToMain
<1>11. CASE BuilderCalls \/ BuilderResumes \/ PingWaits \/ PingReturns
  BY <1>7, <1>11 DEF BuilderCalls, BuilderResumes, PingWaits, PingReturns
<1>12. ASSUME NEW j \in Jobs, JobCalls(j) \/ JobResumes(j) \/ JobHandled(j) \/ JobResponds(j)
       PROVE SentOnce'
  BY <1>7, <1>12 DEF JobCalls, JobResumes, JobHandled, JobResponds
<1>13. ASSUME NEW c \in Callers, SendLock(c) \/ SendCheck(c) \/ SendPacket(c) \/ Receive(c)
       PROVE SentOnce'
  BY <1>7, <1>13 DEF SendLock, SendCheck, SendPacket, Receive
<1>14. CASE UNCHANGED vars
  BY <1>7, <1>14 DEF vars
<1>. QED
  BY <1>2, <1>3, <1>4, <1>5, <1>6, <1>8, <1>9, <1>10, <1>11, <1>12, <1>13, <1>14,
     StepsOfTheTransport

\* A job responds once; its response is lost only with the writer.
LEMMA AnsweredStep ==
    ASSUME Shape, SentOnce, AnsweredOnce, Ending, [Next]_vars
    PROVE  AnsweredOnce'
<1>. USE DEF Shape, Places, Packets, hostVars, pipeVars, jobVars
<1>a. \A n \in 1..Len(outgoing) : outgoing[n].kind = "response" =>
         outgoing[n].job \in Jobs /\ outgoing[n] = Response(outgoing[n].job)
  BY DEF ToHost, Response
<1>1. ASSUME UNCHANGED <<outgoing, answers, writer>>,
             \A j \in Jobs : job'[j] = "finished" <=> job[j] = "finished"
      PROVE AnsweredOnce'
  BY <1>a, <1>1 DEF AnsweredOnce
<1>2. ASSUME NEW x \in ToHost, x.kind = "call", outgoing' = Append(outgoing, x), writer = "up",
             UNCHANGED <<answers, writer, job>>
      PROVE AnsweredOnce'
  <2>1. /\ Len(outgoing') = Len(outgoing) + 1
        /\ \A n \in 1..Len(outgoing) : outgoing'[n] = outgoing[n]
        /\ outgoing'[Len(outgoing) + 1] = x
    BY <1>2, AppendElements
  <2>. QED  BY <1>2, <2>1 DEF AnsweredOnce
<1>3. ASSUME NEW j \in Jobs, JobResponds(j) PROVE AnsweredOnce'
  <2>1. job[j] = "respond" /\ job' = [job EXCEPT ![j] = "finished"] /\ UNCHANGED <<writer, answers>>
    BY <1>3 DEF JobResponds
  <2>2. answers[j] = 0
    BY <2>1 DEF AnsweredOnce
  <2>3. CASE writer # "up"
    <3>1. writer # "drained"
      BY <2>1 DEF Ending, JobsJoined
    <3>2. outgoing' = outgoing /\ outgoing = <<>>
      BY <1>3, <2>3 DEF JobResponds, AnsweredOnce
    <3>. QED  BY <2>1, <2>2, <2>3, <3>1, <3>2 DEF AnsweredOnce
  <2>4. CASE writer = "up"
    <3>1. /\ Len(outgoing') = Len(outgoing) + 1
          /\ \A n \in 1..Len(outgoing) : outgoing'[n] = outgoing[n]
          /\ outgoing'[Len(outgoing) + 1] = Response(j)
      BY <1>3, <2>4, AppendElements, PacketTypes DEF JobResponds
    <3>2. \A n \in 1..Len(outgoing) : outgoing[n] # Response(j)
      BY <2>1 DEF AnsweredOnce, Response
    <3>3. ASSUME NEW m \in 1..Len(outgoing'), NEW n \in 1..Len(outgoing'),
                 outgoing'[m].kind = "response"
          PROVE  /\ job'[outgoing'[m].job] = "finished" /\ answers'[outgoing'[m].job] = 0
                 /\ outgoing'[n] = outgoing'[m] => n = m
      <4>1. CASE m \in 1..Len(outgoing)
        <5>1. outgoing'[m] = outgoing[m] /\ outgoing[m].kind = "response"
          BY <3>1, <3>3, <4>1
        <5>2. /\ job[outgoing[m].job] = "finished" /\ answers[outgoing[m].job] = 0
              /\ outgoing[m].job \in Jobs
              /\ \A k \in 1..Len(outgoing) : outgoing[k] = outgoing[m] => k = m
          BY <1>a, <4>1, <5>1 DEF AnsweredOnce
        <5>3. n \in 1..Len(outgoing) \/ n = Len(outgoing) + 1
          BY <3>1
        <5>. QED  BY <2>1, <3>1, <3>2, <4>1, <5>1, <5>2, <5>3
      <4>2. CASE m = Len(outgoing) + 1
        <5>1. outgoing'[m] = Response(j) /\ Response(j).job = j
          BY <3>1, <4>2 DEF Response
        <5>2. n \in 1..Len(outgoing) \/ n = Len(outgoing) + 1
          BY <3>1
        <5>. QED  BY <2>1, <2>2, <3>1, <3>2, <4>2, <5>1, <5>2
      <4>. QED  BY <3>1, <4>1, <4>2
    <3>4. ASSUME NEW k \in Jobs, job'[k] = "finished", answers'[k] = 0
          PROVE  \E n \in 1..Len(outgoing') : outgoing'[n] = Response(k)
      <4>1. CASE k = j
        BY <3>1, <4>1
      <4>2. CASE k # j
        <5>1. PICK n \in 1..Len(outgoing) : outgoing[n] = Response(k)
          BY <2>1, <2>4, <3>4, <4>2 DEF AnsweredOnce
        <5>. QED  BY <3>1, <5>1
      <4>. QED  BY <4>1, <4>2
    <3>. QED  BY <2>1, <2>4, <3>3, <3>4 DEF AnsweredOnce
  <2>. QED  BY <2>3, <2>4
<1>4. CASE Write
  <2>. DEFINE p == Head(outgoing)
  <2>1. /\ Len(outgoing) \in Nat \ {0} /\ Len(outgoing') = Len(outgoing) - 1
        /\ \A n \in 1..Len(outgoing') : n + 1 \in 1..Len(outgoing) /\ outgoing'[n] = outgoing[n + 1]
        /\ p = outgoing[1] /\ p \in ToHost
    BY <1>4, TailElements DEF Write
  <2>2. /\ writer = "up" /\ UNCHANGED <<writer, job>>
        /\ answers' = IF p.kind = "response" THEN [answers EXCEPT ![p.job] = @ + 1] ELSE answers
    BY <1>4 DEF Write
  <2>3. p.kind = "response" =>
          /\ p.job \in Jobs /\ p = Response(p.job)
          /\ job[p.job] = "finished" /\ answers[p.job] = 0
          /\ \A n \in 1..Len(outgoing) : outgoing[n] = p => n = 1
    BY <1>a, <2>1 DEF AnsweredOnce
  <2>. HIDE DEF p
  <2>4. answers' \in [Jobs -> 0..1] /\ \A j \in Jobs : answers'[j] = 1 => job'[j] = "finished"
    BY <2>2, <2>3 DEF AnsweredOnce
  <2>5. ASSUME NEW m \in 1..Len(outgoing'), NEW n \in 1..Len(outgoing'),
               outgoing'[m].kind = "response"
        PROVE  /\ job'[outgoing'[m].job] = "finished" /\ answers'[outgoing'[m].job] = 0
               /\ outgoing'[n] = outgoing'[m] => n = m
    <3>1. /\ m + 1 \in 1..Len(outgoing) /\ n + 1 \in 1..Len(outgoing)
          /\ outgoing'[m] = outgoing[m + 1] /\ outgoing'[n] = outgoing[n + 1]
      BY <2>1
    <3>2. /\ job[outgoing[m + 1].job] = "finished" /\ answers[outgoing[m + 1].job] = 0
          /\ outgoing[n + 1] = outgoing[m + 1] => n + 1 = m + 1
          /\ outgoing[m + 1].job \in Jobs /\ outgoing[m + 1] = Response(outgoing[m + 1].job)
      BY <1>a, <2>5, <3>1 DEF AnsweredOnce
    <3>3. p.kind = "response" => outgoing[m + 1].job # p.job
      BY <2>3, <3>1, <3>2
    <3>. QED  BY <2>2, <2>3, <3>1, <3>2, <3>3 DEF AnsweredOnce
  <2>6. ASSUME NEW j \in Jobs, job'[j] = "finished", answers'[j] = 0
        PROVE  \E n \in 1..Len(outgoing') : outgoing'[n] = Response(j)
    <3>1. answers[j] = 0 /\ ~(p.kind = "response" /\ p.job = j)
      BY <2>2, <2>3, <2>6 DEF AnsweredOnce
    <3>2. PICK n \in 1..Len(outgoing) : outgoing[n] = Response(j)
      BY <2>2, <2>6, <3>1 DEF AnsweredOnce
    <3>3. n # 1
      BY <2>1, <3>1, <3>2 DEF Response
    <3>4. n - 1 \in 1..Len(outgoing') /\ outgoing'[n - 1] = outgoing[n]
      BY <2>1, <3>2, <3>3
    <3>. QED  BY <3>2, <3>4
  <2>. QED  BY <2>2, <2>4, <2>5, <2>6 DEF AnsweredOnce
<1>5. CASE WriteFails
  <2>1. outgoing' = <<>> /\ writer' = "down" /\ UNCHANGED <<answers, job>>
    BY <1>5 DEF WriteFails
  <2>. QED  BY <2>1 DEF AnsweredOnce
<1>6. CASE WriterEnds
  <2>1. outgoing = <<>> /\ writer = "up" /\ writer' = "drained" /\ UNCHANGED <<answers, job, outgoing>>
    BY <1>6 DEF WriterEnds
  <2>. QED  BY <2>1 DEF AnsweredOnce
<1>7. ASSUME NEW c \in Callers, SendPacket(c) PROVE AnsweredOnce'
  <2>1. CASE outgoing' = outgoing
    BY <1>1, <1>7, <2>1 DEF SendPacket
  <2>2. CASE outgoing' # outgoing
    <3>1. /\ outgoing' = Append(outgoing, Request(id[c], token[c])) /\ writer = "up"
          /\ UNCHANGED <<answers, writer, job>>
      BY <1>7, <2>2 DEF SendPacket
    <3>2. Request(id[c], token[c]) \in ToHost /\ Request(id[c], token[c]).kind = "call"
      BY PacketTypes DEF Request, Numbers
    <3>. QED  BY <1>2, <3>1, <3>2
  <2>. QED  BY <2>1, <2>2
<1>8. CASE ReadRequest
  <2>1. Head(input) = input[1] /\ 1 \in 1..Len(input)
    BY <1>8, TailElements DEF ReadRequest, Read
  <2>2. job[Head(input).job] = "sent"
    BY <1>8, <2>1 DEF ReadRequest, SentOnce
  <2>. QED  BY <1>1, <1>8, <2>2 DEF ReadRequest, Read
<1>9. CASE ReadAnswer \/ ReadEof \/ HostAnswers \/ HostRepeats \/ HostCloses
           \/ \E j \in Jobs : HostRequests(j)
  BY <1>1, <1>9 DEF ReadAnswer, ReadEof, Read, HostAnswers, HostRepeats, HostCloses, HostRequests
<1>10. CASE CloseLocks("close", 1, "close2") \/ CloseLocks("close2", 2, "clear") \/ Close
  BY <1>1, <1>10 DEF CloseLocks, Close
<1>11. CASE JoinPinger \/ JoinJobs \/ Shutdown \/ Disposed \/ DropService \/ JoinWriter
  BY <1>1, <1>11 DEF JoinPinger, JoinJobs, Shutdown, Disposed, DropService, JoinWriter, ToMain
<1>12. CASE BuilderCalls \/ BuilderResumes \/ PingWaits \/ PingReturns
  BY <1>1, <1>12 DEF BuilderCalls, BuilderResumes, PingWaits, PingReturns
<1>13. ASSUME NEW j \in Jobs, JobCalls(j) \/ JobResumes(j) \/ JobHandled(j) PROVE AnsweredOnce'
  BY <1>1, <1>13 DEF JobCalls, JobResumes, JobHandled
<1>14. ASSUME NEW c \in Callers, SendLock(c) \/ SendCheck(c) \/ Receive(c) PROVE AnsweredOnce'
  BY <1>1, <1>14 DEF SendLock, SendCheck, Receive
<1>15. CASE UNCHANGED vars
  BY <1>1, <1>15 DEF vars
<1>. QED
  BY <1>3, <1>4, <1>5, <1>6, <1>7, <1>8, <1>9, <1>10, <1>11, <1>12, <1>13, <1>14, <1>15,
     StepsOfTheTransport

-----------------------------------------------------------------------------
(* Calls and answers, as long as ids do not wrap around.                   *)

\* Tokens name calls.  Those that have not drawn their id leave room for it.
Waiting == {c \in Callers : call[c] \in {"lock", "check"}}
Undrawn == {token[c] : c \in Waiting}

Tokens ==
    /\ \A c \in Callers : call[c] # "none" => token[c] \in 1..calls
    /\ \A c, d \in Callers :
          call[c] # "none" /\ call[d] # "none" /\ token[c] = token[d] => c = d

Room == nextId + Cardinality(Undrawn) <= calls

Sending == {c \in Callers : call[c] \in {"send", "wait"}}

\* An id is drawn by one call, and whatever travels under it is that call's.
Drawn ==
    /\ \A c \in Sending : id[c] < nextId
    /\ \A c, d \in Sending : id[c] = id[d] => c = d
    /\ \A i \in DOMAIN pending :
          pending[i] \in Sending /\ id[pending[i]] = i /\ reply[pending[i]] = None

Belongs(i, t) == i < nextId /\ (i \in DOMAIN pending => token[pending[i]] = t)

Traffic ==
    /\ \A n \in 1..Len(outgoing) : outgoing[n].kind = "call" =>
          Belongs(outgoing[n].id, outgoing[n].token)
    /\ \A r \in atHost : Belongs(r.id, r.token)
    /\ \A n \in 1..Len(input) : input[n].kind = "answer" => Belongs(input[n].id, input[n].token)

Replies ==
    \A c \in Callers :
        /\ call[c] \in {"none", "lock", "check"} => reply[c] = None
        /\ reply[c] # None => reply[c] = token[c]
        /\ call[c] = "ok" => reply[c] # None

Matched == Tokens /\ (calls <= IdSpace => Room /\ Drawn /\ Traffic /\ Replies)

\* What a step does to the calls: nothing, unless it is one of these.
LEMMA StepsOfCalls ==
    ASSUME Shape, Calling, [Next]_vars
    PROVE  \/ UNCHANGED sendVars
           \/ Close
           \/ ReadAnswer
           \/ UNCHANGED <<input, outgoing, atHost>> /\ \E c \in Callers : call[c] = "none" /\ BeginCall(c)
           \/ UNCHANGED <<input, outgoing, atHost>> /\ \E c \in Callers : Returned(c) /\ EndCall(c)
           \/ \E c \in Callers : SendLock(c) \/ SendCheck(c) \/ SendPacket(c) \/ Receive(c)
<1>. USE DEF hostVars, pipeVars, sendVars
<1>1. CASE HostAnswers \/ HostRepeats \/ HostCloses \/ \E j \in Jobs : HostRequests(j)
  BY <1>1 DEF HostAnswers, HostRepeats, HostCloses, HostRequests
<1>2. CASE Write \/ WriteFails \/ WriterEnds
  BY <1>2 DEF Write, WriteFails, WriterEnds
<1>3. CASE ReadRequest \/ ReadEof
  BY <1>3 DEF ReadRequest, ReadEof, Read
<1>4. CASE CloseLocks("close", 1, "close2") \/ CloseLocks("close2", 2, "clear")
  BY <1>4 DEF CloseLocks
<1>5. CASE JoinPinger \/ JoinJobs \/ DropService \/ JoinWriter
  BY <1>5 DEF JoinPinger, JoinJobs, DropService, JoinWriter
<1>6. CASE Shutdown
  <2>1. Main \in Callers /\ (main = "shutdown" => call[Main] = "none")
    BY DEF Shape, Places, Calling
  <2>. QED  BY <1>6, <2>1 DEF Shutdown, ToMain
<1>7. CASE Disposed
  BY <1>7 DEF Disposed, ToMain
<1>8. CASE BuilderCalls \/ BuilderResumes
  BY <1>8 DEF BuilderCalls, BuilderResumes
<1>9. CASE PingWaits \/ PingReturns
  <2>1. pinger = "wait" => call[Pinger] = "none"
    BY DEF Calling
  <2>. QED  BY <1>9, <2>1 DEF PingWaits, PingReturns
<1>10. ASSUME NEW j \in Jobs, JobCalls(j) \/ JobResumes(j) \/ JobHandled(j) \/ JobResponds(j)
       PROVE  \/ UNCHANGED sendVars
              \/ UNCHANGED <<input, outgoing, atHost>> /\ call[j] = "none" /\ BeginCall(j)
              \/ UNCHANGED <<input, outgoing, atHost>> /\ Returned(j) /\ EndCall(j)
  <2>1. job[j] = "run" => call[j] = "none"
    BY DEF Calling
  <2>. QED  BY <1>10, <2>1 DEF JobCalls, JobResumes, JobHandled, JobResponds
<1>11. CASE UNCHANGED vars
  BY <1>11 DEF vars
<1>. QED
  BY <1>1, <1>2, <1>3, <1>4, <1>5, <1>6, <1>7, <1>8, <1>9, <1>10, <1>11, StepsOfTheTransport

LEMMA TokensStep == ASSUME Shape, Calling, Tokens, [Next]_vars PROVE Tokens' /\ calls <= calls'
<1>. USE DEF Shape, Places, Numbers, Tokens, sendVars
<1>1. CASE UNCHANGED sendVars \/ Close
  BY <1>1 DEF Close
<1>2. CASE ReadAnswer
  BY <1>2 DEF ReadAnswer, Read
<1>3. ASSUME NEW c \in Callers, call[c] = "none", BeginCall(c) PROVE Tokens' /\ calls <= calls'
  BY <1>3 DEF BeginCall
<1>4. ASSUME NEW c \in Callers, EndCall(c) PROVE Tokens' /\ calls <= calls'
  BY <1>4 DEF EndCall
<1>5. ASSUME NEW c \in Callers, SendLock(c) \/ SendCheck(c) \/ SendPacket(c) \/ Receive(c)
      PROVE  Tokens' /\ calls <= calls'
  <2>1. call[c] # "none" /\ \E p : call' = [call EXCEPT ![c] = p]
    BY <1>5 DEF SendLock, SendCheck, SendPacket, Receive
  <2>2. UNCHANGED <<token, calls>>
    BY <1>5 DEF SendLock, SendCheck, SendPacket, Receive
  <2>. QED  BY <2>1, <2>2
<1>. QED  BY <1>1, <1>2, <1>3, <1>4, <1>5, StepsOfCalls

\* Calls that have not drawn are counted by their tokens.
LEMMA UndrawnIsFinite ==
    ASSUME Shape, Tokens
    PROVE  /\ IsFiniteSet(Undrawn) /\ Cardinality(Undrawn) \in Nat
           /\ Undrawn \subseteq 1..calls
<1>1. Undrawn \subseteq 1..calls
  BY DEF Undrawn, Waiting, Tokens, Shape, Numbers
<1>2. IsFiniteSet(1..calls)
  <2>1. calls \in Int
    BY DEF Shape, Numbers
  <2>. QED  BY <2>1, FS_Interval
<1>. QED  BY <1>1, <1>2, FS_Subset, FS_CardinalityType

\* The call that begins adds one to both sides; the one that draws moves one
\* from the calls that have not to the ids that were.
LEMMA RoomStep == ASSUME Shape, Calling, Tokens, Room, calls <= IdSpace, [Next]_vars PROVE Room'
<1>. USE DEF Shape, Places, Numbers
<1>1. ASSUME UNCHANGED <<nextId, calls>>, Undrawn' = Undrawn PROVE Room'
  BY <1>1 DEF Room
<1>2. CASE UNCHANGED sendVars \/ Close
  BY <1>1, <1>2 DEF sendVars, Close, Undrawn, Waiting
<1>3. CASE ReadAnswer
  BY <1>1, <1>3 DEF ReadAnswer, Read, Undrawn, Waiting
<1>4. ASSUME NEW c \in Callers, call[c] = "none", BeginCall(c) PROVE Room'
  <2>1. Undrawn' = Undrawn \cup {calls + 1}
    BY <1>4 DEF BeginCall, Undrawn, Waiting
  <2>2. Cardinality(Undrawn') = Cardinality(Undrawn) + 1
    <3>1. calls + 1 \notin Undrawn /\ IsFiniteSet(Undrawn)
      BY UndrawnIsFinite
    <3>2. Cardinality(Undrawn \cup {calls + 1}) = Cardinality(Undrawn) + 1
      BY <3>1, FS_AddElement
    <3>. QED  BY <2>1, <3>2
  <2>. QED  BY <1>4, <2>2, UndrawnIsFinite DEF BeginCall, Room
<1>5. ASSUME NEW c \in Callers, Returned(c), EndCall(c) PROVE Room'
  <2>1. Undrawn' = Undrawn
    BY <1>5 DEF EndCall, Returned, Undrawn, Waiting
  <2>. QED  BY <1>1, <1>5, <2>1 DEF EndCall
<1>6. ASSUME NEW c \in Callers, SendLock(c) PROVE Room'
  <2>1. Waiting' = Waiting /\ UNCHANGED <<token, nextId, calls>>
    BY <1>6 DEF SendLock, Waiting
  <2>. QED  BY <1>1, <2>1 DEF Undrawn
<1>7. ASSUME NEW c \in Callers, SendPacket(c) \/ Receive(c) PROVE Room'
  <2>1. Waiting' = Waiting /\ UNCHANGED <<token, nextId, calls>>
    BY <1>7 DEF SendPacket, Receive, Waiting
  <2>. QED  BY <1>1, <2>1 DEF Undrawn
<1>8. ASSUME NEW c \in Callers, SendCheck(c) PROVE Room'
  <2>1. Waiting' = Waiting \ {c} /\ c \in Waiting /\ UNCHANGED <<token, calls>>
    BY <1>8 DEF SendCheck, Waiting
  <2>2. Undrawn' = Undrawn \ {token[c]} /\ token[c] \in Undrawn
    BY <2>1 DEF Undrawn, Waiting, Tokens
  <2>3. Cardinality(Undrawn') = Cardinality(Undrawn) - 1
    BY <2>2, UndrawnIsFinite, FS_RemoveElement
  <2>4. nextId' = nextId \/ nextId' = (nextId % IdSpace) + 1
    BY <1>8 DEF SendCheck
  <2>5. 1 <= Cardinality(Undrawn)
    BY <2>2, UndrawnIsFinite, FS_EmptySet
  <2>6. nextId % IdSpace = nextId
    BY <2>5, DrawnId, UndrawnIsFinite, TransportAssumption DEF Room
  <2>. QED  BY <2>1, <2>3, <2>4, <2>6, UndrawnIsFinite DEF Room
<1>. QED  BY <1>2, <1>3, <1>4, <1>5, <1>6, <1>7, <1>8, StepsOfCalls

\* A call that draws has an id to itself as long as there is room.
LEMMA DrawsAnew ==
    ASSUME Shape, Tokens, Room, calls <= IdSpace, NEW c \in Callers, SendCheck(c)
    PROVE  /\ UNCHANGED <<input, outgoing, atHost, token, reply, calls>>
           /\ \/ call' = [call EXCEPT ![c] = "err"] /\ UNCHANGED <<nextId, pending, id>>
              \/ /\ nextId \in Ids /\ nextId' = nextId + 1
                 /\ call' = [call EXCEPT ![c] = "send"]
                 /\ id' = [id EXCEPT ![c] = nextId]
                 /\ DOMAIN pending' = DOMAIN pending \cup {nextId}
                 /\ \A i \in DOMAIN pending' : pending'[i] = IF i = nextId THEN c ELSE pending[i]
<1>1. token[c] \in Undrawn
  BY DEF SendCheck, Undrawn, Waiting
<1>2. 1 <= Cardinality(Undrawn)
  BY <1>1, UndrawnIsFinite, FS_EmptySet
<1>3. nextId % IdSpace = nextId /\ nextId \in Ids
  BY <1>2, DrawnId, UndrawnIsFinite, TransportAssumption DEF Room, Shape, Numbers
<1>4. \/ call' = [call EXCEPT ![c] = "err"] /\ UNCHANGED <<nextId, pending, id>>
      \/ /\ call' = [call EXCEPT ![c] = "send"]
         /\ id' = [id EXCEPT ![c] = nextId]
         /\ nextId' = nextId + 1
         /\ pending' = [i \in DOMAIN pending \cup {nextId} |-> IF i = nextId THEN c ELSE pending[i]]
  BY <1>3 DEF SendCheck
<1>5. UNCHANGED <<input, outgoing, atHost, token, reply, calls>>
  BY DEF SendCheck, hostVars, pipeVars
<1>. QED  BY <1>3, <1>4, <1>5

LEMMA DrawnStep ==
    ASSUME Shape, Calling, Tokens, Room, Drawn, Replies, calls <= IdSpace, [Next]_vars
    PROVE  Drawn'
<1>. USE DEF Shape, Places, Numbers, Drawn, Sending
<1>1. CASE UNCHANGED sendVars
  BY <1>1 DEF sendVars
<1>2. CASE Close
  <2>1. DOMAIN pending' = {} /\ UNCHANGED <<call, id, nextId>>
    BY <1>2 DEF Close
  <2>. QED  BY <2>1
<1>3. CASE ReadAnswer
  <2>1. UNCHANGED <<call, id, nextId>>
    BY <1>3 DEF ReadAnswer, Read
  <2>2. ASSUME NEW i \in DOMAIN pending'
        PROVE  i \in DOMAIN pending /\ pending'[i] = pending[i] /\ reply'[pending[i]] = None
    <3>1. CASE UNCHANGED <<pending, reply>>
      BY <2>2, <3>1
    <3>2. CASE ~UNCHANGED <<pending, reply>>
      <4>. DEFINE k == Head(input).id
      <4>1. /\ k \in DOMAIN pending
            /\ pending' = Without(pending, k)
            /\ reply' = [reply EXCEPT ![pending[k]] = Head(input).token]
        BY <1>3, <3>2 DEF ReadAnswer
      <4>. HIDE DEF k
      <4>2. i \in DOMAIN pending \ {k} /\ pending'[i] = pending[i]
        BY <2>2, <4>1 DEF Without
      <4>3. pending[i] # pending[k]
        BY <4>1, <4>2
      <4>. QED  BY <4>1, <4>2, <4>3
    <3>. QED  BY <3>1, <3>2
  <2>. QED  BY <2>1, <2>2
<1>4. ASSUME NEW c \in Callers, call[c] = "none", BeginCall(c) PROVE Drawn'
  BY <1>4 DEF BeginCall
<1>5. ASSUME NEW c \in Callers, Returned(c), EndCall(c) PROVE Drawn'
  BY <1>5 DEF Returned, EndCall
<1>6. ASSUME NEW c \in Callers, SendLock(c) PROVE Drawn'
  BY <1>6 DEF SendLock
<1>7. ASSUME NEW c \in Callers, SendCheck(c) PROVE Drawn'
  <2>1. call[c] = "check" /\ reply[c] = None
    BY <1>7 DEF SendCheck, Replies
  <2>. QED  BY <1>7, <2>1, DrawsAnew
<1>8. ASSUME NEW c \in Callers, SendPacket(c) PROVE Drawn'
  <2>1. call[c] = "send" /\ UNCHANGED <<nextId, id, reply>>
    BY <1>8 DEF SendPacket
  <2>2. \/ call' = [call EXCEPT ![c] = "wait"] /\ UNCHANGED pending
        \/ call' = [call EXCEPT ![c] = "err"] /\ pending' = Without(pending, id[c])
    BY <1>8 DEF SendPacket
  <2>. QED  BY <2>1, <2>2 DEF Without
<1>9. ASSUME NEW c \in Callers, Receive(c) PROVE Drawn'
  <2>1. call[c] = "wait" /\ UNCHANGED <<nextId, id, reply, pending>>
    BY <1>9 DEF Receive
  <2>2. \E p \in {"ok", "err"} : call' = [call EXCEPT ![c] = p]
    BY <1>9 DEF Receive
  <2>3. \A i \in DOMAIN pending : pending[i] # c
    BY <1>9 DEF Receive
  <2>. QED  BY <2>1, <2>2, <2>3
<1>. QED  BY <1>1, <1>2, <1>3, <1>4, <1>5, <1>6, <1>7, <1>8, <1>9, StepsOfCalls

\* A packet stays with its call: the id it is under is not drawn again.
LEMMA BelongsStep ==
    ASSUME Shape, Calling, Tokens, Room, Drawn, calls <= IdSpace, [Next]_vars,
           NEW i \in Ids, NEW t \in Nat, Belongs(i, t)
    PROVE  Belongs(i, t)'
<1>. USE DEF Shape, Places, Numbers, Drawn, Sending, Belongs
<1>1. CASE UNCHANGED sendVars
  BY <1>1 DEF sendVars
<1>2. CASE Close
  <2>1. DOMAIN pending' = {} /\ UNCHANGED nextId
    BY <1>2 DEF Close
  <2>. QED  BY <2>1
<1>3. CASE ReadAnswer
  BY <1>3 DEF ReadAnswer, Read, Without
<1>4. ASSUME NEW c \in Callers, call[c] = "none", BeginCall(c) PROVE Belongs(i, t)'
  BY <1>4 DEF BeginCall
<1>5. ASSUME NEW c \in Callers, Returned(c), EndCall(c) PROVE Belongs(i, t)'
  BY <1>5 DEF Returned, EndCall
<1>6. ASSUME NEW c \in Callers, SendCheck(c) PROVE Belongs(i, t)'
  BY <1>6, DrawsAnew
<1>7. ASSUME NEW c \in Callers, SendLock(c) \/ SendPacket(c) \/ Receive(c) PROVE Belongs(i, t)'
  BY <1>7 DEF SendLock, SendPacket, Receive, Without
<1>. QED  BY <1>1, <1>2, <1>3, <1>4, <1>5, <1>6, <1>7, StepsOfCalls

LEMMA RepliesStep ==
    ASSUME Shape, Calling, Tokens, Room, Drawn, Traffic, Replies, calls <= IdSpace, [Next]_vars
    PROVE  Replies'
<1>. USE DEF Shape, Places, Numbers, Replies
<1>1. CASE UNCHANGED sendVars \/ Close
  BY <1>1 DEF sendVars, Close
<1>2. CASE ReadAnswer
  <2>1. UNCHANGED <<call, token>>
    BY <1>2 DEF ReadAnswer, Read
  <2>2. CASE UNCHANGED reply
    BY <2>1, <2>2
  <2>3. CASE ~UNCHANGED reply
    <3>. DEFINE k == Head(input).id
    <3>1. /\ k \in DOMAIN pending
          /\ reply' = [reply EXCEPT ![pending[k]] = Head(input).token]
      BY <1>2, <2>3 DEF ReadAnswer
    <3>2. token[pending[k]] = Head(input).token
      <4>1. Head(input) = input[1] /\ 1 \in 1..Len(input)
        BY <1>2, TailElements DEF ReadAnswer, Read, Packets
      <4>2. Head(input).kind = "answer"
        BY <1>2 DEF ReadAnswer
      <4>. QED  BY <3>1, <4>1, <4>2 DEF Traffic, Belongs
    <3>3. pending[k] \in Callers /\ call[pending[k]] \in {"send", "wait"}
      BY <3>1 DEF Drawn, Sending
    <3>. HIDE DEF k
    <3>. QED  BY <2>1, <3>1, <3>2, <3>3
  <2>. QED  BY <2>2, <2>3
<1>3. ASSUME NEW c \in Callers, call[c] = "none", BeginCall(c) PROVE Replies'
  BY <1>3 DEF BeginCall
<1>4. ASSUME NEW c \in Callers, Returned(c), EndCall(c) PROVE Replies'
  BY <1>4 DEF EndCall
<1>5. ASSUME NEW c \in Callers, SendLock(c) \/ SendCheck(c) \/ SendPacket(c) \/ Receive(c)
      PROVE  Replies'
  <2>1. UNCHANGED <<token, reply>>
    BY <1>5 DEF SendLock, SendCheck, SendPacket, Receive
  <2>2. \E p : call' = [call EXCEPT ![c] = p] /\ (p = "ok" => reply[c] # None)
               /\ (p \in {"none", "lock", "check"} => call[c] \in {"none", "lock", "check"})
    BY <1>5 DEF SendLock, SendCheck, SendPacket, Receive
  <2>. QED  BY <2>1, <2>2
<1>. QED  BY <1>1, <1>2, <1>3, <1>4, <1>5, StepsOfCalls

\* Packets keep their id and their call on the way to the host and back.
LEMMA TrafficStep ==
    ASSUME Shape, Calling, Tokens, Room, Drawn, Traffic, calls <= IdSpace, [Next]_vars
    PROVE  Traffic'
<1>. USE DEF Shape, Places, Packets, Numbers, hostVars, pipeVars
<1>a. \A i \in Ids, t \in Nat : Belongs(i, t) => Belongs(i, t)'
  BY BelongsStep
<1>b. /\ \A n \in 1..Len(outgoing) : outgoing[n].kind = "call" =>
            outgoing[n].id \in Ids /\ outgoing[n].token \in Nat
      /\ \A r \in atHost : r.id \in Ids /\ r.token \in Nat
      /\ \A n \in 1..Len(input) : input[n].kind = "answer" =>
            input[n].id \in Ids /\ input[n].token \in Nat
  <2>1. \A n \in 1..Len(outgoing) : outgoing[n] \in ToHost
    OBVIOUS
  <2>2. \A n \in 1..Len(input) : input[n] \in FromHost
    OBVIOUS
  <2>. QED  BY <2>1, <2>2 DEF ToHost, FromHost
<1>1. ASSUME UNCHANGED <<input, outgoing, atHost>> PROVE Traffic'
  BY <1>a, <1>b, <1>1 DEF Traffic
<1>2. ASSUME NEW x \in FromHost, input' = Append(input, x), UNCHANGED outgoing, atHost' \subseteq atHost,
             x.kind = "answer" => Belongs(x.id, x.token)
      PROVE  Traffic'
  <2>1. /\ Len(input') = Len(input) + 1
        /\ \A n \in 1..Len(input) : input'[n] = input[n]
        /\ input'[Len(input) + 1] = x
    BY <1>2, AppendElements
  <2>2. x.kind = "answer" => x.id \in Ids /\ x.token \in Nat
    BY DEF FromHost
  <2>. QED  BY <1>a, <1>b, <1>2, <2>1, <2>2 DEF Traffic
<1>3. ASSUME NEW x \in ToHost, outgoing' = Append(outgoing, x), UNCHANGED <<input, atHost>>,
             x.kind = "call" => Belongs(x.id, x.token)
      PROVE  Traffic'
  <2>1. /\ Len(outgoing') = Len(outgoing) + 1
        /\ \A n \in 1..Len(outgoing) : outgoing'[n] = outgoing[n]
        /\ outgoing'[Len(outgoing) + 1] = x
    BY <1>3, AppendElements
  <2>2. x.kind = "call" => x.id \in Ids /\ x.token \in Nat
    BY DEF ToHost
  <2>. QED  BY <1>a, <1>b, <1>3, <2>1, <2>2 DEF Traffic
<1>4. ASSUME NEW j \in Jobs, HostRequests(j) PROVE Traffic'
  BY <1>2, <1>4, PacketTypes DEF HostRequests, JobRequest
<1>5. CASE HostAnswers
  <2>1. PICK r \in atHost : input' = Append(input, Answer(r.id, r.token)) /\ atHost' = atHost \ {r}
    BY <1>5 DEF HostAnswers
  <2>2. Answer(r.id, r.token) \in FromHost /\ Belongs(r.id, r.token)
    BY PacketTypes DEF Traffic
  <2>. QED  BY <1>2, <1>5, <2>1, <2>2 DEF HostAnswers, Answer
<1>6. CASE HostRepeats
  <2>1. PICK i \in 0..(nextId - 1) : i \notin DOMAIN pending /\ input' = Append(input, Answer(i, 0))
    BY <1>6 DEF HostRepeats
  <2>2. i \in Ids
    BY TransportAssumption
  <2>3. Answer(i, 0) \in FromHost
    BY <2>2, PacketTypes
  <2>4. Belongs(i, 0)
    BY <2>1 DEF Belongs
  <2>. QED  BY <1>2, <1>6, <2>1, <2>3, <2>4 DEF HostRepeats, Answer
<1>7. CASE HostCloses
  BY <1>2, <1>7, PacketTypes DEF HostCloses, EndOfInput
<1>8. CASE Write
  <2>1. /\ Len(outgoing') = Len(outgoing) - 1 /\ Len(outgoing) \in Nat \ {0}
        /\ \A n \in 1..Len(outgoing') : n + 1 \in 1..Len(outgoing) /\ outgoing'[n] = outgoing[n + 1]
        /\ Head(outgoing) = outgoing[1] /\ Head(outgoing) \in ToHost
    BY <1>8, TailElements DEF Write
  <2>2. ASSUME NEW r \in atHost', r \notin atHost
        PROVE  /\ outgoing[1].kind = "call"
               /\ r.id = outgoing[1].id /\ r.token = outgoing[1].token
    <3>1. atHost' = IF outgoing[1].kind = "call"
                    THEN atHost \cup {[id |-> outgoing[1].id, token |-> outgoing[1].token]}
                    ELSE atHost
      BY <1>8, <2>1 DEF Write
    <3>. QED  BY <2>2, <3>1
  <2>3. ASSUME NEW r \in atHost'
        PROVE  r.id \in Ids /\ r.token \in Nat /\ Belongs(r.id, r.token)
    <3>1. CASE r \in atHost
      BY <1>b, <3>1 DEF Traffic
    <3>2. CASE r \notin atHost
      <4>1. 1 \in 1..Len(outgoing)
        BY <2>1
      <4>. QED  BY <1>b, <2>2, <3>2, <4>1 DEF Traffic
    <3>. QED  BY <3>1, <3>2
  <2>4. input' = input
    BY <1>8 DEF Write
  <2>. QED  BY <1>a, <1>b, <2>1, <2>3, <2>4 DEF Traffic
<1>9. CASE WriteFails
  BY <1>a, <1>b, <1>9 DEF WriteFails, Traffic
<1>10. CASE ReadRequest \/ ReadAnswer \/ ReadEof
  <2>1. input' = Tail(input) /\ input # <<>> /\ UNCHANGED <<outgoing, atHost>>
    BY <1>10 DEF ReadRequest, ReadAnswer, ReadEof, Read
  <2>2. \A n \in 1..Len(input') : n + 1 \in 1..Len(input) /\ input'[n] = input[n + 1]
    BY <2>1, TailElements
  <2>. QED  BY <1>a, <1>b, <2>1, <2>2 DEF Traffic
<1>11. ASSUME NEW j \in Jobs, JobResponds(j) PROVE Traffic'
  <2>1. CASE outgoing' = outgoing
    BY <1>1, <1>11, <2>1 DEF JobResponds
  <2>2. CASE outgoing' # outgoing
    BY <1>3, <1>11, <2>2, PacketTypes DEF JobResponds, Response
  <2>. QED  BY <2>1, <2>2
<1>12. ASSUME NEW c \in Callers, SendPacket(c) PROVE Traffic'
  <2>1. CASE outgoing' = outgoing
    BY <1>1, <1>12, <2>1 DEF SendPacket
  <2>2. CASE outgoing' # outgoing
    <3>1. outgoing' = Append(outgoing, Request(id[c], token[c])) /\ call[c] = "send"
      BY <1>12, <2>2 DEF SendPacket
    <3>2. Request(id[c], token[c]) \in ToHost
      BY PacketTypes
    <3>3. Belongs(id[c], token[c])
      <4>1. c \in Sending /\ id[c] < nextId
        BY <3>1 DEF Drawn, Sending
      <4>2. id[c] \in DOMAIN pending => pending[id[c]] = c
        BY <4>1 DEF Drawn
      <4>. QED  BY <4>1, <4>2 DEF Belongs
    <3>. QED  BY <1>3, <1>12, <3>1, <3>2, <3>3 DEF SendPacket, Request
  <2>. QED  BY <2>1, <2>2
<1>13. CASE WriterEnds
  BY <1>1, <1>13 DEF WriterEnds
<1>14. CASE CloseLocks("close", 1, "close2") \/ CloseLocks("close2", 2, "clear") \/ Close
  BY <1>1, <1>14 DEF CloseLocks, Close
<1>15. CASE JoinPinger \/ JoinJobs \/ Shutdown \/ Disposed \/ DropService \/ JoinWriter
  BY <1>1, <1>15 DEF JoinPinger, JoinJobs, Shutdown, Disposed, DropService, JoinWriter, ToMain
<1>16. CASE BuilderCalls \/ BuilderResumes \/ PingWaits \/ PingReturns
  BY <1>1, <1>16 DEF BuilderCalls, BuilderResumes, PingWaits, PingReturns
<1>17. ASSUME NEW j \in Jobs, JobCalls(j) \/ JobResumes(j) \/ JobHandled(j) PROVE Traffic'
  BY <1>1, <1>17 DEF JobCalls, JobResumes, JobHandled
<1>18. ASSUME NEW c \in Callers, SendLock(c) \/ SendCheck(c) \/ Receive(c) PROVE Traffic'
  BY <1>1, <1>18 DEF SendLock, SendCheck, Receive
<1>19. CASE UNCHANGED vars
  BY <1>1, <1>19 DEF vars
<1>. QED
  BY <1>4, <1>5, <1>6, <1>7, <1>8, <1>9, <1>10, <1>11, <1>12, <1>13, <1>14, <1>15, <1>16, <1>17,
     <1>18, <1>19, StepsOfTheTransport

\* What the host is asked is a call that has begun.
Named ==
    /\ \A n \in 1..Len(outgoing) : outgoing[n].kind = "call" => outgoing[n].token \in 1..calls
    /\ \A r \in atHost : r.token \in 1..calls

LEMMA NamedStep == ASSUME Shape, Calling, Tokens, Named, [Next]_vars PROVE Named'
<1>. USE DEF Shape, Places, Packets, Numbers, hostVars, pipeVars
<1>a. calls <= calls' /\ calls \in Nat /\ calls' \in Nat
  BY TokensStep, ShapeStep
<1>1. ASSUME UNCHANGED outgoing, atHost' \subseteq atHost PROVE Named'
  BY <1>a, <1>1 DEF Named
<1>2. ASSUME NEW x \in ToHost, outgoing' = Append(outgoing, x), UNCHANGED atHost,
             x.kind = "call" => x.token \in 1..calls
      PROVE  Named'
  <2>1. /\ Len(outgoing') = Len(outgoing) + 1
        /\ \A n \in 1..Len(outgoing) : outgoing'[n] = outgoing[n]
        /\ outgoing'[Len(outgoing) + 1] = x
    BY <1>2, AppendElements
  <2>. QED  BY <1>a, <1>2, <2>1 DEF Named
<1>3. CASE Write
  <2>1. /\ \A n \in 1..Len(outgoing') : n + 1 \in 1..Len(outgoing) /\ outgoing'[n] = outgoing[n + 1]
        /\ Head(outgoing) = outgoing[1] /\ 1 \in 1..Len(outgoing)
    BY <1>3, TailElements DEF Write
  <2>2. atHost' = IF outgoing[1].kind = "call"
                  THEN atHost \cup {[id |-> outgoing[1].id, token |-> outgoing[1].token]}
                  ELSE atHost
    BY <1>3, <2>1 DEF Write
  <2>3. \A r \in atHost' : r.token \in 1..calls'
    BY <1>a, <2>1, <2>2 DEF Named
  <2>4. ASSUME NEW n \in 1..Len(outgoing'), outgoing'[n].kind = "call"
        PROVE  outgoing'[n].token \in 1..calls'
    <3>1. outgoing[n + 1].token \in 1..calls
      BY <2>1, <2>4 DEF Named
    <3>. QED  BY <1>a, <2>1, <3>1
  <2>. QED  BY <2>3, <2>4 DEF Named
<1>4. CASE WriteFails
  BY <1>a, <1>4 DEF WriteFails, Named
<1>5. ASSUME NEW j \in Jobs, JobResponds(j) PROVE Named'
  <2>1. CASE outgoing' = outgoing
    BY <1>1, <1>5, <2>1 DEF JobResponds
  <2>2. CASE outgoing' # outgoing
    BY <1>2, <1>5, <2>2, PacketTypes DEF JobResponds, Response
  <2>. QED  BY <2>1, <2>2
<1>6. ASSUME NEW c \in Callers, SendPacket(c) PROVE Named'
  <2>1. CASE outgoing' = outgoing
    BY <1>1, <1>6, <2>1 DEF SendPacket
  <2>2. CASE outgoing' # outgoing
    <3>1. outgoing' = Append(outgoing, Request(id[c], token[c])) /\ call[c] = "send"
      BY <1>6, <2>2 DEF SendPacket
    <3>2. Request(id[c], token[c]) \in ToHost /\ token[c] \in 1..calls
      BY <3>1, PacketTypes DEF Tokens
    <3>. QED  BY <1>2, <1>6, <3>1, <3>2 DEF SendPacket, Request
  <2>. QED  BY <2>1, <2>2
<1>7. CASE HostAnswers \/ HostRepeats \/ HostCloses \/ \E j \in Jobs : HostRequests(j)
  BY <1>1, <1>7 DEF HostAnswers, HostRepeats, HostCloses, HostRequests
<1>8. CASE WriterEnds \/ ReadRequest \/ ReadAnswer \/ ReadEof
  BY <1>1, <1>8 DEF WriterEnds, ReadRequest, ReadAnswer, ReadEof, Read
<1>9. CASE CloseLocks("close", 1, "close2") \/ CloseLocks("close2", 2, "clear") \/ Close
  BY <1>1, <1>9 DEF CloseLocks, Close
<1>10. CASE JoinPinger \/ JoinJobs \/ Shutdown \/ Disposed \/ DropService \/ JoinWriter
  BY <1>1, <1>10 DEF JoinPinger, JoinJobs, Shutdown, Disposed, DropService, JoinWriter, ToMain
<1>11. CASE BuilderCalls \/ BuilderResumes \/ PingWaits \/ PingReturns
  BY <1>1, <1>11 DEF BuilderCalls, BuilderResumes, PingWaits, PingReturns
<1>12. ASSUME NEW j \in Jobs, JobCalls(j) \/ JobResumes(j) \/ JobHandled(j) PROVE Named'
  BY <1>1, <1>12 DEF JobCalls, JobResumes, JobHandled
<1>13. ASSUME NEW c \in Callers, SendLock(c) \/ SendCheck(c) \/ Receive(c) PROVE Named'
  BY <1>1, <1>13 DEF SendLock, SendCheck, Receive
<1>14. CASE UNCHANGED vars
  BY <1>1, <1>14 DEF vars
<1>. QED
  BY <1>3, <1>4, <1>5, <1>6, <1>7, <1>8, <1>9, <1>10, <1>11, <1>12, <1>13, <1>14,
     StepsOfTheTransport

-----------------------------------------------------------------------------
(* The theorems.                                                           *)

IInv == Shape /\ Served /\ Named /\ Matched

LEMMA Initially == Init => IInv
<1>. SUFFICES ASSUME Init PROVE IInv
  OBVIOUS
<1>. USE TransportAssumption DEF Init
<1>1. Shape
  <2>1. \A S : <<>> \in Seq(S)
    OBVIOUS
  <2>2. Packets /\ Places
    BY <2>1 DEF Packets, Places
  <2>3. Numbers
    BY DEF Numbers
  <2>. QED  BY <2>2, <2>3 DEF Shape
<1>2. Served
  BY DEF Served, Calling, SentOnce, AnsweredOnce, Ending, NoContextLeft
<1>3. Undrawn = {} /\ Sending = {}
  BY DEF Undrawn, Waiting, Sending
<1>4. Tokens /\ Drawn /\ Traffic /\ Replies
  BY <1>3 DEF Tokens, Drawn, Traffic, Replies
<1>5. Named
  BY DEF Named
<1>6. Room
  BY <1>3, FS_EmptySet DEF Room
<1>. QED  BY <1>1, <1>2, <1>4, <1>5, <1>6 DEF IInv, Matched

LEMMA Inductive == IInv /\ [Next]_vars => IInv'
<1>. SUFFICES ASSUME IInv, [Next]_vars PROVE IInv'
  OBVIOUS
<1>1. Shape' /\ Served'
  BY ShapeStep, EndingStep, SentOnceStep, AnsweredStep DEF IInv, Served
<1>2. Tokens' /\ calls <= calls'
  BY TokensStep DEF IInv, Served, Matched
<1>3. ASSUME calls' <= IdSpace PROVE (Room /\ Drawn /\ Traffic /\ Replies)'
  <2>1. calls <= IdSpace
    BY <1>1, <1>2, <1>3, TransportAssumption DEF IInv, Shape, Numbers
  <2>. QED  BY <2>1, RoomStep, DrawnStep, TrafficStep, RepliesStep DEF IInv, Served, Matched
<1>4. Named'
  BY NamedStep DEF IInv, Served, Matched
<1>. QED  BY <1>1, <1>2, <1>3, <1>4 DEF IInv, Matched

LEMMA Always == Spec => []IInv
BY Initially, Inductive, PTL DEF Spec

\* The state of the transport keeps its types: ids stay below the bound, no
\* request is answered twice, and the host is asked only for calls that began.
THEOREM TypeCorrect == Spec => []TypeOK
<1>1. IInv => TypeOK
  <2>. SUFFICES ASSUME IInv PROVE TypeOK
    OBVIOUS
  <2>1. \A r \in atHost : r.id \in Ids /\ r.token \in 1..calls
    BY DEF IInv, Shape, Packets, Named
  <2>. QED  BY <2>1 DEF IInv, Shape, Places, Numbers, Served, AnsweredOnce, TypeOK
<1>. QED  BY <1>1, Always, PTL

\* What the reader of run_with_io took in is served to the end: when the
\* service has ended without a write error each request that was read has been
\* answered once, and no context is left to build.
THEOREM RequestsServed == Spec => []RequestsAreServed
<1>1. IInv => RequestsAreServed
  <2>. SUFFICES ASSUME IInv PROVE RequestsDrained /\ NoContextLeft
    BY DEF RequestsAreServed
  <2>1. ASSUME Exited, writer = "drained", NEW j \in Jobs
        PROVE  outgoing = <<>> /\ answers[j] = IF job[j] = "finished" THEN 1 ELSE 0
    <3>1. outgoing = <<>>
      BY <2>1 DEF IInv, Served, AnsweredOnce
    <3>. QED  BY <2>1, <3>1 DEF IInv, Served, AnsweredOnce
  <2>2. Exited /\ writer = "drained" => outgoing = <<>>
    BY DEF IInv, Served, AnsweredOnce
  <2>. QED  BY <2>1, <2>2 DEF IInv, Served, RequestsDrained
<1>. QED  BY <1>1, Always, PTL

\* The answer a caller of send_request gets is the one to its own call,
\* whatever the order in which the host answers and however often it repeats
\* itself, until the ids wrap around.
THEOREM AnswersReachTheirCallers == Spec => []AnswersMatchCalls
<1>1. IInv => AnswersMatchCalls
  BY DEF IInv, Matched, Replies, AnswersMatchCalls
<1>. QED  BY <1>1, Always, PTL
=============================================================================
