-------------------------- MODULE ServiceTransport --------------------------
(***************************************************************************)
(* The stdio transport of service/dispatch.rs: the thread that reads       *)
(* packets and shuts the service down, the thread that writes them, one    *)
(* job thread per request of the host, the pinger, and the builds a        *)
(* watched context runs in the background.  Job, pinger and background     *)
(* builds call the host and block until it answers.                        *)
(*                                                                         *)
(* Contexts are reduced to whether one exists (ServiceContexts has them in *)
(* full); a packet is reduced to its kind, its id and, for a call of the   *)
(* host, which call it is.                                                 *)
(***************************************************************************)
EXTENDS Integers, Sequences

CONSTANTS
    Main,           \* the thread of run_with_io
    Pinger,         \* the thread of ping_loop
    Builder,        \* the background builds of a context
    Jobs,           \* the job threads, one per request of the host
    None,
    IdSpace,        \* the number of callback ids: 2^31 in the code
    ExitOnWriteError, \* exit_on_write_error
    MaxCalls        \* bound: calls of the host

ASSUME TransportAssumption ==
    /\ Main \notin {Pinger, Builder, None} /\ Pinger \notin {Builder, None} /\ Builder # None
    /\ {Main, Pinger, Builder, None} \cap Jobs = {}
    /\ IdSpace \in Nat \ {0} /\ MaxCalls \in Nat
    /\ ExitOnWriteError \in BOOLEAN

VARIABLES
    input,          \* packets the host has sent, the end of input last
    atHost,         \* calls the host has received and not answered
    outgoing,       \* the channel to the writer
    writer,         \* "up", "down" after a write error, "joined" when it has drained
    main,           \* where the main thread is
    job,            \* where each job is
    creates,        \* the jobs whose request creates a context
    answers,        \* answers[j]: responses the host has received for j's request
    context,        \* a context exists and may build in the background
    lock,           \* who holds each mutex of Service
    closed,         \* Service.closed
    nextId,         \* Callbacks.next_id
    pending,        \* Callbacks.pending: id -> caller that waits for it
    call,           \* where each caller is in send_request
    id, token,      \* the id each caller has drawn, and which call it is
    reply,          \* what the caller's channel holds
    pinger,         \* where the pinger is
    calls           \* calls begun so far

hostVars == <<input, atHost>>
pipeVars == <<outgoing, writer, answers>>
jobVars == <<job, creates, context>>
sendVars == <<nextId, pending, call, id, token, reply, calls>>
vars == <<hostVars, pipeVars, jobVars, sendVars, lock, closed, main, pinger>>

Callers == Jobs \cup {Pinger, Builder, Main}
Ids == 0..(IdSpace - 1)
Mutexes == {"callbacks", "closed"}

Request(i, t) == [kind |-> "call", id |-> i, token |-> t]
Answer(i, t) == [kind |-> "answer", id |-> i, token |-> t]
JobRequest(j) == [kind |-> "request", job |-> j]
EndOfInput == [kind |-> "eof"]
Response(j) == [kind |-> "response", job |-> j]

Init ==
    /\ input = <<>> /\ atHost = {}
    /\ outgoing = <<>> /\ writer = "up"
    /\ main = "read"
    /\ job = [j \in Jobs |-> "unsent"]
    /\ creates \in SUBSET Jobs
    /\ answers = [j \in Jobs |-> 0]
    /\ context = FALSE
    /\ lock = [x \in Mutexes |-> None]
    /\ closed = FALSE
    /\ nextId = 0
    /\ pending = <<>>
    /\ call = [c \in Callers |-> "none"]
    /\ id = [c \in Callers |-> 0] /\ token = [c \in Callers |-> 0]
    /\ reply = [c \in Callers |-> None]
    /\ pinger = "wait"
    /\ calls = 0

Exited == main = "exited"
Without(f, i) == [k \in DOMAIN f \ {i} |-> f[k]]

(***************************************************************************)
(* The host (the JavaScript side of the pipe).                             *)
(***************************************************************************)
Eof == input # <<>> /\ input[Len(input)] = EndOfInput

HostRequests(j) ==
    /\ ~Eof /\ main = "read" /\ job[j] = "unsent"
    /\ input' = Append(input, JobRequest(j))
    /\ job' = [job EXCEPT ![j] = "sent"]
    /\ UNCHANGED <<atHost, pipeVars, creates, context, sendVars, lock, closed, main, pinger>>

HostAnswers ==
    /\ ~Eof /\ main = "read"
    /\ \E r \in atHost :
          /\ input' = Append(input, Answer(r.id, r.token))
          /\ atHost' = atHost \ {r}
    /\ UNCHANGED <<pipeVars, jobVars, sendVars, lock, closed, main, pinger>>

\* A host that answers a call it has answered before: the service gives up on it.
\* Bound: not once the next id wraps, when the repeated answer could match a new call.
HostRepeats ==
    /\ ~Eof /\ main = "read" /\ calls < IdSpace
    /\ \E i \in 0..(nextId - 1) :
          /\ i \notin DOMAIN pending
          /\ \A k \in DOMAIN input : input[k] \notin {Answer(n, 0) : n \in Ids}
          /\ input' = Append(input, Answer(i, 0))
    /\ UNCHANGED <<atHost, pipeVars, jobVars, sendVars, lock, closed, main, pinger>>

HostCloses ==
    /\ ~Eof /\ main = "read"
    /\ input' = Append(input, EndOfInput)
    /\ UNCHANGED <<atHost, pipeVars, jobVars, sendVars, lock, closed, main, pinger>>

(***************************************************************************)
(* send_request.  The callbacks mutex is taken first and the closed mutex  *)
(* inside it; close takes them in the same order.                          *)
(***************************************************************************)
BeginCall(c) ==
    /\ call' = [call EXCEPT ![c] = "lock"]
    /\ calls' = calls + 1
    /\ token' = [token EXCEPT ![c] = calls + 1]
    /\ UNCHANGED <<nextId, pending, id, reply>>

SendLock(c) ==
    /\ call[c] = "lock"
    /\ lock["callbacks"] = None
    /\ lock' = [lock EXCEPT !["callbacks"] = c]
    /\ call' = [call EXCEPT ![c] = "check"]
    /\ UNCHANGED <<hostVars, pipeVars, jobVars, nextId, pending, id, token, reply, calls, closed, main, pinger>>

\* Mutant: the id is not advanced.
SendCheck_SameId(c) ==
    /\ call[c] = "check"
    /\ lock["closed"] = None
    /\ lock' = [lock EXCEPT !["callbacks"] = None]
    /\ \/ /\ closed
          /\ call' = [call EXCEPT ![c] = "err"]
          /\ UNCHANGED <<nextId, pending, id>>
       \/ /\ ~closed
          /\ call' = [call EXCEPT ![c] = "send"]
          /\ id' = [id EXCEPT ![c] = nextId]
          /\ nextId' = nextId
          /\ pending' = [i \in DOMAIN pending \cup {nextId} |-> IF i = nextId THEN c ELSE pending[i]]
    /\ UNCHANGED <<hostVars, pipeVars, jobVars, token, reply, calls, closed, main, pinger>>

\* The closed flag is read and the id registered under one hold of callbacks.
SendCheck(c) ==
    /\ call[c] = "check"
    /\ lock["closed"] = None
    /\ lock' = [lock EXCEPT !["callbacks"] = None]
    /\ \/ /\ closed
          /\ call' = [call EXCEPT ![c] = "err"]
          /\ UNCHANGED <<nextId, pending, id>>
       \/ /\ ~closed
          /\ call' = [call EXCEPT ![c] = "send"]
          /\ id' = [id EXCEPT ![c] = nextId % IdSpace]
          /\ nextId' = (nextId % IdSpace) + 1
          /\ pending' = [i \in DOMAIN pending \cup {nextId % IdSpace} |->
                            IF i = nextId % IdSpace THEN c ELSE pending[i]]
    /\ UNCHANGED <<hostVars, pipeVars, jobVars, token, reply, calls, closed, main, pinger>>

\* send_packet fails once the writer is gone; the callback is then taken back.
SendPacket(c) ==
    /\ call[c] = "send"
    /\ \/ /\ writer = "up"
          /\ outgoing' = Append(outgoing, Request(id[c], token[c]))
          /\ call' = [call EXCEPT ![c] = "wait"]
          /\ UNCHANGED pending
       \/ /\ writer # "up"
          /\ lock["callbacks"] = None
          /\ pending' = Without(pending, id[c])
          /\ call' = [call EXCEPT ![c] = "err"]
          /\ UNCHANGED outgoing
    /\ UNCHANGED <<hostVars, writer, answers, jobVars, nextId, id, token, reply, calls, lock, closed, main, pinger>>

\* recv: the answer, or an error when the sender was dropped with its registration.
Receive(c) ==
    /\ call[c] = "wait"
    /\ \/ reply[c] # None /\ call' = [call EXCEPT ![c] = "ok"]
       \/ /\ reply[c] = None
          /\ \A i \in DOMAIN pending : ~(pending[i] = c /\ id[c] = i)
          /\ call' = [call EXCEPT ![c] = "err"]
    /\ UNCHANGED <<hostVars, pipeVars, jobVars, nextId, pending, id, token, reply, calls, lock, closed, main, pinger>>

SendRequest(c) == SendLock(c) \/ SendCheck(c) \/ SendPacket(c) \/ Receive(c)

Returned(c) == call[c] \in {"ok", "err"}
EndCall(c) ==
    /\ call' = [call EXCEPT ![c] = "none"]
    /\ id' = [id EXCEPT ![c] = 0]
    /\ token' = [token EXCEPT ![c] = 0]
    /\ reply' = [reply EXCEPT ![c] = None]
    /\ UNCHANGED <<nextId, pending, calls>>

(***************************************************************************)
(* The job threads: run a request, which may call plugins of the host and  *)
(* may create a context, then send the response.                           *)
(***************************************************************************)
JobCalls(j) ==
    /\ job[j] = "run" /\ calls < MaxCalls
    /\ job' = [job EXCEPT ![j] = "calling"]
    /\ BeginCall(j)
    /\ UNCHANGED <<hostVars, pipeVars, creates, context, lock, closed, main, pinger>>

JobResumes(j) ==
    /\ job[j] = "calling" /\ Returned(j)
    /\ job' = [job EXCEPT ![j] = "run"]
    /\ EndCall(j)
    /\ UNCHANGED <<hostVars, pipeVars, creates, context, lock, closed, main, pinger>>

\* The result, an error or a caught panic all become one response.
JobHandled(j) ==
    /\ job[j] = "run"
    /\ job' = [job EXCEPT ![j] = "respond"]
    /\ context' = (context \/ j \in creates)
    /\ UNCHANGED <<hostVars, pipeVars, creates, sendVars, lock, closed, main, pinger>>

JobResponds(j) ==
    /\ job[j] = "respond"
    /\ outgoing' = IF writer = "up" THEN Append(outgoing, Response(j)) ELSE outgoing
    /\ job' = [job EXCEPT ![j] = "finished"]
    /\ UNCHANGED <<hostVars, writer, answers, creates, context, sendVars, lock, closed, main, pinger>>

JobStep(j) == JobCalls(j) \/ JobResumes(j) \/ JobHandled(j) \/ JobResponds(j)

(***************************************************************************)
(* The pinger: wait a second or until closed, then call the host.          *)
(***************************************************************************)
PingWaits ==
    /\ pinger = "wait"
    /\ lock["closed"] = None
    /\ \/ /\ closed
          /\ pinger' = "done"
          /\ UNCHANGED sendVars
       \/ /\ ~closed /\ calls < MaxCalls
          /\ pinger' = "calling"
          /\ BeginCall(Pinger)
    /\ UNCHANGED <<hostVars, pipeVars, jobVars, lock, closed, main>>

PingReturns ==
    /\ pinger = "calling" /\ Returned(Pinger)
    /\ pinger' = IF call[Pinger] = "ok" THEN "wait" ELSE "done"
    /\ EndCall(Pinger)
    /\ UNCHANGED <<hostVars, pipeVars, jobVars, lock, closed, main>>

(***************************************************************************)
(* Builds of a context that no job waits for: the watcher's.  They hold a  *)
(* weak reference to the service, upgraded for the time of a call.         *)
(***************************************************************************)
BuilderCalls ==
    /\ context /\ call[Builder] = "none" /\ calls < MaxCalls
    /\ main \notin {"disposed", "joinWriter", "exited"}
    /\ BeginCall(Builder)
    /\ UNCHANGED <<hostVars, pipeVars, jobVars, lock, closed, main, pinger>>

BuilderResumes ==
    /\ Returned(Builder)
    /\ EndCall(Builder)
    /\ UNCHANGED <<hostVars, pipeVars, jobVars, lock, closed, main, pinger>>

(***************************************************************************)
(* The writer.                                                             *)
(***************************************************************************)
\* Whoever holds the service, and with it the sending end of the channel.
ServiceHeld ==
    \/ main \notin {"joinWriter", "exited"}
    \/ pinger # "done"
    \/ \E j \in Jobs : job[j] \in {"run", "calling", "respond"}
    \/ call[Builder] # "none"

Write ==
    /\ writer = "up" /\ outgoing # <<>> /\ ~Exited
    /\ outgoing' = Tail(outgoing)
    /\ LET p == Head(outgoing)
       IN  /\ atHost' = IF p.kind = "call" THEN atHost \cup {[id |-> p.id, token |-> p.token]} ELSE atHost
           /\ answers' = IF p.kind = "response" THEN [answers EXCEPT ![p.job] = @ + 1] ELSE answers
    /\ UNCHANGED <<input, writer, jobVars, sendVars, lock, closed, main, pinger>>

WriteFails ==
    /\ writer = "up" /\ outgoing # <<>> /\ ~Exited
    /\ writer' = "down"
    /\ outgoing' = <<>>
    /\ main' = IF ExitOnWriteError THEN "exited" ELSE main
    /\ UNCHANGED <<hostVars, answers, jobVars, sendVars, lock, closed, pinger>>

WriterEnds ==
    /\ writer = "up" /\ outgoing = <<>> /\ ~ServiceHeld
    /\ writer' = "drained"
    /\ UNCHANGED <<hostVars, outgoing, answers, jobVars, sendVars, lock, closed, main, pinger>>

(***************************************************************************)
(* The main thread: read packets until the host closes stdin or sends an   *)
(* answer nobody waits for, then shut down.                                *)
(***************************************************************************)
Read ==
    /\ main = "read" /\ input # <<>>
    /\ input' = Tail(input)
    /\ UNCHANGED <<atHost, pipeVars, creates, context, nextId, call, id, token, calls, lock, closed, pinger>>

ReadRequest ==
    /\ Read /\ Head(input).kind = "request"
    /\ job' = [job EXCEPT ![Head(input).job] = "run"]
    /\ UNCHANGED <<main, pending, reply>>

\* receive_response: the registration is removed, its caller woken.
ReadAnswer ==
    /\ Read /\ Head(input).kind = "answer"
    /\ lock["callbacks"] = None
    /\ LET i == Head(input).id
       IN  \/ /\ i \in DOMAIN pending
              /\ pending' = Without(pending, i)
              /\ reply' = [reply EXCEPT ![pending[i]] = Head(input).token]
              /\ UNCHANGED main
           \/ /\ i \notin DOMAIN pending
              /\ main' = "close"
              /\ UNCHANGED <<pending, reply>>
    /\ UNCHANGED job

ReadEof ==
    /\ Read /\ Head(input).kind = "eof"
    /\ main' = "close"
    /\ UNCHANGED <<job, pending, reply>>

\* Mutant: close takes the closed mutex first.
CloseOrder_Reversed == <<"closed", "callbacks">>

\* close takes both mutexes in this order and sets the flag under the second.
CloseOrder == <<"callbacks", "closed">>

CloseLocks(here, n, next) ==
    /\ main = here
    /\ lock[CloseOrder[n]] = None
    /\ lock' = [lock EXCEPT ![CloseOrder[n]] = Main]
    /\ main' = next
    /\ UNCHANGED <<hostVars, pipeVars, jobVars, sendVars, closed, pinger>>

Close ==
    /\ main = "clear"
    /\ closed' = TRUE
    /\ pending' = <<>>
    /\ lock' = [x \in Mutexes |-> None]
    /\ main' = "joinPinger"
    /\ UNCHANGED <<hostVars, pipeVars, jobVars, nextId, call, id, token, reply, calls, pinger>>

ToMain(here, next) ==
    /\ main = here
    /\ main' = next
    /\ UNCHANGED <<hostVars, pipeVars, job, creates, lock, closed, pinger>>

JoinPinger == pinger = "done" /\ ToMain("joinPinger", "joinJobs") /\ UNCHANGED <<context, sendVars>>

\* Mutant: the jobs still running are not joined.
JobsJoined_Any == TRUE

JobsJoined == \A j \in Jobs : job[j] \in {"unsent", "sent", "finished"}
JoinJobs == JobsJoined /\ ToMain("joinJobs", "shutdown") /\ UNCHANGED <<context, sendVars>>

\* contexts.shutdown: dispose of the context there is, which waits for its build and
\* runs the host's onDispose callbacks, a call like any other.
Shutdown ==
    \/ ~context /\ ToMain("shutdown", "drop") /\ UNCHANGED <<context, sendVars>>
    \/ context /\ call[Builder] = "none" /\ ToMain("shutdown", "disposed") /\ BeginCall(Main) /\ UNCHANGED context

Disposed ==
    /\ Returned(Main)
    /\ ToMain("disposed", "drop")
    /\ context' = FALSE
    /\ EndCall(Main)

DropService == ToMain("drop", "joinWriter") /\ UNCHANGED <<context, sendVars>>
JoinWriter == writer \in {"drained", "down"} /\ ToMain("joinWriter", "exited") /\ UNCHANGED <<context, sendVars>>

MainStep ==
    \/ ReadRequest \/ ReadAnswer \/ ReadEof
    \/ CloseLocks("close", 1, "close2") \/ CloseLocks("close2", 2, "clear") \/ Close
    \/ JoinPinger \/ JoinJobs \/ Shutdown \/ Disposed \/ DropService \/ JoinWriter

HostStep == HostAnswers \/ HostRepeats \/ HostCloses \/ \E j \in Jobs : HostRequests(j)
ThreadStep(c) ==
    \/ SendRequest(c)
    \/ c \in Jobs /\ JobStep(c)
    \/ c = Pinger /\ (PingWaits \/ PingReturns)
    \/ c = Builder /\ BuilderResumes

Next ==
    /\ ~Exited
    /\ \/ HostStep \/ Write \/ WriteFails \/ WriterEnds \/ MainStep \/ BuilderCalls
       \/ \E c \in Callers : ThreadStep(c)

\* Every thread that can go on does, and the host answers what it is asked as long as
\* the pipe is open.  Requests, the end of the input, background builds, repeated
\* answers and write errors need not happen.
Fairness ==
    /\ WF_vars(Next /\ MainStep) /\ WF_vars(Next /\ (Write \/ WriterEnds)) /\ WF_vars(Next /\ HostAnswers)
    /\ \A c \in Callers : WF_vars(Next /\ ThreadStep(c))

Spec == Init /\ [][Next]_vars /\ Fairness

-----------------------------------------------------------------------------
TypeOK ==
    /\ \A r \in atHost : r.id \in Ids /\ r.token \in 1..calls
    /\ writer \in {"up", "down", "drained"}
    /\ main \in {"read", "close", "close2", "clear", "joinPinger", "joinJobs", "shutdown",
                 "disposed", "drop", "joinWriter", "exited"}
    /\ job \in [Jobs -> {"unsent", "sent", "run", "calling", "respond", "finished"}]
    /\ answers \in [Jobs -> 0..1]
    /\ {context, closed} \subseteq BOOLEAN
    /\ lock \in [Mutexes -> Callers \cup {None}]
    /\ DOMAIN pending \subseteq Ids /\ \A i \in DOMAIN pending : pending[i] \in Callers
    /\ call \in [Callers -> {"none", "lock", "check", "send", "wait", "ok", "err"}]
    /\ pinger \in {"wait", "calling", "done"}

\* A caller gets the answer to its own call, never one meant for another
\* (send_request and receive_response), as long as ids do not wrap around.
AnswersMatchCalls == calls <= IdSpace => \A c \in Callers : call[c] = "ok" => reply[c] = token[c]

\* When the service has ended without a write error, every request it read has been
\* answered once, and none that it did not read (run_with_io).
RequestsDrained ==
    Exited /\ writer = "drained" =>
        /\ outgoing = <<>>
        /\ \A j \in Jobs : answers[j] = IF job[j] = "finished" THEN 1 ELSE 0

\* A job may create a context until it ends; none is left behind, building, when the
\* service ends: jobs are joined before the contexts are shut down.
NoContextLeft == main \in {"drop", "joinWriter"} => ~context /\ call[Builder] = "none"

\* What the reader took in is served to the end: its requests are answered, and what
\* they left running is shut down (run_with_io).
RequestsAreServed == RequestsDrained /\ NoContextLeft

\* Every call of the host returns, and once the reader stops the service ends, whatever
\* the host does: no caller waits for a dead host, no thread for a thread that waits for
\* it (send_request, close).
ServiceEnds ==
    /\ \A c \in Callers : (call[c] = "lock") ~> (call[c] = "none" \/ Exited)
    /\ (main = "close") ~> Exited
=============================================================================
