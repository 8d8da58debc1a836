----------------------------- MODULE TaskProcess -----------------------------
(***************************************************************************)
(* One task in its sandbox: localJob.Wait (internal/lutra/executor.go), the *)
(* multiplexed pipe pair of internal/taskstdio and the task host of the    *)
(* Python SDK at its other end.                                            *)
(*                                                                         *)
(* The worker makes one call, Execute; the task makes any of Request back. *)
(* Every goroutine of the transport has a program counter. A pipe is the   *)
(* sequence of the frames written and not read. The host reads its input   *)
(* whatever else it does and queues what it reads, and so does readLoop: a *)
(* pipe never stays full, and its capacity is left out.                    *)
(***************************************************************************)
EXTENDS Naturals, Sequences, FiniteSets

CONSTANTS
  Request,    \* the task's calls of the worker's API: TaskAPIClient.unary
  MayDie      \* whether the process may die by itself

ASSUME ProcessAssumption == IsFiniteSet(Request) /\ MayDie \in BOOLEAN /\ "g1" \notin Request

VARIABLES
  canceled,  \* the context of the attempt
  err,       \* Transport.err is set
  refused,   \* it is set because a frame had 32 MiB or more (maxLine)
  call,      \* the call struct of Execute, and whether Transport.calls has it
  pc,        \* Wait, Do, receiveCall, sendRequest and readLoop
  served,    \* serveIncoming of each request
  incoming,  \* Transport.incomingCalls
  stopped,   \* the requests whose context is canceled
  workers,   \* the counter of Transport.workers
  link,      \* the two pipes
  host,      \* the process, and the task of Execute in it
  api        \* the task's side of each request

failure == <<err, refused>>
vars == <<canceled, failure, call, pc, served, incoming, stopped, workers, link, host, api>>
serving == <<served, incoming, stopped>>
peer == <<host, api>>

-----------------------------------------------------------------------------
(* State formulae. An operator whose name ends in Bug is a wrong variant of *)
(* the one that follows it, used only to try whether a property notices.   *)

\* "no_body" is the end of an answer whose message could not be written.
Kind == {"open", "message", "half_close", "cancel", "headers", "error", "end", "no_body",
         "request", "response"}
Frame == [id : Request \cup {"g1"}, kind : Kind]
frame(i, k) == [id |-> i, kind |-> k]

TypeOK ==
  /\ {canceled, err, refused} \subseteq BOOLEAN
  /\ call \in [listed : BOOLEAN, done : BOOLEAN, notify : BOOLEAN, started : BOOLEAN,
               queue : Seq(Kind), ready : {"empty", "response", "failed"},
               body : {"open", "eof", "broken", "closed"},
               payload : {"none", "message", "error"}]
  /\ pc \in [job : {"call", "wait", "shutdown", "join", "returned"},
             do : {"new", "open", "select", "read", "ok", "error", "canceled"},
             receive : {"off", "pop", "select", "write", "exit"},
             send : {"off", "message", "half_close"}, read : {"off", "scan"}]
  /\ served \in [Request -> {"none", "handler", "answer", "exit", "gone"}]
  /\ incoming \subseteq Request /\ stopped \subseteq Request
  /\ workers \in Nat
  /\ link \in [stdin : Seq(Frame), stdout : Seq(Frame), writable : BOOLEAN, readable : BOOLEAN]
  /\ host \in [state : {"running", "exited", "died"},
               task : {"none", "open", "body", "running", "headers", "message", "error",
                       "answered", "failed", "dropped", "canceled"}]
  /\ api \in [Request -> {"idle", "waiting", "answered", "canceled"}]

\* taskstdio.Start: the process runs and so does readLoop.
Init ==
  /\ canceled = FALSE /\ err = FALSE /\ refused = FALSE
  /\ call = [listed |-> FALSE, done |-> FALSE, notify |-> FALSE, started |-> FALSE,
             queue |-> <<>>, ready |-> "empty", body |-> "open", payload |-> "none"]
  /\ pc = [job |-> "call", do |-> "new", receive |-> "off", send |-> "off", read |-> "scan"]
  /\ served = [r \in Request |-> "none"] /\ incoming = {} /\ stopped = {}
  /\ workers = 1
  /\ link = [stdin |-> <<>>, stdout |-> <<>>, writable |-> TRUE, readable |-> TRUE]
  /\ host = [state |-> "running", task |-> "none"]
  /\ api = [r \in Request |-> "idle"]

Running == host.state = "running"

\* A write to the process fails once its input is closed at either end.
Writable == link.writable /\ Running
Sent(f) == IF Writable THEN [link EXCEPT !.stdin = Append(@, f)] ELSE link

\* Transport.remove and Transport.fail, as they change a call and the requests.
Removed == [call EXCEPT !.listed = FALSE, !.done = @ \/ call.listed]
Failed == [call EXCEPT !.done = @ \/ (~err /\ call.listed)]
StoppedByFailBug == stopped
StoppedByFail == IF err THEN stopped ELSE stopped \cup incoming

\* send does not write the frame, and its caller fails the transport: the process does
\* not read any more, or the frame is too large.
SendFails(large) ==
  /\ ~Writable \/ large
  /\ err' = TRUE /\ call' = Failed /\ stopped' = StoppedByFail
  /\ refused' = (refused \/ (Writable /\ ~err))
  /\ UNCHANGED link

-----------------------------------------------------------------------------
(* Transport.Do, in the goroutine of localJob.Wait. *)

Register ==
  /\ pc.do = "new"
  /\ IF err
     THEN /\ pc' = [pc EXCEPT !.do = "error"] /\ UNCHANGED <<call, workers>>
     ELSE /\ call' = [call EXCEPT !.listed = TRUE] /\ workers' = workers + 2
          /\ pc' = [pc EXCEPT !.do = "open"]
  /\ UNCHANGED <<canceled, failure, serving, link, peer>>

Open ==
  /\ pc.do = "open"
  /\ link' = Sent(frame("g1", "open"))
  /\ IF Writable
     THEN /\ pc' = [pc EXCEPT !.do = "select", !.receive = "pop", !.send = "message"]
          /\ UNCHANGED <<call, workers>>
     ELSE /\ call' = Removed /\ workers' = workers - 2
          /\ pc' = [pc EXCEPT !.do = "error"]
  /\ UNCHANGED <<canceled, failure, serving, peer>>

Respond ==
  /\ pc.do = "select" /\ call.ready # "empty"
  /\ pc' = [pc EXCEPT !.do = IF call.ready = "response" THEN "read" ELSE "error"]
  /\ UNCHANGED <<canceled, failure, call, serving, workers, link, peer>>

\* The response, if there is one or will be one, is nobody's from now on.
GiveUp ==
  /\ pc.do = "select" /\ canceled
  /\ link' = Sent(frame("g1", "cancel")) /\ call' = Removed
  /\ pc' = [pc EXCEPT !.do = "canceled"]
  /\ UNCHANGED <<canceled, failure, serving, workers, peer>>

\* The generated client reads the body to its end: a Read takes what Write offers.
ReadBody ==
  /\ pc.do = "read" /\ pc.receive = "write"
  /\ pc' = [pc EXCEPT !.receive = "pop"]
  /\ UNCHANGED <<canceled, failure, call, serving, workers, link, peer>>

ReadEnd ==
  /\ pc.do = "read" /\ pc.receive # "write" /\ call.body # "open"
  /\ pc' = [pc EXCEPT !.do = IF call.body = "eof" /\ call.payload = "message"
                             THEN "ok" ELSE "error"]
  /\ UNCHANGED <<canceled, failure, call, serving, workers, link, peer>>

-----------------------------------------------------------------------------
(* Transport.sendRequest. The request is one message, and it is in memory. *)

SendRequest ==
  /\ pc.send # "off"
  /\ \/ /\ Writable /\ link' = Sent(frame("g1", pc.send))
        /\ IF pc.send = "message"
           THEN pc' = [pc EXCEPT !.send = "half_close"] /\ UNCHANGED workers
           ELSE pc' = [pc EXCEPT !.send = "off"] /\ workers' = workers - 1
        /\ UNCHANGED <<failure, call, stopped>>
     \/ /\ SendFails(pc.send = "message")
        /\ pc' = [pc EXCEPT !.send = "off"] /\ workers' = workers - 1
  /\ UNCHANGED <<canceled, served, incoming, peer>>

-----------------------------------------------------------------------------
(* Transport.receiveCall: a frame at a time, and a select when there is none. *)

Pop ==
  /\ pc.receive = "pop"
  /\ IF call.queue = <<>>
     THEN pc' = [pc EXCEPT !.receive = "select"] /\ UNCHANGED call
     ELSE LET k == Head(call.queue)
              rest == [call EXCEPT !.queue = Tail(@)]
          IN \/ /\ k = "headers" /\ ~call.started
                /\ call' = [rest EXCEPT !.started = TRUE, !.ready = "response"]
                /\ UNCHANGED pc
             \/ /\ k = "error" \/ (k = "message" /\ call.started)
                /\ call' = [rest EXCEPT !.payload = k]
                /\ pc' = [pc EXCEPT !.receive = "write"]
             \/ /\ \/ k \in {"end", "no_body"}
                   \/ k = "headers" /\ call.started
                   \/ k = "message" /\ ~call.started
                /\ call' = rest
                /\ pc' = [pc EXCEPT !.receive = "exit"]
  /\ UNCHANGED <<canceled, failure, serving, workers, link, peer>>

Notified ==
  /\ pc.receive = "select" /\ call.notify
  /\ call' = [call EXCEPT !.notify = FALSE]
  /\ pc' = [pc EXCEPT !.receive = "pop"]
  /\ UNCHANGED <<canceled, failure, serving, workers, link, peer>>

\* A pipe closed with an error: what was read so far is not a response.
BrokenBug(c) == c
Broken(c) == [c EXCEPT !.body = IF @ = "open" THEN "broken" ELSE @]

ContextDone ==
  /\ pc.receive = "select" /\ canceled
  /\ link' = Sent(frame("g1", "cancel")) /\ call' = Broken(Removed)
  /\ pc' = [pc EXCEPT !.receive = "exit"]
  /\ UNCHANGED <<canceled, failure, serving, workers, peer>>

Disconnected ==
  /\ pc.receive = "select" /\ call.done
  /\ call' = Broken(call)
  /\ pc' = [pc EXCEPT !.receive = "exit"]
  /\ UNCHANGED <<canceled, failure, serving, workers, link, peer>>

\* The deferred functions: ready, the writer, remove. Frames left are lost. A
\* Write to a pipe whose reader is closed fails.
Exit ==
  /\ pc.receive = "exit" \/ (pc.receive = "write" /\ call.body = "closed")
  /\ call' = [Removed EXCEPT !.ready = IF call.started THEN @ ELSE "failed",
                             !.body = IF @ = "open" THEN "eof" ELSE @,
                             !.queue = <<>>, !.notify = FALSE]
  /\ workers' = workers - 1
  /\ pc' = [pc EXCEPT !.receive = "off"]
  /\ UNCHANGED <<canceled, failure, serving, link, peer>>

-----------------------------------------------------------------------------
(* Transport.readLoop and handler.go *)

PushBug(k) ==
  /\ call' = IF call.listed THEN [call EXCEPT !.queue = Append(@, k)] ELSE call
  /\ UNCHANGED <<serving, workers>>
Push(k) ==
  /\ call' = IF call.listed
             THEN [call EXCEPT !.queue = Append(@, k), !.notify = TRUE] ELSE call
  /\ UNCHANGED <<serving, workers>>

\* handleIncomingFrame. Frames without effect: any after fail, a request whose
\* id is taken, a cancellation of a request that is over.
RequestedBug(r) ==
  /\ incoming' = incoming \cup {r}
  /\ served' = [served EXCEPT ![r] = "handler"]
  /\ UNCHANGED <<call, stopped, workers>>
Requested(r) ==
  /\ incoming' = incoming \cup {r}
  /\ served' = [served EXCEPT ![r] = "handler"]
  /\ workers' = workers + 1
  /\ UNCHANGED <<call, stopped>>

Withdrawn(r) ==
  /\ stopped' = stopped \cup {r} /\ incoming' = incoming \ {r}
  /\ UNCHANGED <<call, served, workers>>

HandleIncomingFrame(f) ==
  IF err THEN UNCHANGED <<call, serving, workers>>
  ELSE CASE f.kind = "request" /\ f.id \notin incoming -> Requested(f.id)
         [] f.kind = "cancel" /\ f.id \in incoming -> Withdrawn(f.id)
         [] OTHER -> UNCHANGED <<call, serving, workers>>

\* The scanner may have read what was in the pipe before its end was closed.
ReadFrame ==
  /\ pc.read = "scan" /\ link.stdout # <<>>
  /\ LET f == Head(link.stdout)
     IN IF f.id = "g1" THEN Push(f.kind) ELSE HandleIncomingFrame(f)
  /\ link' = [link EXCEPT !.stdout = Tail(@)]
  /\ UNCHANGED <<canceled, failure, pc, peer>>

\* The end of the stream; an incomplete last line ends the loop in the same way.
\* Frames left are lost.
ReadLoopEnds ==
  /\ pc.read = "scan"
  /\ ~link.readable \/ (link.stdout = <<>> /\ ~Running)
  /\ err' = TRUE /\ call' = Failed /\ stopped' = StoppedByFail /\ UNCHANGED refused
  /\ workers' = workers - 1
  /\ link' = [link EXCEPT !.stdout = <<>>]
  /\ pc' = [pc EXCEPT !.read = "off"]
  /\ UNCHANGED <<canceled, served, incoming, peer>>

\* serveIncoming: the API's handler returns, of itself or because it is told to.
Handled(r) ==
  /\ served[r] = "handler"
  /\ served' = [served EXCEPT ![r] = IF r \in stopped THEN "exit" ELSE "answer"]
  /\ UNCHANGED <<canceled, failure, call, pc, incoming, stopped, workers, link, peer>>

\* The answer is as large as what the task asked for.
Answer(r) ==
  /\ served[r] = "answer"
  /\ served' = [served EXCEPT ![r] = "exit"]
  /\ \/ Writable /\ link' = Sent(frame(r, "response")) /\ UNCHANGED <<failure, call, stopped>>
     \/ SendFails(TRUE)
  /\ UNCHANGED <<canceled, pc, incoming, workers, peer>>

Leave(r) ==
  /\ served[r] = "exit"
  /\ served' = [served EXCEPT ![r] = "gone"]
  /\ stopped' = stopped \cup {r} /\ incoming' = incoming \ {r}
  /\ workers' = workers - 1
  /\ UNCHANGED <<canceled, failure, call, pc, link, peer>>

-----------------------------------------------------------------------------
(* localJob.Wait: the call, then Process.Close. *)

Over == pc.do \in {"ok", "error", "canceled"}

CloseWrite ==
  /\ pc.job = "call" /\ Over
  /\ link' = [link EXCEPT !.writable = FALSE]
  /\ pc' = [pc EXCEPT !.job = "wait"]
  /\ UNCHANGED <<canceled, failure, call, serving, workers, peer>>

\* Command.Wait returns when the process is gone and closes its output.
Reap ==
  /\ pc.job = "wait" /\ ~Running
  /\ link' = [link EXCEPT !.readable = FALSE]
  /\ pc' = [pc EXCEPT !.job = "shutdown"]
  /\ UNCHANGED <<canceled, failure, call, serving, workers, peer>>

\* fail, closeResponses and the close of the input.
CloseResponses(c) == IF c.listed /\ c.body = "open" THEN [c EXCEPT !.body = "closed"] ELSE c

Shutdown ==
  /\ pc.job = "shutdown"
  /\ err' = TRUE /\ call' = CloseResponses(Failed) /\ stopped' = StoppedByFail
  /\ UNCHANGED refused
  /\ link' = [link EXCEPT !.readable = FALSE]
  /\ pc' = [pc EXCEPT !.job = "join"]
  /\ UNCHANGED <<canceled, served, incoming, workers, peer>>

Join ==
  /\ pc.job = "join" /\ workers = 0
  /\ pc' = [pc EXCEPT !.job = "returned"]
  /\ UNCHANGED <<canceled, failure, call, serving, workers, link, peer>>

\* The attempt is canceled: its context is what Do and the process are given.
Cancel ==
  /\ ~canceled /\ pc.job # "returned"
  /\ canceled' = TRUE
  /\ UNCHANGED <<failure, call, pc, serving, workers, link, peer>>

-----------------------------------------------------------------------------
(* The task host: _Host.dispatch, _Call.run and TaskAPIClient.unary *)

Live == {"open", "body", "running", "headers", "message", "error"}

Dispatched(f) ==
  IF f.id # "g1" THEN host
  ELSE CASE f.kind = "open" -> [host EXCEPT !.task = "open"]
         [] f.kind = "message" /\ host.task = "open" -> [host EXCEPT !.task = "body"]
         [] f.kind = "half_close" /\ host.task = "body" -> [host EXCEPT !.task = "running"]
         [] f.kind = "cancel" /\ host.task \in Live -> [host EXCEPT !.task = "canceled"]
         [] OTHER -> host

Dispatch ==
  /\ Running /\ link.stdin # <<>>
  /\ LET f == Head(link.stdin)
     IN /\ host' = Dispatched(f)
        /\ api' = IF f.id # "g1" /\ api[f.id] = "waiting"
                  THEN [api EXCEPT ![f.id] = "answered"] ELSE api
  /\ link' = [link EXCEPT !.stdin = Tail(@)]
  /\ UNCHANGED <<canceled, failure, call, pc, serving, workers>>

Write(f) == link' = [link EXCEPT !.stdout = Append(@, f)]

\* The task may run such a call beside others and give it up, and it is
\* canceled with the task.
Unary(r) ==
  /\ Running /\ host.task = "running" /\ api[r] = "idle"
  /\ api' = [api EXCEPT ![r] = "waiting"]
  /\ Write(frame(r, "request"))
  /\ UNCHANGED <<canceled, failure, call, pc, serving, workers, host>>

Withdraw(r) ==
  /\ Running /\ api[r] = "waiting"
  /\ api' = [api EXCEPT ![r] = "canceled"]
  /\ Write(frame(r, "cancel"))
  /\ UNCHANGED <<canceled, failure, call, pc, serving, workers, host>>

\* _Call.send and the except clause of _Call.run: the task returned or raised, or it
\* returned more than a frame holds. (When the text of what it raised is that large it
\* says no more; it may then stay where it is.)
Reply(from, kind, to) ==
  /\ Running /\ host.task = from
  /\ host' = [host EXCEPT !.task = to]
  /\ Write(frame("g1", kind))
  /\ UNCHANGED <<canceled, failure, call, pc, serving, workers, api>>

Replies ==
  \/ Reply("running", "headers", "headers")
  \/ Reply("headers", "message", "message") \/ Reply("message", "end", "answered")
  \/ Reply("headers", "error", "error") \/ Reply("error", "end", "failed")
  \/ Reply("headers", "no_body", "dropped")

\* serve returns at the end of its input; it cancels the calls that are left.
HostExits ==
  /\ Running /\ link.stdin = <<>> /\ ~link.writable
  /\ host' = [host EXCEPT !.state = "exited"]
  /\ UNCHANGED <<canceled, failure, call, pc, serving, workers, link, api>>

\* The process dies, or CommandContext kills it. What it wrote can be read.
Dies == host' = [host EXCEPT !.state = "died"] /\ link' = [link EXCEPT !.stdin = <<>>]

Die ==
  /\ MayDie /\ Running /\ Dies
  /\ UNCHANGED <<canceled, failure, call, pc, serving, workers, api>>

Killed ==
  /\ canceled /\ Running /\ Dies
  /\ UNCHANGED <<canceled, failure, call, pc, serving, workers, api>>

-----------------------------------------------------------------------------
Transport ==
  \/ Register \/ Open \/ Respond \/ GiveUp \/ ReadBody \/ ReadEnd \/ SendRequest
  \/ Pop \/ Notified \/ ContextDone \/ Disconnected \/ Exit
  \/ ReadFrame \/ ReadLoopEnds
  \/ \E r \in Request : Answer(r) \/ Leave(r)

Job == CloseWrite \/ Reap \/ Shutdown \/ Join

Next ==
  \/ Transport \/ Job \/ Cancel
  \/ Dispatch \/ Replies \/ HostExits \/ Die \/ Killed
  \/ \E r \in Request : Handled(r) \/ Unary(r) \/ Withdraw(r)

Spec == Init /\ [][Next]_vars

(* A goroutine that can take a step takes one; the host reads its input and *)
(* ends with it, and the kernel kills what it is told to. Nothing is said  *)
(* of the task, which may run for ever, nor of a handler of the API, which *)
(* may wait for another action, until its context is canceled.             *)
FairSpec ==
  /\ Spec
  /\ WF_vars(Register \/ Open \/ Respond \/ GiveUp \/ ReadBody \/ ReadEnd)
  /\ WF_vars(SendRequest)
  /\ WF_vars(Pop \/ Notified \/ ContextDone \/ Disconnected \/ Exit)
  /\ WF_vars(ReadFrame \/ ReadLoopEnds)
  /\ WF_vars(Job)
  /\ \A r \in Request : WF_vars((r \in stopped /\ Handled(r)) \/ Answer(r) \/ Leave(r))
  /\ WF_vars(Dispatch \/ HostExits) /\ WF_vars(Killed)

-----------------------------------------------------------------------------
(* Properties *)

\* What Execute returns is what happened: a result only if the task returned
\* one and all of it was received, and an error only if the task raised, the
\* process died, the attempt was canceled, or a frame was too large: that of
\* the result, of the request, or of an answer to the task, which costs the
\* task its transport. (Transport.Do, receiveCall, send)
TruthfulOutcome ==
  /\ pc.do = "ok" => host.task = "answered"
  /\ pc.do = "error" => \/ host.task \in {"failed", "dropped"} \/ host.state = "died"
                        \/ canceled \/ refused

\* When Wait returns, every goroutine of the transport is gone, and with it every
\* API call the attempt had under way; the counter Shutdown waits for is their
\* number at any time. (Transport.workers: Do, handleIncomingFrame, Shutdown)
Busy == {r \in Request : served[r] \in {"handler", "answer", "exit"}}
Alive(p) == IF p = "off" THEN 0 ELSE 1
NothingOutlives ==
  /\ workers = Cardinality(Busy) + Alive(pc.send) + Alive(pc.receive) + Alive(pc.read)
               + (IF pc.do = "open" THEN 2 ELSE 0)
  /\ pc.job = "returned" => Busy = {} /\ incoming = {} /\ ~call.listed

\* A handler does not go on for a caller that is gone: once the task gave a
\* call up or its process ended, the handler's context is canceled and it is
\* left. (handleIncomingFrame, Transport.fail)
HandlersStop ==
  \A r \in Request :
    (api[r] = "canceled" \/ (~Running /\ api[r] = "waiting")) ~> r \notin Busy

\* When the task has answered, the process is gone or the attempt is canceled,
\* Wait returns. (localJob.Wait, Process.Close, Transport.Shutdown)
Ending == host.task \in {"answered", "failed", "dropped"} \/ ~Running \/ canceled
WaitReturns == Ending ~> pc.job = "returned"

\* The one way in which it does not: Do left on a canceled context, its call is
\* removed, and receiveCall has a message for which there is no reader.
Abandoned == pc.do = "canceled" /\ ~call.listed /\ pc.receive = "write"
WaitReturnsUnlessAbandoned == Ending ~> pc.job = "returned" \/ Abandoned
=============================================================================
