-------------------------- MODULE TaskProcess_proof --------------------------
(***************************************************************************)
(* The transport of a task: its goroutines are counted and gone when Wait  *)
(* returns, and what Execute returns is what happened, for any number of   *)
(* calls of the task and wherever the process dies or is killed.           *)
(***************************************************************************)
EXTENDS TaskProcess, FiniteSetTheorems, TLAPS

-----------------------------------------------------------------------------
(* Types *)

Calls == [listed : BOOLEAN, done : BOOLEAN, notify : BOOLEAN, started : BOOLEAN,
          queue : Seq(Kind), ready : {"empty", "response", "failed"},
          body : {"open", "eof", "broken", "closed"}, payload : {"none", "message", "error"}]
Counters == [job : {"call", "wait", "shutdown", "join", "returned"},
             do : {"new", "open", "select", "read", "ok", "error", "canceled"},
             receive : {"off", "pop", "select", "write", "exit"},
             send : {"off", "message", "half_close"}, read : {"off", "scan"}]
Links == [stdin : Seq(Frame), stdout : Seq(Frame), writable : BOOLEAN, readable : BOOLEAN]
Hosts == [state : {"running", "exited", "died"},
          task : {"none", "open", "body", "running", "headers", "message", "error",
                  "answered", "failed", "dropped", "canceled"}]

\* The counter of goroutines apart, which its own invariant keeps.
Typed ==
  /\ {canceled, err, refused} \subseteq BOOLEAN
  /\ call \in Calls /\ pc \in Counters /\ link \in Links /\ host \in Hosts
  /\ served \in [Request -> {"none", "handler", "answer", "exit", "gone"}]
  /\ incoming \subseteq Request /\ stopped \subseteq Request
  /\ api \in [Request -> {"idle", "waiting", "answered", "canceled"}]

\* Frames stay frames through a pipe.
LEMMA Frames ==
  /\ \A i \in Request \cup {"g1"}, k \in Kind : frame(i, k) \in Frame
  /\ \A f \in Frame : f.id \in Request \cup {"g1"} /\ f.kind \in Kind
BY DEF Frame, frame

LEMMA Sent_type == ASSUME Typed, NEW f \in Frame PROVE Sent(f) \in Links
<1>1. link \in Links /\ Append(link.stdin, f) \in Seq(Frame) BY DEF Typed, Links
<1>2. [link EXCEPT !.stdin = Append(link.stdin, f)] \in Links BY <1>1 DEF Links
<1> QED BY <1>1, <1>2 DEF Sent

LEMMA Removed_type == ASSUME Typed PROVE Removed \in Calls /\ Failed \in Calls
BY DEF Typed, Calls, Removed, Failed

LEMMA Init_type == Init => Typed
<1> SUFFICES ASSUME Init PROVE Typed OBVIOUS
<1>1. <<>> \in Seq(Kind) /\ <<>> \in Seq(Frame) OBVIOUS
<1>2. call \in Calls BY <1>1 DEF Init, Calls
<1>3. pc \in Counters BY DEF Init, Counters
<1>4. link \in Links BY <1>1 DEF Init, Links
<1>5. host \in Hosts BY DEF Init, Hosts
<1> QED BY <1>2, <1>3, <1>4, <1>5 DEF Init, Typed

LEMMA Do_type ==
  ASSUME Typed, Register \/ Open \/ Respond \/ GiveUp \/ ReadBody \/ ReadEnd PROVE Typed'
<1>1. frame("g1", "open") \in Frame /\ frame("g1", "cancel") \in Frame BY Frames DEF Kind
<1>2. CASE Register
  <2>1. [call EXCEPT !.listed = TRUE] \in Calls BY DEF Typed, Calls
  <2>2. pc' \in Counters BY <1>2 DEF Register, Typed, Counters, failure
  <2> QED BY <1>2, <2>1, <2>2 DEF Register, serving, peer, Typed, failure
<1>3. CASE Open
  <2>1. link' \in Links BY <1>1, <1>3, Sent_type DEF Open
  <2>2. call' \in Calls BY <1>3, Removed_type DEF Open, Typed, failure
  <2> QED BY <1>3, <2>1, <2>2 DEF Open, serving, peer, Typed, Counters, failure
<1>4. CASE GiveUp
  <2>1. link' \in Links /\ call' \in Calls BY <1>1, <1>4, Sent_type, Removed_type DEF GiveUp
  <2> QED BY <1>4, <2>1 DEF GiveUp, serving, peer, Typed, Counters, failure
<1>5. CASE Respond \/ ReadBody \/ ReadEnd
  BY <1>5 DEF Respond, ReadBody, ReadEnd, serving, peer, Typed, Counters, failure
<1> QED BY <1>2, <1>3, <1>4, <1>5

LEMMA Receive_type ==
  ASSUME Typed, SendRequest \/ Pop \/ Notified \/ ContextDone \/ Disconnected \/ Exit PROVE Typed'
<1>1. CASE SendRequest
  <2>1. pc.send \in Kind BY <1>1 DEF SendRequest, Typed, Counters, Kind
  <2>2. frame("g1", pc.send) \in Frame BY <2>1, Frames
  <2>3. link' \in Links BY <1>1, <2>2, Sent_type DEF SendRequest, SendFails, Typed
  <2>4. call' \in Calls BY <1>1, Removed_type DEF SendRequest, SendFails, Typed
  <2>5. pc' \in Counters BY <1>1 DEF SendRequest, Typed, Counters
  <2>6. stopped' \subseteq Request /\ {err', refused'} \subseteq BOOLEAN
    BY <1>1 DEF SendRequest, StoppedByFail, Typed, SendFails, failure
  <2> QED BY <1>1, <2>3, <2>4, <2>5, <2>6 DEF SendRequest, peer, Typed
<1>2. CASE Pop
  <2>1. call.queue # <<>> => Head(call.queue) \in Kind /\ Tail(call.queue) \in Seq(Kind)
    BY DEF Typed, Calls
  <2>2. call' \in Calls
    <3>1. CASE call' = call BY <3>1 DEF Typed
    <3>2. CASE call.queue # <<>>
      <4>1. call \in Calls BY DEF Typed
      <4>2. \/ call' = [call EXCEPT !.queue = Tail(call.queue), !.started = TRUE, !.ready = "response"]
            \/ \E k \in {"error", "message"} :
                 call' = [call EXCEPT !.queue = Tail(call.queue), !.payload = k]
            \/ call' = [call EXCEPT !.queue = Tail(call.queue)]
        BY <1>2, <3>2 DEF Pop
      <4>3. [call EXCEPT !.queue = Tail(call.queue)] \in Calls BY <2>1, <3>2, <4>1 DEF Calls
      <4>4. [call EXCEPT !.queue = Tail(call.queue), !.started = TRUE, !.ready = "response"] \in Calls
        BY <2>1, <3>2, <4>1 DEF Calls
      <4>5. \A k \in {"error", "message"} :
              [call EXCEPT !.queue = Tail(call.queue), !.payload = k] \in Calls
        BY <2>1, <3>2, <4>1 DEF Calls
      <4> QED BY <4>2, <4>3, <4>4, <4>5
    <3> QED BY <1>2, <3>1, <3>2 DEF Pop
  <2>3. pc' \in Counters BY <1>2 DEF Pop, Typed, Counters
  <2> QED BY <1>2, <2>2, <2>3 DEF Pop, serving, peer, Typed, failure
<1>3. CASE Notified
  BY <1>3 DEF Notified, serving, peer, Typed, Calls, Counters, failure
<1>4. CASE ContextDone
  <2>1. frame("g1", "cancel") \in Frame BY Frames DEF Kind
  <2>2. link' \in Links BY <1>4, <2>1, Sent_type DEF ContextDone
  <2>3. call' \in Calls BY <1>4, Removed_type DEF ContextDone, Broken, Calls
  <2> QED BY <1>4, <2>2, <2>3 DEF ContextDone, serving, peer, Typed, Counters, failure
<1>5. CASE Disconnected
  BY <1>5 DEF Disconnected, Broken, serving, peer, Typed, Calls, Counters, failure
<1>6. CASE Exit
  <2> DEFINE r == Removed
  <2>1. r \in Calls /\ <<>> \in Seq(Kind) BY Removed_type
  <2> HIDE DEF r
  <2>2. [r EXCEPT !.ready = IF call.started THEN r.ready ELSE "failed",
                  !.body = IF r.body = "open" THEN "eof" ELSE r.body,
                  !.queue = <<>>, !.notify = FALSE] \in Calls
    BY <2>1 DEF Calls
  <2>3. call' \in Calls BY <1>6, <2>2 DEF Exit, r
  <2> QED BY <1>6, <2>3 DEF Exit, serving, peer, Typed, Counters, failure
<1> QED BY <1>1, <1>2, <1>3, <1>4, <1>5, <1>6

\* The head of a pipe is a frame and what is left is a pipe.
LEMMA Piped ==
  ASSUME Typed
  PROVE  /\ link.stdout # <<>> => Head(link.stdout) \in Frame /\ Tail(link.stdout) \in Seq(Frame)
         /\ link.stdin # <<>> => Head(link.stdin) \in Frame /\ Tail(link.stdin) \in Seq(Frame)
BY DEF Typed, Links

LEMMA Read_type == ASSUME Typed, ReadFrame \/ ReadLoopEnds PROVE Typed'
<1>1. CASE ReadFrame
  <2> DEFINE f == Head(link.stdout)
  <2>1. /\ f \in Frame /\ Tail(link.stdout) \in Seq(Frame)
        /\ f.kind \in Kind /\ (f.id # "g1" => f.id \in Request)
    BY <1>1, Piped, Frames DEF ReadFrame
  <2>2. link' \in Links BY <1>1, <2>1 DEF ReadFrame, Typed, Links, failure
  <2> HIDE DEF f
  <2>3. ASSUME f.id = "g1", Push(f.kind) PROVE call' \in Calls /\ UNCHANGED serving
    <3>1. Append(call.queue, f.kind) \in Seq(Kind) BY <2>1 DEF Typed, Calls
    <3>2. [call EXCEPT !.queue = Append(call.queue, f.kind), !.notify = TRUE] \in Calls
      BY <3>1 DEF Typed, Calls
    <3> QED BY <2>3, <3>2 DEF Push, Typed
  <2>4. ASSUME f.id # "g1", HandleIncomingFrame(f)
        PROVE  /\ call' = call /\ incoming' \subseteq Request /\ stopped' \subseteq Request
               /\ served' \in [Request -> {"none", "handler", "answer", "exit", "gone"}]
    BY <2>1, <2>4 DEF HandleIncomingFrame, Requested, Withdrawn, serving, Typed
  <2>5. IF f.id = "g1" THEN Push(f.kind) ELSE HandleIncomingFrame(f) BY <1>1 DEF ReadFrame, f
  <2> QED BY <1>1, <2>2, <2>3, <2>4, <2>5 DEF ReadFrame, serving, peer, Typed, failure
<1>2. CASE ReadLoopEnds
  <2>1. [link EXCEPT !.stdout = <<>>] \in Links
    <3>1. <<>> \in Seq(Frame) OBVIOUS
    <3> QED BY <3>1 DEF Typed, Links
  <2>2. pc' \in Counters BY <1>2 DEF ReadLoopEnds, Typed, Counters, failure
  <2>3. call' \in Calls BY <1>2, Removed_type DEF ReadLoopEnds
  <2> QED BY <1>2, <2>1, <2>2, <2>3 DEF ReadLoopEnds, StoppedByFail, peer, Typed, failure
<1> QED BY <1>1, <1>2

LEMMA Serve_type ==
  ASSUME Typed, NEW r \in Request, Handled(r) \/ Answer(r) \/ Leave(r) PROVE Typed'
<1>1. CASE Handled(r)
  BY <1>1 DEF Handled, peer, Typed, failure
<1>2. CASE Answer(r)
  <2>1. frame(r, "response") \in Frame BY Frames DEF Kind
  <2>2. link' \in Links BY <1>2, <2>1, Sent_type DEF Answer, SendFails, Typed
  <2>3. call' \in Calls BY <1>2, Removed_type DEF Answer, Typed, SendFails, failure
  <2> QED BY <1>2, <2>2, <2>3 DEF Answer, StoppedByFail, peer, Typed, SendFails, failure
<1>3. CASE Leave(r)
  BY <1>3 DEF Leave, peer, Typed, failure
<1> QED BY <1>1, <1>2, <1>3

LEMMA Job_type == ASSUME Typed, Job \/ Cancel PROVE Typed'
<1>1. CASE CloseWrite BY <1>1 DEF CloseWrite, serving, peer, Typed, Links, Counters, failure
<1>2. CASE Reap BY <1>2 DEF Reap, serving, peer, Typed, Links, Counters, failure
<1>3. CASE Shutdown
  <2> DEFINE r == Failed
  <2>1. r \in Calls BY Removed_type
  <2> HIDE DEF r
  <2>2. CloseResponses(r) \in Calls BY <2>1 DEF CloseResponses, Calls
  <2>3. call' \in Calls BY <1>3, <2>2 DEF Shutdown, r
  <2> QED BY <1>3, <2>3 DEF Shutdown, StoppedByFail, peer, Typed, Links, Counters, failure
<1>4. CASE Join BY <1>4 DEF Join, serving, peer, Typed, Counters, failure
<1>5. CASE Cancel BY <1>5 DEF Cancel, serving, peer, Typed, failure
<1> QED BY <1>1, <1>2, <1>3, <1>4, <1>5 DEF Job

LEMMA Dispatched_type == ASSUME Typed, NEW f PROVE Dispatched(f) \in Hosts
BY DEF Dispatched, Typed, Hosts

LEMMA Wrote_type ==
  ASSUME Typed, NEW f \in Frame, Write(f)
  PROVE  link' \in Links /\ link' = [link EXCEPT !.stdout = Append(link.stdout, f)]
<1>1. Append(link.stdout, f) \in Seq(Frame) BY DEF Typed, Links
<1> QED BY <1>1 DEF Write, Typed, Links

LEMMA Host_type ==
  ASSUME Typed, Dispatch \/ Replies \/ HostExits \/ Die \/ Killed PROVE Typed'
<1>1. CASE Dispatch
  <2>1. Tail(link.stdin) \in Seq(Frame) BY <1>1, Piped DEF Dispatch
  <2>2. link' \in Links BY <1>1, <2>1 DEF Dispatch, Typed, Links, failure
  <2>3. host' \in Hosts BY <1>1, Dispatched_type DEF Dispatch
  <2> QED BY <1>1, <2>2, <2>3 DEF Dispatch, serving, Typed, failure
<1>2. ASSUME NEW from, NEW kind \in Kind,
             NEW to \in {"headers", "message", "error", "answered", "failed", "dropped"}, Reply(from, kind, to)
      PROVE  Typed'
  <2>1. link' \in Links BY <1>2, Frames, Wrote_type DEF Reply
  <2> QED BY <1>2, <2>1 DEF Reply, serving, Typed, Hosts, failure
<1>3. CASE Replies BY <1>2, <1>3 DEF Replies, Kind
<1>4. CASE HostExits BY <1>4 DEF HostExits, serving, Typed, Hosts, failure
<1>5. ASSUME Dies PROVE host' \in Hosts /\ link' \in Links
  <2>1. <<>> \in Seq(Frame) OBVIOUS
  <2> QED BY <1>5, <2>1 DEF Dies, Typed, Hosts, Links
<1>6. CASE Die BY <1>5, <1>6 DEF Die, serving, Typed, failure
<1>7. CASE Killed BY <1>5, <1>7 DEF Killed, serving, Typed, failure
<1> QED BY <1>1, <1>3, <1>4, <1>6, <1>7

LEMMA Caller_type ==
  ASSUME Typed, NEW r \in Request, Unary(r) \/ Withdraw(r) PROVE Typed'
<1>1. frame(r, "request") \in Frame /\ frame(r, "cancel") \in Frame BY Frames DEF Kind
<1>2. link' \in Links BY <1>1, Wrote_type DEF Unary, Withdraw
<1> QED BY <1>2 DEF Unary, Withdraw, serving, Typed, failure

\* Every step keeps the types.
LEMMA Next_type == ASSUME Typed, [Next]_vars PROVE Typed'
<1>1. CASE Transport
  BY <1>1, Do_type, Receive_type, Read_type, Serve_type DEF Transport
<1>2. CASE UNCHANGED vars
  BY <1>2 DEF vars, Typed, failure
<1> QED BY <1>1, <1>2, Job_type, Host_type, Serve_type, Caller_type DEF Next

-----------------------------------------------------------------------------
(* What is in the pipes *)

\* The frame of the kind k with the id i is in the pipe s.
In(s, i, k) == \E n \in 1..Len(s) : s[n] = frame(i, k)

\* Frames are read in the order in which they were written.
LEMMA Shifted ==
  ASSUME NEW T, NEW s \in Seq(T), s # <<>>
  PROVE  /\ Tail(s) \in Seq(T) /\ Len(s) \in Nat \ {0} /\ Len(Tail(s)) = Len(s) - 1 /\ Head(s) = s[1]
         /\ \A n \in 1..Len(Tail(s)) : Tail(s)[n] = s[n + 1] /\ n + 1 \in 1..Len(s)
OBVIOUS

LEMMA Appended ==
  ASSUME NEW T, NEW s \in Seq(T), NEW f \in T
  PROVE  /\ Append(s, f) \in Seq(T) /\ Len(s) \in Nat /\ Len(Append(s, f)) = Len(s) + 1
         /\ \A n \in 1..Len(s) : Append(s, f)[n] = s[n]
         /\ Append(s, f)[Len(s) + 1] = f
OBVIOUS

Once(s, i, k) == \A n, m \in 1..Len(s) : s[n] = frame(i, k) /\ s[m] = frame(i, k) => n = m

\* A frame is written.
LEMMA Append_in ==
  ASSUME NEW s \in Seq(Frame), NEW f \in Frame, NEW i, NEW k
  PROVE  /\ In(Append(s, f), i, k) <=> In(s, i, k) \/ f = frame(i, k)
         /\ Once(s, i, k) /\ (f # frame(i, k) \/ ~In(s, i, k)) => Once(Append(s, f), i, k)
<1> DEFINE t == Append(s, f)
<1>1. /\ Len(s) \in Nat /\ Len(t) = Len(s) + 1 /\ t[Len(s) + 1] = f
      /\ \A n \in 1..Len(s) : t[n] = s[n]
  BY Appended
<1> HIDE DEF t
<1>2. \A n \in 1..Len(t) : n \in 1..Len(s) \/ n = Len(s) + 1 BY <1>1
<1>3. \A n \in 1..Len(s) : n \in 1..Len(t) BY <1>1
<1>4. Len(s) + 1 \in 1..Len(t) BY <1>1
<1>5. In(t, i, k) => In(s, i, k) \/ f = frame(i, k) BY <1>1, <1>2 DEF In
<1>6. In(s, i, k) => In(t, i, k) BY <1>1, <1>3 DEF In
<1>7. f = frame(i, k) => In(t, i, k) BY <1>1, <1>4 DEF In
<1>8. Once(s, i, k) /\ (f # frame(i, k) \/ ~In(s, i, k)) => Once(t, i, k)
  BY <1>1, <1>2 DEF In, Once
<1> QED BY <1>5, <1>6, <1>7, <1>8 DEF t

\* A frame is read.
LEMMA Tail_in ==
  ASSUME NEW s \in Seq(Frame), s # <<>>, NEW i, NEW k
  PROVE  /\ In(Tail(s), i, k) => In(s, i, k)
         /\ Head(s) = frame(i, k) => In(s, i, k)
         /\ Once(s, i, k) => Once(Tail(s), i, k)
         /\ Once(s, i, k) /\ Head(s) = frame(i, k) => ~In(Tail(s), i, k)
<1> DEFINE t == Tail(s)
<1>1. /\ Len(s) \in Nat \ {0} /\ Len(t) = Len(s) - 1 /\ Head(s) = s[1] /\ 1 \in 1..Len(s)
      /\ \A n \in 1..Len(t) : t[n] = s[n + 1] /\ n + 1 \in 1..Len(s)
  BY Shifted
<1> HIDE DEF t
<1>2. In(t, i, k) => In(s, i, k) BY <1>1 DEF In
<1>3. Head(s) = frame(i, k) => In(s, i, k) BY <1>1 DEF In
<1>4. Once(s, i, k) => Once(t, i, k)
  <2> SUFFICES ASSUME Once(s, i, k), NEW n \in 1..Len(t), NEW m \in 1..Len(t),
                      t[n] = frame(i, k), t[m] = frame(i, k)
               PROVE  n = m
    BY DEF Once
  <2>1. n + 1 = m + 1 BY <1>1 DEF Once
  <2> QED BY <2>1
<1>5. Once(s, i, k) /\ Head(s) = frame(i, k) => ~In(t, i, k)
  <2> SUFFICES ASSUME Once(s, i, k), Head(s) = frame(i, k),
                      NEW n \in 1..Len(t), t[n] = frame(i, k)
               PROVE  FALSE
    BY DEF In
  <2>1. n + 1 = 1 BY <1>1 DEF Once
  <2> QED BY <2>1
<1> QED BY <1>2, <1>3, <1>4, <1>5 DEF t

\* Who writes to the worker, and what: the task only.
LEMMA Output ==
  ASSUME Typed, [Next]_vars, ~ReadFrame, ~ReadLoopEnds, ~Replies,
         ~\E r \in Request : Unary(r) \/ Withdraw(r)
  PROVE  link'.stdout = link.stdout /\ (Dispatch \/ host'.task = host.task)
<1> USE DEF Typed, Links, Hosts
<1>1. CASE Register \/ Respond \/ ReadBody \/ ReadEnd \/ Pop \/ Notified \/ Disconnected \/ Exit
  BY <1>1 DEF Register, Respond, ReadBody, ReadEnd, Pop, Notified, Disconnected, Exit, peer
<1>2. CASE Open \/ GiveUp \/ SendRequest \/ ContextDone
  BY <1>2 DEF Open, GiveUp, SendRequest, ContextDone, Sent, peer, SendFails
<1>3. ASSUME NEW r \in Request, Answer(r) \/ Leave(r) \/ Handled(r)
      PROVE  link'.stdout = link.stdout /\ host'.task = host.task
  BY <1>3 DEF Answer, Leave, Handled, Sent, peer, SendFails
<1>4. CASE Job \/ Cancel
  BY <1>4 DEF Job, CloseWrite, Reap, Shutdown, Join, Cancel, peer
<1>5. CASE Dispatch BY <1>5 DEF Dispatch
<1>6. CASE HostExits \/ Die \/ Killed BY <1>6 DEF HostExits, Die, Killed, Dies
<1>7. CASE UNCHANGED vars BY <1>7 DEF vars
<1> QED BY <1>1, <1>2, <1>3, <1>4, <1>5, <1>6, <1>7 DEF Next, Transport

-----------------------------------------------------------------------------
(* Each request is made once *)

\* A call's request is on its way before it is served, and there is one of it.
Asked ==
  \A r \in Request :
    /\ api[r] = "idle" => served[r] = "none" /\ ~In(link.stdout, r, "request")
    /\ In(link.stdout, r, "request") => served[r] = "none"
    /\ Once(link.stdout, r, "request")

\* What is served changes when a request is read and by those who serve it.
LEMMA Serving ==
  ASSUME Typed, [Next]_vars, ~ReadFrame, NEW r \in Request
  PROVE  /\ served'[r] # "none" => served[r] # "none"
         /\ served[r] \notin {"handler", "answer", "exit"} => served'[r] = served[r]
<1> USE DEF Typed
<1>1. CASE \E q \in Request : Handled(q) \/ Answer(q) \/ Leave(q)
  BY <1>1 DEF Handled, Answer, Leave, SendFails
<1>2. CASE ~\E q \in Request : Handled(q) \/ Answer(q) \/ Leave(q)
  <2>1. served' = served
    BY <1>2 DEF Next, Transport, Register, Open, Respond, GiveUp, ReadBody, ReadEnd, SendRequest, Pop,
       Notified, ContextDone, Disconnected, Exit, ReadLoopEnds, Job, CloseWrite, Reap, Shutdown,
       Join, Cancel, Dispatch, Replies, Reply, HostExits, Die, Killed, Unary, Withdraw, serving,
       vars, SendFails
  <2> QED BY <2>1
<1> QED BY <1>1, <1>2

LEMMA Asking ==
  ASSUME [Next]_vars, Typed, NEW r \in Request
  PROVE  /\ api'[r] = "idle" => api[r] = "idle"
         /\ ~Unary(r) => (api[r] = "idle" => api'[r] = "idle")
<1> USE DEF Typed
<1>1. CASE Dispatch BY <1>1 DEF Dispatch
<1>2. CASE \E q \in Request : Unary(q) \/ Withdraw(q)
  BY <1>2 DEF Unary, Withdraw
<1>3. CASE ~Dispatch /\ ~\E q \in Request : Unary(q) \/ Withdraw(q)
  <2>1. api' = api
    BY <1>3 DEF Next, Transport, Register, Open, Respond, GiveUp, ReadBody, ReadEnd, SendRequest, Pop,
       Notified, ContextDone, Disconnected, Exit, ReadFrame, ReadLoopEnds, Job, CloseWrite, Reap,
       Shutdown, Join, Cancel, Replies, Reply, HostExits, Die, Killed, Handled, Answer, Leave,
       peer, vars, SendFails
  <2> QED BY <2>1
<1> QED BY <1>1, <1>2, <1>3

\* Another frame is written.
LEMMA Write_other ==
  ASSUME Typed, NEW f \in Frame, Write(f), NEW i, NEW k, f # frame(i, k)
  PROVE  /\ In(link.stdout, i, k)' <=> In(link.stdout, i, k)
         /\ Once(link.stdout, i, k) => Once(link.stdout, i, k)'
<1>1. link.stdout \in Seq(Frame) /\ link'.stdout = Append(link.stdout, f)
  BY Wrote_type DEF Typed, Links
<1> QED BY <1>1, Append_in

\* The frames left after one was read.
LEMMA Read_rest ==
  ASSUME Typed, ReadFrame, NEW i, NEW k
  PROVE  /\ In(link.stdout, i, k)' => In(link.stdout, i, k)
         /\ Once(link.stdout, i, k) => Once(link.stdout, i, k)'
         /\ Once(link.stdout, i, k) /\ Head(link.stdout) = frame(i, k) => ~In(link.stdout, i, k)'
         /\ Head(link.stdout) = frame(i, k) => In(link.stdout, i, k)
<1>1. link.stdout \in Seq(Frame) /\ link.stdout # <<>> /\ link'.stdout = Tail(link.stdout)
  BY DEF Typed, Links, ReadFrame
<1> QED BY <1>1, Tail_in

LEMMA Asked_step == ASSUME Typed, Asked, [Next]_vars PROVE Asked'
<1> SUFFICES ASSUME NEW r \in Request
             PROVE  /\ api'[r] = "idle" => served'[r] = "none" /\ ~In(link.stdout, r, "request")'
                    /\ In(link.stdout, r, "request")' => served'[r] = "none"
                    /\ Once(link.stdout, r, "request")'
  BY DEF Asked
<1>0. /\ api[r] = "idle" => served[r] = "none" /\ ~In(link.stdout, r, "request")
      /\ In(link.stdout, r, "request") => served[r] = "none"
      /\ Once(link.stdout, r, "request")
  BY DEF Asked
<1>1. CASE ReadFrame
  <2>1. /\ In(link.stdout, r, "request")' => In(link.stdout, r, "request")
        /\ Once(link.stdout, r, "request")'
        /\ Head(link.stdout) = frame(r, "request") =>
             In(link.stdout, r, "request") /\ ~In(link.stdout, r, "request")'
    BY <1>0, <1>1, Read_rest
  <2>2. Head(link.stdout) # frame(r, "request") => served'[r] = served[r]
    <3> DEFINE f == Head(link.stdout)
    <3>1. f \in Frame BY <1>1, Piped DEF ReadFrame
    <3>2. f.id = r /\ f.kind = "request" => f = frame(r, "request") BY <3>1 DEF Frame, frame
    <3>3. IF f.id = "g1" THEN Push(f.kind) ELSE HandleIncomingFrame(f) BY <1>1 DEF ReadFrame
    <3> HIDE DEF f
    <3>4. f # frame(r, "request") => served'[r] = served[r]
      BY <3>1, <3>2, <3>3, Frames DEF Push, HandleIncomingFrame, Requested, Withdrawn, serving, Typed
    <3> QED BY <3>4 DEF f
  <2>3. api' = api BY <1>1 DEF ReadFrame, peer
  <2> QED BY <1>0, <2>1, <2>2, <2>3
<1>2. CASE ReadLoopEnds
  <2>1. link'.stdout = <<>> BY <1>2 DEF ReadLoopEnds, Typed, Links
  <2>2. ~In(link.stdout, r, "request")' /\ Once(link.stdout, r, "request")'
    BY <2>1 DEF In, Once
  <2>3. UNCHANGED <<served, api>> BY <1>2 DEF ReadLoopEnds, peer
  <2> QED BY <1>0, <2>2, <2>3
<1>3. ASSUME NEW f \in Frame, Write(f), f # frame(r, "request"), UNCHANGED served
      PROVE  /\ api'[r] = "idle" => served'[r] = "none" /\ ~In(link.stdout, r, "request")'
             /\ In(link.stdout, r, "request")' => served'[r] = "none"
             /\ Once(link.stdout, r, "request")'
  BY <1>0, <1>3, Write_other, Asking
<1>4. CASE Replies
  <2>1. PICK k \in {"headers", "message", "error", "end", "no_body"} : Write(frame("g1", k)) /\ UNCHANGED served
    BY <1>4 DEF Replies, Reply, serving
  <2>2. frame("g1", k) \in Frame /\ frame("g1", k) # frame(r, "request")
    BY Frames, ProcessAssumption DEF Kind, frame
  <2> QED BY <1>3, <2>1, <2>2
<1>5. ASSUME NEW q \in Request, Unary(q), q # r
      PROVE  \E f \in Frame : Write(f) /\ f # frame(r, "request") /\ UNCHANGED served
  <2>1. frame(q, "request") \in Frame BY Frames DEF Kind
  <2>2. frame(q, "request") # frame(r, "request") BY <1>5 DEF frame
  <2> QED BY <1>5, <2>1, <2>2 DEF Unary, serving
<1>6. ASSUME NEW q \in Request, Withdraw(q)
      PROVE  \E f \in Frame : Write(f) /\ f # frame(r, "request") /\ UNCHANGED served
  <2>1. frame(q, "cancel") \in Frame BY Frames DEF Kind
  <2>2. frame(q, "cancel") # frame(r, "request") BY DEF frame
  <2> QED BY <1>6, <2>1, <2>2 DEF Withdraw, serving
<1>7. CASE Unary(r)
  <2>1. /\ api[r] = "idle" /\ api'[r] = "waiting" /\ served' = served
        /\ Write(frame(r, "request")) /\ frame(r, "request") \in Frame
    BY <1>7, Frames DEF Unary, serving, Typed, Kind
  <2>2. link.stdout \in Seq(Frame) /\ link'.stdout = Append(link.stdout, frame(r, "request"))
    BY <2>1, Wrote_type DEF Typed, Links
  <2>3. Once(link.stdout, r, "request")' BY <1>0, <2>1, <2>2, Append_in
  <2> QED BY <1>0, <2>1, <2>3
<1>8. CASE ~ReadFrame /\ ~ReadLoopEnds /\ ~Replies /\ ~\E q \in Request : Unary(q) \/ Withdraw(q)
  <2>1. link'.stdout = link.stdout BY <1>8, Output
  <2>2. served[r] = "none" => served'[r] = "none" BY <1>8, Serving
  <2> QED BY <1>0, <2>1, <2>2, Asking DEF In, Once
<1> QED BY <1>1, <1>2, <1>3, <1>4, <1>5, <1>6, <1>7, <1>8

-----------------------------------------------------------------------------
(* The goroutines of the transport *)

\* Transport.workers is the number of goroutines, those of a request are started with
\* the call, a request that can be canceled is served, and Wait returns after all.
Goroutines ==
  /\ workers = Cardinality(Busy) + Alive(pc.send) + Alive(pc.receive) + Alive(pc.read)
               + (IF pc.do = "open" THEN 2 ELSE 0)
  /\ pc.do \in {"new", "open"} => pc.send = "off" /\ pc.receive = "off"
  /\ incoming \subseteq Busy
  /\ pc.job # "call" => Over
  /\ pc.job = "returned" => workers = 0
  /\ pc.receive = "off" /\ pc.do # "open" => ~call.listed

\* Requests are finitely many, and so are those that are served.
LEMMA Busy_finite ==
  /\ IsFiniteSet(Busy) /\ Cardinality(Busy) \in Nat
  /\ \A r \in Request \ Busy : Cardinality(Busy \cup {r}) = Cardinality(Busy) + 1
  /\ \A r \in Busy : Cardinality(Busy \ {r}) = Cardinality(Busy) - 1
  /\ Cardinality(Busy) = 0 => Busy = {}
<1>1. IsFiniteSet(Busy)
  <2>1. Busy \subseteq Request BY DEF Busy
  <2> QED BY <2>1, FS_Subset, ProcessAssumption
<1> QED BY <1>1, FS_CardinalityType, FS_AddElement, FS_RemoveElement, FS_EmptySet

\* A request is served by one goroutine more, which is one less when it leaves.
LEMMA Busy_step ==
  ASSUME Typed, NEW r \in Request
  PROVE  /\ served' = served => Busy' = Busy
         /\ served' = [served EXCEPT ![r] = "handler"] => Busy' = Busy \cup {r}
         /\ served[r] = "exit" /\ served' = [served EXCEPT ![r] = "gone"] => Busy' = Busy \ {r} /\ r \in Busy
         /\ Handled(r) \/ (Answer(r) /\ served' = [served EXCEPT ![r] = "exit"]) => Busy' = Busy
BY DEF Typed, Busy, Handled, Answer, SendFails

\* Where a goroutine stands counts for nothing, whether it is there does.
LEMMA Standing == \A p : Alive(p) \in Nat /\ (p # "off" => Alive(p) = 1) /\ Alive("off") = 0
BY DEF Alive

\* The counter is what it counts.
LEMMA Counting ==
  ASSUME Goroutines
  PROVE  /\ workers \in Nat
         /\ pc.read # "off" => workers > 0
         /\ workers = 0 => Busy = {} /\ pc.receive = "off" /\ pc.read = "off" /\ pc.do # "open"
<1> DEFINE N == Cardinality(Busy)
           starting == IF pc.do = "open" THEN 2 ELSE 0
<1>1. N \in Nat /\ (N = 0 => Busy = {}) BY Busy_finite
<1>2. starting \in {0, 2} /\ (starting = 0 => pc.do # "open") OBVIOUS
<1>3. /\ Alive(pc.send) \in {0, 1}
      /\ Alive(pc.receive) \in {0, 1} /\ (Alive(pc.receive) = 0 => pc.receive = "off")
      /\ Alive(pc.read) \in {0, 1} /\ (Alive(pc.read) = 0 => pc.read = "off")
  BY DEF Alive
<1>4. workers = N + Alive(pc.send) + Alive(pc.receive) + Alive(pc.read) + starting
  BY DEF Goroutines
<1> HIDE DEF N, starting
<1> QED BY <1>1, <1>2, <1>3, <1>4

LEMMA Do_counts ==
  ASSUME Typed, Goroutines, Register \/ Open \/ Respond \/ GiveUp \/ ReadBody \/ ReadEnd
  PROVE  Goroutines'
<1> DEFINE N == Cardinality(Busy)
<1>0. N \in Nat /\ N' = N /\ Busy' = Busy
  BY Busy_finite DEF Busy, Register, Open, Respond, GiveUp, ReadBody, ReadEnd, serving
<1> HIDE DEF N
<1>a. /\ workers = N + Alive(pc.send) + Alive(pc.receive) + Alive(pc.read)
                   + (IF pc.do = "open" THEN 2 ELSE 0)
      /\ incoming' \subseteq Busy'
  BY <1>0 DEF Goroutines, N, Register, Open, Respond, GiveUp, ReadBody, ReadEnd, serving
<1>b. pc \in Counters /\ call \in Calls BY DEF Typed
<1>c. /\ workers' = N + Alive(pc'.send) + Alive(pc'.receive) + Alive(pc'.read)
                      + (IF pc'.do = "open" THEN 2 ELSE 0)
      /\ UNCHANGED <<pc.job, pc.read>>
      /\ pc'.do \in {"new", "open"} => pc'.send = "off" /\ pc'.receive = "off"
      /\ pc.do \notin {"ok", "error", "canceled"}
      /\ pc'.receive = "off" /\ pc'.do # "open" => ~call'.listed
  <2>1. CASE Register
    <3>1. /\ pc.do = "new" /\ pc.send = "off" /\ pc.receive = "off" /\ workers = N + Alive(pc.read)
      BY <1>0, <1>a, <2>1, Standing DEF Register, Goroutines
    <3>2. /\ UNCHANGED <<pc.job, pc.send, pc.receive, pc.read>>
          /\ \/ pc'.do = "error" /\ call' = call /\ workers' = workers
             \/ pc'.do = "open" /\ workers' = workers + 2
      BY <1>b, <2>1 DEF Register, Counters
    <3> QED BY <1>0, <3>1, <3>2, Standing DEF Goroutines
  <2>2. CASE Open
    <3>1. /\ pc.do = "open" /\ pc.send = "off" /\ pc.receive = "off"
          /\ workers = N + Alive(pc.read) + 2
      BY <1>0, <1>a, <2>2, Standing DEF Open, Goroutines
    <3>2. /\ UNCHANGED <<pc.job, pc.read>>
          /\ \/ /\ UNCHANGED <<pc.send, pc.receive>> /\ pc'.do = "error"
                /\ ~call'.listed /\ workers' = workers - 2
             \/ /\ pc'.do = "select" /\ pc'.receive = "pop" /\ pc'.send = "message"
                /\ workers' = workers
      BY <1>b, <2>2 DEF Open, Counters, Calls, Removed
    <3> QED BY <1>0, <3>1, <3>2, Standing
  <2>3. CASE Respond
    BY <1>a, <1>b, <2>3, Standing DEF Respond, Goroutines, Counters, Calls
  <2>4. CASE GiveUp
    BY <1>a, <1>b, <2>4, Standing DEF GiveUp, Goroutines, Counters, Calls, Removed
  <2>5. CASE ReadBody
    BY <1>a, <1>b, <2>5, Standing DEF ReadBody, Goroutines, Counters, Calls
  <2>6. CASE ReadEnd
    BY <1>a, <1>b, <2>6, Standing DEF ReadEnd, Goroutines, Counters, Calls
  <2> QED BY <2>1, <2>2, <2>3, <2>4, <2>5, <2>6
<1> QED BY <1>0, <1>a, <1>c DEF Goroutines, Over, N

LEMMA Receive_counts ==
  ASSUME Typed, Goroutines, SendRequest \/ Pop \/ Notified \/ ContextDone \/ Disconnected \/ Exit
  PROVE  Goroutines'
<1> DEFINE N == Cardinality(Busy)
<1>0. N \in Nat /\ N' = N /\ Busy' = Busy
  BY Busy_finite DEF Busy, SendRequest, Pop, Notified, ContextDone, Disconnected, Exit, serving,
     SendFails
<1> HIDE DEF N
<1>a. /\ workers = N + Alive(pc.send) + Alive(pc.receive) + Alive(pc.read)
                   + (IF pc.do = "open" THEN 2 ELSE 0)
      /\ incoming' \subseteq Busy'
  BY <1>0 DEF Goroutines, N, SendRequest, Pop, Notified, ContextDone, Disconnected, Exit, serving,
     SendFails
<1>b. pc \in Counters /\ call \in Calls BY DEF Typed
<1>c. /\ workers' = N + Alive(pc'.send) + Alive(pc'.receive) + Alive(pc'.read)
                      + (IF pc'.do = "open" THEN 2 ELSE 0)
      /\ UNCHANGED <<pc.job, pc.read, pc.do>>
      /\ pc'.do \in {"new", "open"} => pc'.send = "off" /\ pc'.receive = "off"
      /\ pc'.receive = "off" /\ pc'.do # "open" => ~call'.listed
      /\ workers' <= workers
  <2>1. CASE SendRequest
    <3>1. /\ pc.send # "off" /\ UNCHANGED <<pc.job, pc.read, pc.do, pc.receive>>
          /\ \/ pc'.send = "half_close" /\ workers' = workers
             \/ pc'.send = "off" /\ workers' = workers - 1
          /\ call'.listed = call.listed
      BY <1>b, <2>1 DEF SendRequest, Counters, Calls, Failed, SendFails
    <3> QED BY <1>0, <1>a, <3>1, Standing, Counting DEF Goroutines
  <2>2. CASE Pop
    <3>1. /\ pc.receive = "pop" /\ pc'.receive # "off" /\ workers' = workers
          /\ UNCHANGED <<pc.job, pc.read, pc.do, pc.send>>
      BY <1>b, <2>2 DEF Pop, Counters
    <3> QED BY <1>0, <1>a, <3>1, Standing, Counting DEF Goroutines
  <2>3. CASE Notified
    <3>1. /\ pc.receive = "select" /\ pc'.receive # "off" /\ workers' = workers
          /\ UNCHANGED <<pc.job, pc.read, pc.do, pc.send>>
      BY <1>b, <2>3 DEF Notified, Counters
    <3> QED BY <1>0, <1>a, <3>1, Standing, Counting DEF Goroutines
  <2>4. CASE ContextDone
    BY <1>0, <1>a, <1>b, <2>4, Standing DEF ContextDone, Goroutines, Counters, Calls
  <2>5. CASE Disconnected
    BY <1>0, <1>a, <1>b, <2>5, Standing DEF Disconnected, Goroutines, Counters, Calls
  <2>6. CASE Exit
    BY <1>0, <1>a, <1>b, <2>6, Standing DEF Exit, Goroutines, Counters, Calls, Removed
  <2> QED BY <2>1, <2>2, <2>3, <2>4, <2>5, <2>6
<1>d. workers' \in Nat BY <1>0, <1>c, Standing
<1> QED BY <1>0, <1>a, <1>c, <1>d DEF Goroutines, Over, N

LEMMA Read_counts ==
  ASSUME Typed, Asked, Goroutines, ReadFrame \/ ReadLoopEnds PROVE Goroutines'
<1>0. pc \in Counters /\ call \in Calls BY DEF Typed
<1>n. Cardinality(Busy) \in Nat BY Busy_finite
<1>1. ASSUME ReadLoopEnds PROVE Goroutines'
  <2>1. Busy' = Busy BY <1>1 DEF Busy, ReadLoopEnds
  <2>2. /\ pc' = [pc EXCEPT !.read = "off"] /\ pc.read = "scan" /\ workers' = workers - 1
        /\ incoming' = incoming /\ call'.listed = call.listed
    BY <1>0, <1>1 DEF ReadLoopEnds, Failed, Calls
  <2>3. /\ UNCHANGED <<pc.job, pc.do, pc.send, pc.receive>> /\ pc'.read = "off"
    BY <1>0, <2>2 DEF Counters
  <2>4. pc.job # "returned"
    BY <2>2, Counting DEF Goroutines
  <2> QED BY <1>n, <2>1, <2>2, <2>3, <2>4, Standing DEF Goroutines, Over
<1>2. ASSUME ReadFrame PROVE Goroutines'
  <2> DEFINE f == Head(link.stdout)
  <2>1. f \in Frame /\ pc.read = "scan" /\ pc' = pc BY <1>2, Piped DEF ReadFrame
  <2>2. IF f.id = "g1" THEN Push(f.kind) ELSE HandleIncomingFrame(f) BY <1>2 DEF ReadFrame
  <2>3. f.kind = "request" => served[f.id] = "none" \/ f.id = "g1"
    <3>1. CASE f.kind = "request" /\ f.id # "g1"
      <4>1. f = frame(f.id, "request") /\ f.id \in Request BY <2>1, <3>1 DEF Frame, frame
      <4>2. In(link.stdout, f.id, "request") BY <1>2, <4>1, Read_rest
      <4> QED BY <4>1, <4>2 DEF Asked
    <3> QED BY <3>1
  <2>4. pc.job # "returned"
    BY <2>1, Counting DEF Goroutines
  <2> HIDE DEF f
  <2>5. call'.listed = call.listed
    BY <1>0, <2>1, <2>2 DEF Push, HandleIncomingFrame, Requested, Withdrawn, Calls
  <2>6. CASE UNCHANGED <<served, workers>> /\ incoming' \subseteq incoming
    <3>1. Busy' = Busy BY <2>6 DEF Busy
    <3> QED BY <2>1, <2>4, <2>5, <2>6, <3>1 DEF Goroutines, Over
  <2>7. CASE f.id \in Request /\ Requested(f.id) /\ f.kind = "request" /\ f.id # "g1"
    <3>1. f.id \notin Busy BY <2>3, <2>7 DEF Busy
    <3>2. Busy' = Busy \cup {f.id} BY <2>7, Busy_step DEF Requested
    <3>3. Cardinality(Busy') = Cardinality(Busy) + 1 BY <2>7, <3>1, <3>2, Busy_finite
    <3>4. incoming' = incoming \cup {f.id} /\ workers' = workers + 1 BY <2>7 DEF Requested
    <3>5. /\ workers' = Cardinality(Busy') + Alive(pc.send) + Alive(pc.receive) + Alive(pc.read)
                        + (IF pc.do = "open" THEN 2 ELSE 0)
          /\ incoming' \subseteq Busy'
      <4> DEFINE starting == IF pc.do = "open" THEN 2 ELSE 0
      <4>1. starting \in Nat OBVIOUS
      <4>2. workers = Cardinality(Busy) + Alive(pc.send) + Alive(pc.receive) + Alive(pc.read) + starting
        BY DEF Goroutines
      <4> HIDE DEF starting
      <4>3. workers' = Cardinality(Busy') + Alive(pc.send) + Alive(pc.receive) + Alive(pc.read) + starting
        BY <1>n, <3>3, <3>4, <4>1, <4>2, Standing
      <4> QED BY <3>2, <3>4, <4>3 DEF starting, Goroutines
    <3> QED BY <2>1, <2>4, <2>5, <3>5 DEF Goroutines, Over
  <2> QED BY <2>1, <2>2, <2>6, <2>7, Frames DEF Push, HandleIncomingFrame, Withdrawn, serving
<1> QED BY <1>1, <1>2

LEMMA Serve_counts ==
  ASSUME Typed, Goroutines, NEW r \in Request, Handled(r) \/ Answer(r) \/ Leave(r)
  PROVE  Goroutines'
<1>0. pc \in Counters /\ call \in Calls /\ pc' = pc
  BY DEF Typed, Handled, Answer, Leave, SendFails
<1>n. Cardinality(Busy) \in Nat BY Busy_finite
<1>1. CASE Handled(r)
  <2>1. Busy' = Busy BY <1>1, Busy_step
  <2>2. UNCHANGED <<incoming, workers, call>> BY <1>1 DEF Handled
  <2> QED BY <1>0, <2>1, <2>2 DEF Goroutines, Over
<1>2. CASE Answer(r)
  <2>1. Busy' = Busy BY <1>2, Busy_step DEF Answer, SendFails
  <2>2. UNCHANGED <<incoming, workers>> /\ call'.listed = call.listed
    BY <1>0, <1>2 DEF Answer, Failed, Calls, SendFails
  <2> QED BY <1>0, <2>1, <2>2 DEF Goroutines, Over
<1>3. CASE Leave(r)
  <2>1. Busy' = Busy \ {r} /\ r \in Busy BY <1>3, Busy_step DEF Leave
  <2>2. Cardinality(Busy') = Cardinality(Busy) - 1 /\ Cardinality(Busy) > 0
    BY <1>n, <2>1, Busy_finite, FS_EmptySet
  <2>3. UNCHANGED call /\ incoming' = incoming \ {r} /\ workers' = workers - 1
    BY <1>3 DEF Leave
  <2>4. pc.job # "returned" BY <2>1, Counting DEF Goroutines
  <2> QED BY <1>0, <1>n, <2>1, <2>2, <2>3, <2>4, Standing DEF Goroutines, Over
<1> QED BY <1>1, <1>2, <1>3

LEMMA Job_counts == ASSUME Typed, Goroutines, Job PROVE Goroutines'
<1>0. pc \in Counters /\ call \in Calls BY DEF Typed
<1>1. /\ Busy' = Busy /\ UNCHANGED <<incoming, workers>> /\ call'.listed = call.listed
  BY <1>0 DEF Busy, Job, CloseWrite, Reap, Shutdown, Join, serving, CloseResponses, Failed, Calls
<1>2. /\ UNCHANGED <<pc.do, pc.send, pc.receive, pc.read>>
      /\ pc'.job = "returned" => workers = 0
      /\ pc.job = "call" => Over
  BY <1>0 DEF Job, CloseWrite, Reap, Shutdown, Join, Counters
<1> QED BY <1>1, <1>2 DEF Goroutines, Over

LEMMA Counts_step == ASSUME Typed, Asked, Goroutines, [Next]_vars PROVE Goroutines'
<1>1. CASE Transport
  BY <1>1, Do_counts, Receive_counts, Read_counts, Serve_counts DEF Transport
<1>2. CASE Job BY <1>2, Job_counts
<1>3. CASE \E r \in Request : Handled(r) BY <1>3, Serve_counts
<1>4. CASE Cancel \/ Dispatch \/ Replies \/ HostExits \/ Die \/ Killed \/ UNCHANGED vars
           \/ \E r \in Request : Unary(r) \/ Withdraw(r)
  <2>1. UNCHANGED <<call, pc, served, incoming, workers>>
    BY <1>4 DEF Cancel, Dispatch, Replies, Reply, HostExits, Die, Killed, Unary, Withdraw, serving, vars
  <2> QED BY <2>1 DEF Goroutines, Over, Busy
<1> QED BY <1>1, <1>2, <1>3, <1>4 DEF Next

LEMMA Counted == Spec => [](Typed /\ Asked /\ Goroutines)
<1>1. Init => Typed /\ Asked /\ Goroutines
  <2> SUFFICES ASSUME Init PROVE Asked /\ Goroutines BY Init_type
  <2>1. Busy = {} BY DEF Init, Busy
  <2>2. Asked BY DEF Init, Asked, In, Once
  <2> QED BY <2>1, <2>2, FS_EmptySet DEF Init, Goroutines, Alive
<1> QED BY <1>1, Next_type, Asked_step, Counts_step, PTL DEF Spec

\* When Wait returns, every goroutine of the transport is gone and no call of the API is
\* under way, and Transport.workers is their number at any time (Do, handleIncomingFrame,
\* Shutdown): for any number of calls, and wherever the process dies.
THEOREM NoneOutlives == Spec => []NothingOutlives
<1>1. Typed /\ Goroutines => NothingOutlives
  <2> SUFFICES ASSUME Typed, Goroutines PROVE NothingOutlives OBVIOUS
  <2>1. ASSUME pc.job = "returned" PROVE Busy = {} /\ incoming = {} /\ ~call.listed
    <3>1. Busy = {} /\ pc.receive = "off" /\ pc.do # "open"
      BY <2>1, Counting DEF Goroutines
    <3> QED BY <3>1 DEF Goroutines
  <2> QED BY <2>1 DEF NothingOutlives, Goroutines
<1> QED BY <1>1, Counted, PTL

\* Every variable of the transport keeps its type; the counter is never negative.
THEOREM ProcessTypes == Spec => []TypeOK
<1>1. Typed /\ Goroutines => TypeOK
  <2> SUFFICES ASSUME Typed, Goroutines PROVE TypeOK OBVIOUS
  <2>1. workers \in Nat BY Counting
  <2> QED BY <2>1 DEF Typed, TypeOK, Calls, Counters, Links, Hosts
<1> QED BY <1>1, Counted, PTL

-----------------------------------------------------------------------------
(* The task's answer on its way: headers, then a message or an error, then *)
(* the end, or the end at once when the message was too large. Each stage  *)
(* has a rank, and what is read, queued, in the pipe and still to be       *)
(* written follow each other without a gap.                                *)

Rank(k) == IF k = "headers" THEN 1 ELSE IF k \in {"message", "error", "no_body"} THEN 2
           ELSE IF k = "end" THEN 3 ELSE 0

Said == {"headers", "message", "error", "end", "no_body"}

\* The frame at n is one of the answer.
Own(s, n) == s[n].id = "g1"

\* The answer's frames in the pipe s go on after the stage m, in their order.
Script(s, m) ==
  /\ \A n \in 1..Len(s) : Own(s, n) =>
       /\ Rank(s[n].kind) > m
       /\ Rank(s[n].kind) = m + 1
          \/ \E l \in 1..Len(s) : l < n /\ Own(s, l) /\ Rank(s[l].kind) + 1 = Rank(s[n].kind)
  /\ \A l, n \in 1..Len(s) : Own(s, l) /\ Own(s, n) /\ l < n => Rank(s[l].kind) < Rank(s[n].kind)

\* After them the stage h is reached.
Reached(s, m, h) ==
  /\ m <= h
  /\ h = m \/ \E n \in 1..Len(s) : Own(s, n) /\ Rank(s[n].kind) = h
  /\ \A n \in 1..Len(s) : Own(s, n) => Rank(s[n].kind) <= h

LEMMA Ranked == \A k : Rank(k) \in 0..3
BY DEF Rank

\* A frame of another call is read.
LEMMA Script_other ==
  ASSUME NEW s \in Seq(Frame), s # <<>>, NEW m \in Nat, Head(s).id # "g1", Script(s, m)
  PROVE  Script(Tail(s), m) /\ \A h \in Nat : Reached(s, m, h) => Reached(Tail(s), m, h)
<1> DEFINE t == Tail(s)
<1>1. /\ Len(s) \in Nat \ {0} /\ Len(t) = Len(s) - 1 /\ ~Own(s, 1)
      /\ \A n \in 1..Len(t) : t[n] = s[n + 1] /\ n + 1 \in 1..Len(s)
  BY Shifted DEF Own
<1>2. \A n \in 1..Len(s) : Own(s, n) => n - 1 \in 1..Len(t) /\ t[n - 1] = s[n] /\ Own(t, n - 1)
  <2> SUFFICES ASSUME NEW n \in 1..Len(s), Own(s, n)
               PROVE  n - 1 \in 1..Len(t) /\ t[n - 1] = s[n] /\ Own(t, n - 1)
    OBVIOUS
  <2>1. n # 1 /\ n - 1 \in 1..Len(t) /\ n - 1 + 1 = n BY <1>1
  <2> QED BY <1>1, <2>1 DEF Own
<1>3. \A n \in 1..Len(t) : Own(t, n) => Own(s, n + 1) BY <1>1 DEF Own
<1> HIDE DEF t
<1>4. Script(t, m)
  <2>1. ASSUME NEW n \in 1..Len(t), Own(t, n)
        PROVE  /\ Rank(t[n].kind) > m
               /\ Rank(t[n].kind) = m + 1
                  \/ \E l \in 1..Len(t) : l < n /\ Own(t, l) /\ Rank(t[l].kind) + 1 = Rank(t[n].kind)
    <3>1. n + 1 \in 1..Len(s) /\ Own(s, n + 1) /\ t[n] = s[n + 1] BY <1>1, <1>3, <2>1
    <3>2. CASE Rank(t[n].kind) = m + 1 BY <3>1, <3>2 DEF Script
    <3>3. ASSUME NEW l \in 1..Len(s), l < n + 1, Own(s, l), Rank(s[l].kind) + 1 = Rank(s[n + 1].kind)
          PROVE  \E j \in 1..Len(t) : j < n /\ Own(t, j) /\ Rank(t[j].kind) + 1 = Rank(t[n].kind)
      <4>1. l - 1 \in 1..Len(t) /\ t[l - 1] = s[l] /\ Own(t, l - 1) /\ l - 1 < n BY <1>2, <3>3
      <4> QED BY <3>1, <3>3, <4>1
    <3> QED BY <3>1, <3>2, <3>3 DEF Script
  <2>2. ASSUME NEW l \in 1..Len(t), NEW n \in 1..Len(t), Own(t, l), Own(t, n), l < n
        PROVE  Rank(t[l].kind) < Rank(t[n].kind)
    <3>1. l + 1 < n + 1 BY <2>2
    <3> QED BY <1>1, <1>3, <2>2, <3>1 DEF Script
  <2> QED BY <2>1, <2>2 DEF Script
<1>5. ASSUME NEW h \in Nat, Reached(s, m, h) PROVE Reached(t, m, h)
  BY <1>1, <1>2, <1>3, <1>5 DEF Reached
<1> QED BY <1>4, <1>5 DEF t

\* The next frame of the answer is read: it is the next stage.
LEMMA Script_own ==
  ASSUME NEW s \in Seq(Frame), s # <<>>, NEW m \in Nat, Head(s).id = "g1", Script(s, m)
  PROVE  /\ Rank(Head(s).kind) = m + 1 /\ Script(Tail(s), m + 1)
         /\ \A h \in Nat : Reached(s, m, h) => Reached(Tail(s), m + 1, h)
<1> DEFINE t == Tail(s)
<1>1. /\ Len(s) \in Nat \ {0} /\ Len(t) = Len(s) - 1 /\ 1 \in 1..Len(s) /\ Own(s, 1) /\ Head(s) = s[1]
      /\ \A n \in 1..Len(t) : t[n] = s[n + 1] /\ n + 1 \in 1..Len(s)
  BY Shifted DEF Own
<1>2. \A n \in 1..Len(s) : Own(s, n) /\ n # 1 => n - 1 \in 1..Len(t) /\ t[n - 1] = s[n] /\ Own(t, n - 1)
  <2> SUFFICES ASSUME NEW n \in 1..Len(s), Own(s, n), n # 1
               PROVE  n - 1 \in 1..Len(t) /\ t[n - 1] = s[n] /\ Own(t, n - 1)
    OBVIOUS
  <2>1. n - 1 \in 1..Len(t) /\ n - 1 + 1 = n BY <1>1
  <2> QED BY <1>1, <2>1 DEF Own
<1>3. \A n \in 1..Len(t) : Own(t, n) => Own(s, n + 1) BY <1>1 DEF Own
<1> HIDE DEF t
<1>4. Rank(s[1].kind) = m + 1
  <2>1. ~\E l \in 1..Len(s) : l < 1 OBVIOUS
  <2> QED BY <1>1, <2>1 DEF Script
<1>5. \A n \in 1..Len(t) : Own(t, n) => Rank(t[n].kind) > m + 1
  <2> SUFFICES ASSUME NEW n \in 1..Len(t), Own(t, n) PROVE Rank(t[n].kind) > m + 1
    OBVIOUS
  <2>1. Own(s, n + 1) /\ 1 < n + 1 /\ n + 1 \in 1..Len(s) /\ t[n] = s[n + 1] BY <1>1, <1>3
  <2>2. Rank(s[1].kind) < Rank(s[n + 1].kind) BY <1>1, <2>1 DEF Script
  <2> QED BY <1>4, <2>1, <2>2
<1>6. Script(t, m + 1)
  <2>1. ASSUME NEW n \in 1..Len(t), Own(t, n)
        PROVE  Rank(t[n].kind) = m + 1 + 1
               \/ \E l \in 1..Len(t) : l < n /\ Own(t, l) /\ Rank(t[l].kind) + 1 = Rank(t[n].kind)
    <3>1. n + 1 \in 1..Len(s) /\ Own(s, n + 1) /\ t[n] = s[n + 1] BY <1>1, <1>3, <2>1
    <3>2. Rank(s[n + 1].kind) # m + 1 BY <1>5, <2>1, <3>1, Ranked
    <3>3. PICK l \in 1..Len(s) : l < n + 1 /\ Own(s, l) /\ Rank(s[l].kind) + 1 = Rank(s[n + 1].kind)
      BY <3>1, <3>2 DEF Script
    <3>4. CASE l = 1 BY <1>4, <3>1, <3>3, <3>4
    <3>5. CASE l # 1
      <4>1. l - 1 \in 1..Len(t) /\ t[l - 1] = s[l] /\ Own(t, l - 1) /\ l - 1 < n BY <1>2, <3>3, <3>5
      <4> QED BY <3>1, <3>3, <4>1
    <3> QED BY <3>4, <3>5
  <2>2. ASSUME NEW l \in 1..Len(t), NEW n \in 1..Len(t), Own(t, l), Own(t, n), l < n
        PROVE  Rank(t[l].kind) < Rank(t[n].kind)
    <3>1. l + 1 < n + 1 BY <2>2
    <3> QED BY <1>1, <1>3, <2>2, <3>1 DEF Script
  <2> QED BY <1>5, <2>1, <2>2 DEF Script
<1>7. ASSUME NEW h \in Nat, Reached(s, m, h) PROVE Reached(t, m + 1, h)
  <2>1. m + 1 <= h BY <1>1, <1>4, <1>7 DEF Reached
  <2>2. \A n \in 1..Len(t) : Own(t, n) => Rank(t[n].kind) <= h BY <1>1, <1>3, <1>7 DEF Reached
  <2>3. PICK n \in 1..Len(s) : Own(s, n) /\ Rank(s[n].kind) = h BY <1>7, <2>1 DEF Reached
  <2>4. CASE n = 1 BY <1>4, <2>1, <2>2, <2>3, <2>4 DEF Reached
  <2>5. CASE n # 1 BY <1>2, <2>1, <2>2, <2>3, <2>5 DEF Reached
  <2> QED BY <2>4, <2>5
<1> QED BY <1>1, <1>4, <1>6, <1>7 DEF t

\* A frame of another call is written.
LEMMA Script_write_other ==
  ASSUME NEW s \in Seq(Frame), NEW f \in Frame, f.id # "g1", NEW m \in Nat, Script(s, m)
  PROVE  Script(Append(s, f), m) /\ \A h \in Nat : Reached(s, m, h) => Reached(Append(s, f), m, h)
<1> DEFINE t == Append(s, f)
<1>1. /\ Len(s) \in Nat /\ Len(t) = Len(s) + 1 /\ t[Len(s) + 1] = f
      /\ \A n \in 1..Len(s) : t[n] = s[n]
  BY Appended
<1> HIDE DEF t
<1>2. /\ \A n \in 1..Len(t) : Own(t, n) => n \in 1..Len(s) /\ Own(s, n) /\ t[n] = s[n]
      /\ \A n \in 1..Len(s) : n \in 1..Len(t) /\ (Own(s, n) => Own(t, n))
  BY <1>1 DEF Own
<1>3. Script(t, m)
  <2>1. ASSUME NEW n \in 1..Len(t), Own(t, n)
        PROVE  /\ Rank(t[n].kind) > m
               /\ Rank(t[n].kind) = m + 1
                  \/ \E l \in 1..Len(t) : l < n /\ Own(t, l) /\ Rank(t[l].kind) + 1 = Rank(t[n].kind)
    <3>1. n \in 1..Len(s) /\ Own(s, n) /\ t[n] = s[n] BY <1>2, <2>1
    <3>2. ASSUME NEW l \in 1..Len(s), l < n, Own(s, l), Rank(s[l].kind) + 1 = Rank(s[n].kind)
          PROVE  \E j \in 1..Len(t) : j < n /\ Own(t, j) /\ Rank(t[j].kind) + 1 = Rank(t[n].kind)
      BY <1>1, <1>2, <3>1, <3>2
    <3> QED BY <3>1, <3>2 DEF Script
  <2>2. \A l, n \in 1..Len(t) : Own(t, l) /\ Own(t, n) /\ l < n => Rank(t[l].kind) < Rank(t[n].kind)
    BY <1>2 DEF Script
  <2> QED BY <2>1, <2>2 DEF Script
<1>4. ASSUME NEW h \in Nat, Reached(s, m, h) PROVE Reached(t, m, h)
  BY <1>1, <1>2, <1>4 DEF Reached
<1> QED BY <1>3, <1>4 DEF t

\* The next stage of the answer is written.
LEMMA Script_write ==
  ASSUME NEW s \in Seq(Frame), NEW f \in Frame, f.id = "g1", NEW m \in Nat, NEW h \in Nat,
         Script(s, m), Reached(s, m, h), Rank(f.kind) = h + 1
  PROVE  Script(Append(s, f), m) /\ Reached(Append(s, f), m, h + 1)
<1> DEFINE t == Append(s, f)
<1>1. /\ Len(s) \in Nat /\ Len(t) = Len(s) + 1 /\ t[Len(s) + 1] = f /\ Len(s) + 1 \in 1..Len(t)
      /\ \A n \in 1..Len(s) : t[n] = s[n] /\ n \in 1..Len(t) /\ (Own(s, n) => Own(t, n))
      /\ Own(t, Len(s) + 1)
  BY Appended DEF Own
<1> HIDE DEF t
<1>2. \A n \in 1..Len(t) : Own(t, n) => (n \in 1..Len(s) /\ Own(s, n)) \/ n = Len(s) + 1
  BY <1>1 DEF Own
<1>3. Script(t, m)
  <2>1. ASSUME NEW n \in 1..Len(t), Own(t, n)
        PROVE  /\ Rank(t[n].kind) > m
               /\ Rank(t[n].kind) = m + 1
                  \/ \E l \in 1..Len(t) : l < n /\ Own(t, l) /\ Rank(t[l].kind) + 1 = Rank(t[n].kind)
    <3>1. CASE n = Len(s) + 1
      <4>1. Rank(t[n].kind) = h + 1 /\ h >= m BY <1>1, <3>1 DEF Reached
      <4>2. CASE h = m BY <4>1, <4>2
      <4>3. ASSUME NEW l \in 1..Len(s), Own(s, l), Rank(s[l].kind) = h
            PROVE  \E j \in 1..Len(t) : j < n /\ Own(t, j) /\ Rank(t[j].kind) + 1 = Rank(t[n].kind)
        <5>1. l < n BY <1>1, <3>1
        <5> QED BY <1>1, <4>1, <4>3, <5>1
      <4> QED BY <4>1, <4>2, <4>3 DEF Reached
    <3>2. CASE n \in 1..Len(s) /\ Own(s, n)
      <4>1. ASSUME NEW l \in 1..Len(s), l < n, Own(s, l), Rank(s[l].kind) + 1 = Rank(s[n].kind)
            PROVE  \E j \in 1..Len(t) : j < n /\ Own(t, j) /\ Rank(t[j].kind) + 1 = Rank(t[n].kind)
        BY <1>1, <3>2, <4>1
      <4> QED BY <1>1, <3>2, <4>1 DEF Script
    <3> QED BY <1>2, <2>1, <3>1, <3>2
  <2>2. ASSUME NEW l \in 1..Len(t), NEW n \in 1..Len(t), Own(t, l), Own(t, n), l < n
        PROVE  Rank(t[l].kind) < Rank(t[n].kind)
    <3>1. l \in 1..Len(s) /\ Own(s, l) BY <1>1, <1>2, <2>2
    <3>2. Rank(t[l].kind) <= h /\ Rank(t[l].kind) \in Nat BY <1>1, <3>1, Ranked DEF Reached
    <3>3. CASE n = Len(s) + 1 BY <1>1, <3>2, <3>3
    <3>4. CASE n \in 1..Len(s) /\ Own(s, n) BY <1>1, <2>2, <3>1, <3>4 DEF Script
    <3> QED BY <1>2, <2>2, <3>3, <3>4
  <2> QED BY <2>1, <2>2 DEF Script
<1>4. Reached(t, m, h + 1)
  <2>1. \A n \in 1..Len(t) : Own(t, n) => Rank(t[n].kind) <= h + 1
    BY <1>1, <1>2, Ranked DEF Reached
  <2> QED BY <1>1, <2>1 DEF Reached
<1> QED BY <1>3, <1>4 DEF t

-----------------------------------------------------------------------------
(* What each part knows of the call *)

\* The process ended before it was told to, the attempt was canceled, or a frame for
\* the task was too large.
Dead == host.state = "died" \/ canceled \/ refused

Quiet(s) == \A n \in 1..Len(s) : ~Own(s, n)

\* Nothing has happened before the request is opened.
Fresh ==
  pc.do \in {"new", "open"} =>
    /\ host.task = "none" /\ Quiet(link.stdin) /\ Quiet(link.stdout)
    /\ ~call.started /\ call.payload = "none" /\ call.queue = <<>>
    /\ call.body = "open" /\ call.ready = "empty" /\ (pc.do = "open" => call.listed)

\* The request is opened once.
Opened ==
  /\ Once(link.stdin, "g1", "open")
  /\ In(link.stdin, "g1", "open") => host.task = "none"

\* A frame of the answer that is not handled yet.
Heard(k) == (\E n \in 1..Len(call.queue) : call.queue[n] = k) \/ In(link.stdout, "g1", k)

\* What arrives was said by the task.
Says ==
  /\ \A k : Heard(k) => k \in Said
  /\ Heard("headers") \/ call.started => host.task \notin {"none", "open", "body", "running"}
  /\ Heard("message") \/ call.payload = "message" => host.task \in {"message", "answered", "canceled"}
  /\ Heard("error") \/ call.payload = "error" => host.task \in {"error", "failed", "canceled"}
  /\ Heard("end") => host.task \in {"answered", "failed"}
  /\ Heard("no_body") => host.task = "dropped"

LEMMA Quiet_pipe ==
  ASSUME NEW s \in Seq(Frame), Quiet(s)
  PROVE  /\ \A f \in Frame : f.id # "g1" => Quiet(Append(s, f))
         /\ s # <<>> => Head(s).id # "g1" /\ Quiet(Tail(s))
         /\ ~In(s, "g1", "open")
<1>1. ASSUME NEW f \in Frame, f.id # "g1" PROVE Quiet(Append(s, f))
  <2>1. /\ Len(s) \in Nat /\ Len(Append(s, f)) = Len(s) + 1 /\ Append(s, f)[Len(s) + 1] = f
        /\ \A n \in 1..Len(s) : Append(s, f)[n] = s[n]
    BY Appended
  <2>2. \A n \in 1..Len(Append(s, f)) : n \in 1..Len(s) \/ n = Len(s) + 1 BY <2>1
  <2> QED BY <1>1, <2>1, <2>2 DEF Quiet, Own
<1>2. ASSUME s # <<>> PROVE Head(s).id # "g1" /\ Quiet(Tail(s))
  <2>1. /\ Len(s) \in Nat \ {0} /\ Head(s) = s[1] /\ 1 \in 1..Len(s)
        /\ \A n \in 1..Len(Tail(s)) : Tail(s)[n] = s[n + 1] /\ n + 1 \in 1..Len(s)
    BY <1>2, Shifted
  <2> QED BY <2>1 DEF Quiet, Own
<1>3. ~In(s, "g1", "open") BY DEF In, Quiet, Own, frame
<1> QED BY <1>1, <1>2, <1>3

\* What is sent to the process, if it is sent.
LEMMA Sent_pipe ==
  ASSUME Typed, NEW f \in Frame
  PROVE  /\ Sent(f).stdout = link.stdout /\ Sent(f).writable = link.writable
         /\ Sent(f).readable = link.readable
         /\ Sent(f).stdin = IF Writable THEN Append(link.stdin, f) ELSE link.stdin
BY DEF Typed, Links, Sent

\* An outcome is final.
LEMMA Final == ASSUME Typed, [Next]_vars, Over PROVE pc'.do = pc.do
BY DEF Typed, Counters, Over, Next, Transport, Job, Register, Open, Respond, GiveUp, ReadBody,
   ReadEnd, SendRequest, Pop, Notified, ContextDone, Disconnected, Exit, ReadFrame, ReadLoopEnds,
   Answer, Leave, Handled, CloseWrite, Reap, Shutdown, Join, Cancel, Dispatch, Replies, Reply,
   HostExits, Die, Killed, Unary, Withdraw, serving, vars, SendFails

LEMMA Not_over == ASSUME Typed, Goroutines, Job PROVE Over
BY DEF Goroutines, Job, CloseWrite, Reap, Shutdown, Join, Over

LEMMA Dead_stays == ASSUME Typed, [Next]_vars, Dead PROVE Dead'
BY DEF Typed, Hosts, Dead, Next, Transport, Job, Register, Open, Respond, GiveUp, ReadBody,
   ReadEnd, SendRequest, Pop, Notified, ContextDone, Disconnected, Exit, ReadFrame, ReadLoopEnds,
   Answer, Leave, Handled, CloseWrite, Reap, Shutdown, Join, Cancel, Dispatch, Dispatched, Replies,
   Reply, HostExits, Die, Killed, Dies, Running, Unary, Withdraw, peer, vars, SendFails, failure

\* The task answers in steps of its own; what it reads starts it or stops it.
LEMMA Task_step ==
  ASSUME Typed, Opened, [Next]_vars, ~Replies
  PROVE  \/ host'.task = host.task
         \/ host.task \in {"none", "open", "body"} /\ host'.task \in {"open", "body", "running"}
         \/ host.task \in Live /\ host'.task = "canceled"
<1>1. CASE Dispatch
  <2> DEFINE f == Head(link.stdin)
  <2>1. f \in Frame /\ host' = Dispatched(f) /\ host \in Hosts
    BY <1>1, Piped DEF Dispatch, Typed
  <2>2. f.id = "g1" /\ f.kind = "open" => host.task = "none"
    <3>1. f.id = "g1" /\ f.kind = "open" => f = frame("g1", "open") BY <2>1 DEF Frame, frame
    <3>2. link.stdin \in Seq(Frame) /\ link.stdin # <<>> BY <1>1 DEF Dispatch, Typed, Links
    <3> QED BY <3>1, <3>2, Tail_in DEF Opened
  <2> HIDE DEF f
  <2>3. \A t : [host EXCEPT !.task = t].task = t BY <2>1 DEF Hosts
  <2>4. \/ host' = host
        \/ f.id = "g1" /\ f.kind = "open" /\ host' = [host EXCEPT !.task = "open"]
        \/ host.task = "open" /\ host' = [host EXCEPT !.task = "body"]
        \/ host.task = "body" /\ host' = [host EXCEPT !.task = "running"]
        \/ host.task \in Live /\ host' = [host EXCEPT !.task = "canceled"]
    <3>1. CASE f.id # "g1" BY <2>1, <3>1 DEF Dispatched
    <3>2. CASE f.id = "g1" /\ f.kind = "open" BY <2>1, <3>2 DEF Dispatched
    <3>3. CASE f.id = "g1" /\ f.kind = "message" BY <2>1, <3>3 DEF Dispatched
    <3>4. CASE f.id = "g1" /\ f.kind = "half_close" BY <2>1, <3>4 DEF Dispatched
    <3>5. CASE f.id = "g1" /\ f.kind = "cancel" BY <2>1, <3>5 DEF Dispatched
    <3>6. CASE f.id = "g1" /\ f.kind \notin {"open", "message", "half_close", "cancel"}
      BY <2>1, <3>6 DEF Dispatched
    <3> QED BY <3>1, <3>2, <3>3, <3>4, <3>5, <3>6
  <2> QED BY <2>2, <2>3, <2>4
<1>2. CASE ~Dispatch
  <2>1. CASE ReadFrame \/ ReadLoopEnds \/ \E r \in Request : Unary(r) \/ Withdraw(r)
    BY <2>1 DEF ReadFrame, ReadLoopEnds, Unary, Withdraw, peer
  <2> QED BY <1>2, <2>1, Output
<1> QED BY <1>1, <1>2

\* What is sent to the process, the opening of the request apart.
LEMMA Input ==
  ASSUME Typed, [Next]_vars, ~Open, ~Dispatch, ~Die, ~Killed
  PROVE  \/ link'.stdin = link.stdin
         \/ \E f \in Frame : f # frame("g1", "open") /\ link'.stdin = Append(link.stdin, f)
<1>0. link \in Links BY DEF Typed
<1>1. CASE GiveUp \/ SendRequest \/ ContextDone
  <2>1. pc.send # "off" => pc.send \in {"message", "half_close"} BY DEF Typed, Counters
  <2>2. PICK k \in {"message", "half_close", "cancel"} : link' = Sent(frame("g1", k)) \/ link' = link
    BY <1>1, <2>1 DEF GiveUp, SendRequest, ContextDone, SendFails
  <2>3. frame("g1", k) \in Frame /\ frame("g1", k) # frame("g1", "open") BY Frames DEF Kind, frame
  <2> QED BY <2>2, <2>3, Sent_pipe
<1>2. ASSUME NEW r \in Request, Answer(r) PROVE \/ link'.stdin = link.stdin
                                                \/ link'.stdin = Append(link.stdin, frame(r, "response"))
  <2>1. frame(r, "response") \in Frame BY Frames DEF Kind
  <2> QED BY <1>2, <2>1, Sent_pipe DEF Answer, SendFails
<1>3. \A r \in Request : frame(r, "response") \in Frame /\ frame(r, "response") # frame("g1", "open")
  BY Frames DEF Kind, frame
<1>4. CASE ReadFrame \/ ReadLoopEnds \/ Replies \/ Job \/ \E r \in Request : Unary(r) \/ Withdraw(r)
  BY <1>0, <1>4 DEF Links, ReadFrame, ReadLoopEnds, Replies, Reply, Unary, Withdraw, Write,
     Job, CloseWrite, Reap, Shutdown, Join
<1>5. CASE Register \/ Respond \/ ReadBody \/ ReadEnd \/ Pop \/ Notified \/ Disconnected \/ Exit
           \/ Cancel \/ HostExits \/ UNCHANGED vars \/ \E r \in Request : Leave(r) \/ Handled(r)
  BY <1>5 DEF Register, Respond, ReadBody, ReadEnd, Pop, Notified, Disconnected, Exit, Cancel,
     HostExits, Leave, Handled, vars
<1> QED BY <1>1, <1>2, <1>3, <1>4, <1>5 DEF Next, Transport

LEMMA Opened_step == ASSUME Typed, Fresh, Opened, [Next]_vars PROVE Opened'
<1>0. link.stdin \in Seq(Frame) /\ host \in Hosts BY DEF Typed, Links
<1>1. CASE Open
  <2>1. host.task = "none" /\ ~In(link.stdin, "g1", "open") /\ UNCHANGED host
    BY <1>0, <1>1, Quiet_pipe DEF Fresh, Open, peer
  <2>2. frame("g1", "open") \in Frame BY Frames DEF Kind
  <2>3. link'.stdin = link.stdin \/ link'.stdin = Append(link.stdin, frame("g1", "open"))
    BY <1>1, <2>2, Sent_pipe DEF Open
  <2>4. CASE link'.stdin = link.stdin BY <2>1, <2>4 DEF Opened
  <2>5. CASE link'.stdin = Append(link.stdin, frame("g1", "open"))
    <3>1. Once(Append(link.stdin, frame("g1", "open")), "g1", "open")
      <4>1. Once(link.stdin, "g1", "open") BY DEF Opened
      <4> QED BY <1>0, <2>1, <2>2, <4>1, Append_in
    <3>2. host'.task = "none" BY <2>1
    <3> QED BY <2>5, <3>1, <3>2 DEF Opened
  <2> QED BY <2>3, <2>4, <2>5
<1>2. CASE Dispatch
  <2> DEFINE f == Head(link.stdin)
  <2>1. /\ f \in Frame /\ link.stdin # <<>> /\ link'.stdin = Tail(link.stdin)
        /\ host' = Dispatched(f)
    BY <1>0, <1>2, Piped DEF Dispatch, Typed, Links
  <2>2. Once(Tail(link.stdin), "g1", "open") BY <1>0, <2>1, Tail_in DEF Opened
  <2>3. ASSUME In(Tail(link.stdin), "g1", "open") PROVE f # frame("g1", "open") /\ host.task = "none"
    BY <1>0, <2>1, <2>3, Tail_in DEF Opened
  <2> HIDE DEF f
  <2>4. ASSUME f # frame("g1", "open"), host.task = "none" PROVE host' = host
    <3>1. f.id = "g1" => f.kind # "open" BY <2>1, <2>4 DEF Frame, frame
    <3> QED BY <2>1, <2>4, <3>1 DEF Dispatched, Live
  <2> QED BY <2>1, <2>2, <2>3, <2>4 DEF Opened
<1>3. CASE Die \/ Killed
  <2>1. link'.stdin = <<>> BY <1>3 DEF Die, Killed, Dies, Typed, Links
  <2> QED BY <2>1 DEF Opened, Once, In
<1>4. CASE ~Open /\ ~Dispatch /\ ~Die /\ ~Killed
  <2>1. Once(link'.stdin, "g1", "open") /\ (In(link'.stdin, "g1", "open") => In(link.stdin, "g1", "open"))
    <3>1. CASE link'.stdin = link.stdin BY <3>1 DEF Opened
    <3>2. ASSUME NEW f \in Frame, f # frame("g1", "open"), link'.stdin = Append(link.stdin, f)
          PROVE  /\ Once(link'.stdin, "g1", "open")
                 /\ In(link'.stdin, "g1", "open") => In(link.stdin, "g1", "open")
      BY <1>0, <3>2, Append_in DEF Opened
    <3> QED BY <1>4, <3>1, <3>2, Input
  <2>2. CASE host'.task = host.task BY <2>1, <2>2 DEF Opened
  <2>3. CASE Replies
    <3>1. host.task # "none" BY <2>3 DEF Replies, Reply
    <3> QED BY <2>1, <3>1 DEF Opened
  <2>4. ASSUME ReadFrame \/ ReadLoopEnds \/ \E r \in Request : Unary(r) \/ Withdraw(r)
        PROVE  host'.task = host.task
    BY <2>4 DEF ReadFrame, ReadLoopEnds, Unary, Withdraw, peer
  <2> QED BY <1>4, <2>2, <2>3, <2>4, Output
<1> QED BY <1>1, <1>2, <1>3, <1>4

\* Do goes forward: its call is not opened twice.
LEMMA Starts ==
  ASSUME Typed, Goroutines, [Next]_vars, pc'.do \in {"new", "open"}
  PROVE  /\ pc.do \in {"new", "open"} /\ pc.send = "off" /\ pc.receive = "off"
         /\ pc'.do = "open" /\ pc.do = "new" => Register
         /\ ~Open /\ ~Respond /\ ~GiveUp /\ ~ReadBody /\ ~ReadEnd /\ ~SendRequest /\ ~Pop
         /\ ~Notified /\ ~ContextDone /\ ~Disconnected /\ ~Exit /\ ~Job
<1>1. pc.do \in {"new", "open"} /\ (pc'.do = "open" /\ pc.do = "new" => Register)
  BY DEF Typed, Counters, Next, Transport, Job, Register, Open, Respond, GiveUp, ReadBody,
     ReadEnd, SendRequest, Pop, Notified, ContextDone, Disconnected, Exit, ReadFrame, ReadLoopEnds,
     Answer, Leave, Handled, CloseWrite, Reap, Shutdown, Join, Cancel, Dispatch, Replies, Reply,
     HostExits, Die, Killed, Unary, Withdraw, serving, vars, SendFails
<1>2. pc.send = "off" /\ pc.receive = "off" BY <1>1 DEF Goroutines
<1>3. ~Open /\ ~Respond /\ ~GiveUp /\ ~ReadBody /\ ~ReadEnd
  BY <1>1 DEF Typed, Counters, Open, Respond, GiveUp, ReadBody, ReadEnd
<1>4. ~SendRequest /\ ~Pop /\ ~Notified /\ ~ContextDone /\ ~Disconnected /\ ~Exit
  BY <1>2 DEF SendRequest, Pop, Notified, ContextDone, Disconnected, Exit, SendFails
<1>5. ~Job BY <1>1, Not_over DEF Over
<1> QED BY <1>1, <1>2, <1>3, <1>4, <1>5

LEMMA Fresh_step == ASSUME Typed, Goroutines, Fresh, [Next]_vars PROVE Fresh'
<1> SUFFICES ASSUME pc'.do \in {"new", "open"}
             PROVE  /\ host'.task = "none" /\ Quiet(link'.stdin) /\ Quiet(link'.stdout)
                    /\ ~call'.started /\ call'.payload = "none" /\ call'.queue = <<>>
                    /\ call'.body = "open" /\ call'.ready = "empty" /\ (pc'.do = "open" => call'.listed)
  BY DEF Fresh
<1>1. pc.do \in {"new", "open"} /\ pc.receive = "off" BY Starts
<1>2. /\ host.task = "none" /\ Quiet(link.stdin) /\ Quiet(link.stdout)
      /\ ~call.started /\ call.payload = "none" /\ call.queue = <<>>
      /\ call.body = "open" /\ call.ready = "empty" /\ (pc.do = "open" => call.listed)
  BY <1>1 DEF Fresh
<1>3. /\ call \in Calls /\ link \in Links /\ host \in Hosts /\ pc \in Counters
      /\ link.stdin \in Seq(Frame) /\ link.stdout \in Seq(Frame)
  BY DEF Typed, Links
<1>4. CASE Register
  BY <1>2, <1>3, <1>4 DEF Register, Calls, Counters, peer
<1>5. CASE ReadFrame
  <2> DEFINE f == Head(link.stdout)
  <2>1. f.id # "g1" /\ link.stdout # <<>> /\ Quiet(Tail(link.stdout)) /\ pc' = pc
    BY <1>2, <1>3, <1>5, Quiet_pipe DEF ReadFrame
  <2>2. UNCHANGED call BY <1>5, <2>1 DEF ReadFrame, HandleIncomingFrame, Requested, Withdrawn
  <2>3. link'.stdout = Tail(link.stdout) /\ link'.stdin = link.stdin BY <1>3, <1>5 DEF ReadFrame, Links
  <2> QED BY <1>2, <1>5, <2>1, <2>2, <2>3 DEF ReadFrame, peer
<1>6. CASE ReadLoopEnds
  <2>1. /\ link'.stdout = <<>> /\ link'.stdin = link.stdin /\ pc'.do = pc.do
        /\ UNCHANGED <<call.started, call.payload, call.queue, call.body, call.ready, call.listed>>
    BY <1>3, <1>6 DEF ReadLoopEnds, Failed, Links, Counters, Calls
  <2>2. Quiet(<<>>) BY DEF Quiet
  <2> QED BY <1>2, <1>6, <2>1, <2>2 DEF ReadLoopEnds, peer
<1>7. ASSUME NEW r \in Request, Answer(r) \/ Leave(r) \/ Handled(r)
      PROVE  /\ UNCHANGED <<pc, host>> /\ link'.stdout = link.stdout /\ Quiet(link'.stdin)
             /\ UNCHANGED <<call.started, call.payload, call.queue, call.body, call.ready, call.listed>>
  <2>1. frame(r, "response") \in Frame /\ frame(r, "response").id # "g1"
    BY Frames, ProcessAssumption DEF Kind, frame
  <2>2. CASE Answer(r)
    BY <1>2, <1>3, <2>1, <2>2, Sent_pipe, Quiet_pipe DEF Answer, Failed, Calls, peer, SendFails
  <2>3. CASE Leave(r) \/ Handled(r)
    BY <1>2, <2>3 DEF Leave, Handled, peer
  <2> QED BY <1>7, <2>2, <2>3
<1>8. CASE Dispatch
  <2> DEFINE f == Head(link.stdin)
  <2>1. f.id # "g1" /\ Quiet(Tail(link.stdin)) /\ host' = Dispatched(f)
    BY <1>2, <1>3, <1>8, Quiet_pipe DEF Dispatch
  <2> HIDE DEF f
  <2>2. host' = host BY <2>1 DEF Dispatched
  <2>3. link'.stdin = Tail(link.stdin) /\ link'.stdout = link.stdout BY <1>3, <1>8 DEF Dispatch, Links
  <2> QED BY <1>2, <1>8, <2>1, <2>2, <2>3 DEF Dispatch
<1>9. ASSUME NEW r \in Request, Unary(r) \/ Withdraw(r)
      PROVE  UNCHANGED <<pc, host, call>> /\ link'.stdin = link.stdin /\ Quiet(link'.stdout)
  <2>1. Withdraw(r) BY <1>2, <1>9 DEF Unary
  <2>2. frame(r, "cancel") \in Frame /\ frame(r, "cancel").id # "g1"
    BY Frames, ProcessAssumption DEF Kind, frame
  <2>3. link' = [link EXCEPT !.stdout = Append(link.stdout, frame(r, "cancel"))]
    BY <2>1 DEF Withdraw, Write
  <2> QED BY <1>2, <1>3, <2>1, <2>2, <2>3, Quiet_pipe DEF Withdraw, Links
<1>10. CASE Die \/ Killed
  <2>1. link'.stdin = <<>> /\ link'.stdout = link.stdout /\ host'.task = host.task
    BY <1>3, <1>10 DEF Die, Killed, Dies, Links, Hosts
  <2>2. Quiet(<<>>) BY DEF Quiet
  <2> QED BY <1>2, <1>10, <2>1, <2>2 DEF Die, Killed
<1>11. ~Replies BY <1>2 DEF Replies, Reply
<1>12. CASE Cancel \/ HostExits \/ UNCHANGED vars
  <2>1. UNCHANGED <<call, link, pc.do, host.task>>
    BY <1>3, <1>12 DEF Cancel, HostExits, Hosts, peer, vars
  <2> QED BY <1>2, <2>1
<1> QED
  BY <1>2, <1>4, <1>5, <1>6, <1>7, <1>8, <1>9, <1>10, <1>11, <1>12, Starts DEF Next, Transport

\* Frames of the answer are queued, and taken from the queue, by two actions only.
LEMMA Queue ==
  ASSUME Typed, [Next]_vars, ~Pop, ~ReadFrame
  PROVE  /\ UNCHANGED <<call.started, call.payload>>
         /\ call'.queue = call.queue \/ (Exit /\ call'.queue = <<>>)
<1>0. call \in Calls BY DEF Typed
<1>1. CASE Register \/ Open \/ GiveUp
  BY <1>0, <1>1 DEF Register, Open, GiveUp, Removed, Calls
<1>2. CASE SendRequest \/ Notified \/ ReadLoopEnds
  BY <1>0, <1>2 DEF SendRequest, Notified, ReadLoopEnds, Failed, Calls, SendFails
<1>3. CASE ContextDone \/ Disconnected \/ Shutdown
  BY <1>0, <1>3 DEF ContextDone, Disconnected, Shutdown, Broken, CloseResponses, Failed, Removed, Calls
<1>4. CASE Exit BY <1>0, <1>4 DEF Exit, Removed, Calls
<1>5. ASSUME NEW r \in Request, Answer(r) \/ Leave(r) \/ Handled(r) \/ Unary(r) \/ Withdraw(r)
      PROVE  UNCHANGED <<call.started, call.payload, call.queue>>
  BY <1>0, <1>5 DEF Answer, Leave, Handled, Unary, Withdraw, Failed, Calls, SendFails
<1>6. CASE Respond \/ ReadBody \/ ReadEnd \/ CloseWrite \/ Reap \/ Join \/ Cancel
           \/ Dispatch \/ Replies \/ HostExits \/ Die \/ Killed \/ UNCHANGED vars
  BY <1>6 DEF Respond, ReadBody, ReadEnd, CloseWrite, Reap, Join, Cancel,
     Dispatch, Replies, Reply, HostExits, Die, Killed, vars
<1> QED BY <1>1, <1>2, <1>3, <1>4, <1>5, <1>6 DEF Next, Transport, Job

\* What the worker has heard of the answer, it had heard before or the task has written.
LEMMA Heard_step ==
  ASSUME Typed, [Next]_vars, ~Replies
  PROVE  /\ \A k : Heard(k)' => Heard(k)
         /\ call'.started => call.started \/ Heard("headers")
         /\ \/ call'.payload = call.payload
            \/ call'.payload \in {"message", "error"} /\ Heard(call'.payload)
<1>0. /\ call \in Calls /\ call.queue \in Seq(Kind) /\ link.stdout \in Seq(Frame)
  BY DEF Typed, Calls, Links
<1>1. CASE Pop
  <2> DEFINE q == call.queue
  <2>1. link' = link BY <1>1 DEF Pop
  <2>2. CASE q = <<>>
    <3>1. UNCHANGED call BY <1>1, <2>2 DEF Pop
    <3> QED BY <2>1, <3>1 DEF Heard
  <2>3. CASE q # <<>>
    <3>1. /\ Len(q) \in Nat \ {0} /\ Len(Tail(q)) = Len(q) - 1 /\ Head(q) = q[1] /\ 1 \in 1..Len(q)
          /\ \A n \in 1..Len(Tail(q)) : Tail(q)[n] = q[n + 1] /\ n + 1 \in 1..Len(q)
      BY <1>0, <2>3, Shifted
    <3>2. /\ call'.queue = Tail(q)
          /\ call'.started => call.started \/ Head(q) = "headers"
          /\ \/ call'.payload = call.payload
             \/ call'.payload \in {"message", "error"} /\ call'.payload = Head(q)
      BY <1>0, <1>1, <2>3 DEF Pop, Calls
    <3> HIDE DEF q
    <3>3. Heard(Head(q)) BY <3>1 DEF Heard, q
    <3>4. \A k : Heard(k)' => Heard(k) BY <2>1, <3>1, <3>2 DEF Heard, q
    <3> QED BY <3>2, <3>3, <3>4
  <2> QED BY <2>2, <2>3
<1>2. CASE ReadFrame
  <2> DEFINE f == Head(link.stdout)
  <2>1. /\ link.stdout # <<>> /\ f \in Frame /\ link'.stdout = Tail(link.stdout)
        /\ IF f.id = "g1" THEN Push(f.kind) ELSE HandleIncomingFrame(f)
    BY <1>2, Piped DEF ReadFrame, Typed, Links
  <2>2. f.id = "g1" => f = frame("g1", f.kind) BY <2>1 DEF Frame, frame
  <2>3. f.id = "g1" => In(link.stdout, "g1", f.kind) BY <1>0, <2>1, <2>2, Tail_in
  <2>4. \A k : In(link'.stdout, "g1", k) => In(link.stdout, "g1", k) BY <1>0, <2>1, Tail_in
  <2> HIDE DEF f
  <2>5. /\ UNCHANGED <<call.started, call.payload>>
        /\ \/ call'.queue = call.queue
           \/ f.id = "g1" /\ call'.queue = Append(call.queue, f.kind)
    BY <1>0, <2>1 DEF Push, HandleIncomingFrame, Requested, Withdrawn, Calls
  <2>6. CASE call'.queue = call.queue BY <2>4, <2>5, <2>6 DEF Heard
  <2>7. CASE f.id = "g1" /\ call'.queue = Append(call.queue, f.kind)
    <3>1. /\ Len(call.queue) \in Nat /\ Len(call'.queue) = Len(call.queue) + 1
          /\ call'.queue[Len(call.queue) + 1] = f.kind
          /\ \A n \in 1..Len(call.queue) : call'.queue[n] = call.queue[n]
      BY <1>0, <2>1, <2>7, Appended, Frames
    <3>2. \A n \in 1..Len(call'.queue) : n \in 1..Len(call.queue) \/ n = Len(call.queue) + 1 BY <3>1
    <3>3. \A k : Heard(k)' => Heard(k) BY <2>3, <2>4, <2>7, <3>1, <3>2 DEF Heard
    <3> QED BY <2>5, <3>3
  <2> QED BY <2>5, <2>6, <2>7
<1>3. CASE ~Pop /\ ~ReadFrame
  <2>1. UNCHANGED <<call.started, call.payload>> BY <1>3, Queue
  <2>2. \A k, n : n \in 1..Len(call'.queue) /\ call'.queue[n] = k
                  => n \in 1..Len(call.queue) /\ call.queue[n] = k
    <3>1. CASE call'.queue = call.queue BY <3>1
    <3>2. CASE call'.queue = <<>> BY <3>2
    <3> QED BY <1>3, <3>1, <3>2, Queue
  <2>3. ASSUME NEW k, In(link'.stdout, "g1", k) PROVE In(link.stdout, "g1", k)
    <3>1. CASE ReadLoopEnds
      <4>1. link'.stdout = <<>> BY <3>1 DEF ReadLoopEnds, Typed, Links
      <4> QED BY <2>3, <4>1 DEF In
    <3>2. ASSUME NEW r \in Request, Unary(r) \/ Withdraw(r) PROVE In(link.stdout, "g1", k)
      <4>1. PICK j \in {"request", "cancel"} : Write(frame(r, j))
        BY <3>2 DEF Unary, Withdraw
      <4>2. frame(r, j) \in Frame /\ frame(r, j) # frame("g1", k)
        BY Frames, ProcessAssumption DEF Kind, frame
      <4> QED BY <2>3, <4>1, <4>2, Write_other
    <3> QED BY <1>3, <2>3, <3>1, <3>2, Output
  <2>4. \A k : Heard(k)' => Heard(k) BY <2>2, <2>3 DEF Heard
  <2> QED BY <2>1, <2>4
<1> QED BY <1>1, <1>2, <1>3

\* The task writes the next frame of its answer.
LEMMA Reply_step ==
  ASSUME Typed, NEW from, NEW k \in Said, NEW to, Reply(from, k, to)
  PROVE  /\ Running /\ host.task = from /\ host' = [host EXCEPT !.task = to]
         /\ host'.task = to /\ UNCHANGED <<canceled, err, call, pc>>
         /\ frame("g1", k) \in Frame /\ link' = [link EXCEPT !.stdout = Append(link.stdout, frame("g1", k))]
         /\ link'.stdout = Append(link.stdout, frame("g1", k))
         /\ \A j : Heard(j)' => Heard(j) \/ j = k
<1>1. frame("g1", k) \in Frame BY Frames DEF Said, Kind
<1>2. /\ link' = [link EXCEPT !.stdout = Append(link.stdout, frame("g1", k))]
      /\ link.stdout \in Seq(Frame) /\ link \in Links /\ host \in Hosts
  BY DEF Reply, Write, Typed, Links
<1>3. link'.stdout = Append(link.stdout, frame("g1", k)) BY <1>2 DEF Links
<1>4. UNCHANGED <<canceled, err, call, pc>> BY DEF Reply, failure
<1>5. ASSUME NEW j, Heard(j)' PROVE Heard(j) \/ j = k
  <2>1. frame("g1", j) = frame("g1", k) => j = k BY DEF frame
  <2>2. In(link'.stdout, "g1", j) <=> In(link.stdout, "g1", j) \/ frame("g1", k) = frame("g1", j)
    BY <1>1, <1>2, <1>3, Append_in
  <2> QED BY <1>4, <1>5, <2>1, <2>2 DEF Heard
<1> QED BY <1>1, <1>2, <1>3, <1>4, <1>5 DEF Reply, Hosts

LEMMA Says_step == ASSUME Typed, Opened, Says, [Next]_vars PROVE Says'
<1>1. CASE ~Replies
  <2>1. \A k : Heard(k)' => Heard(k) BY <1>1, Heard_step
  <2>2. call'.started => call.started \/ Heard("headers") BY <1>1, Heard_step
  <2>3. \A k \in {"message", "error"} : call'.payload = k => call.payload = k \/ Heard(k)
    BY <1>1, Heard_step
  <2>4. \/ host'.task = host.task
        \/ host.task \in {"none", "open", "body"}
        \/ host.task \in Live /\ host'.task = "canceled"
    BY <1>1, Task_step
  <2> QED BY <2>1, <2>2, <2>3, <2>4 DEF Says, Live
<1>2. ASSUME Reply("running", "headers", "headers") PROVE Says'
  <2>1. "headers" \in Said BY DEF Said
  <2>2. /\ host.task = "running" /\ host'.task = "headers" /\ UNCHANGED call
        /\ \A j : Heard(j)' => Heard(j) \/ j = "headers"
    BY <1>2, <2>1, Reply_step
  <2> QED BY <2>1, <2>2 DEF Says
<1>3. ASSUME Reply("headers", "message", "message") PROVE Says'
  <2>1. "message" \in Said BY DEF Said
  <2>2. /\ host.task = "headers" /\ host'.task = "message" /\ UNCHANGED call
        /\ \A j : Heard(j)' => Heard(j) \/ j = "message"
    BY <1>3, <2>1, Reply_step
  <2> QED BY <2>1, <2>2 DEF Says
<1>4. ASSUME Reply("message", "end", "answered") PROVE Says'
  <2>1. "end" \in Said BY DEF Said
  <2>2. /\ host.task = "message" /\ host'.task = "answered" /\ UNCHANGED call
        /\ \A j : Heard(j)' => Heard(j) \/ j = "end"
    BY <1>4, <2>1, Reply_step
  <2> QED BY <2>1, <2>2 DEF Says
<1>5. ASSUME Reply("headers", "error", "error") PROVE Says'
  <2>1. "error" \in Said BY DEF Said
  <2>2. /\ host.task = "headers" /\ host'.task = "error" /\ UNCHANGED call
        /\ \A j : Heard(j)' => Heard(j) \/ j = "error"
    BY <1>5, <2>1, Reply_step
  <2> QED BY <2>1, <2>2 DEF Says
<1>6. ASSUME Reply("error", "end", "failed") PROVE Says'
  <2>1. "end" \in Said BY DEF Said
  <2>2. /\ host.task = "error" /\ host'.task = "failed" /\ UNCHANGED call
        /\ \A j : Heard(j)' => Heard(j) \/ j = "end"
    BY <1>6, <2>1, Reply_step
  <2> QED BY <2>1, <2>2 DEF Says
<1>7. ASSUME Reply("headers", "no_body", "dropped") PROVE Says'
  <2>1. "no_body" \in Said BY DEF Said
  <2>2. /\ host.task = "headers" /\ host'.task = "dropped" /\ UNCHANGED call
        /\ \A j : Heard(j)' => Heard(j) \/ j = "no_body"
    BY <1>7, <2>1, Reply_step
  <2> QED BY <2>1, <2>2 DEF Says
<1> QED BY <1>1, <1>2, <1>3, <1>4, <1>5, <1>6, <1>7 DEF Replies

-----------------------------------------------------------------------------
(* How the call ends *)

\* Until Do leaves, nothing is closed, and whatever failed did so because the process
\* died, the attempt was canceled or a frame was too large.
Ends ==
  /\ host.state = "exited" => ~link.writable
  /\ ~Over =>
       /\ link.writable /\ link.readable /\ call.body # "closed"
       /\ err => Dead
       /\ call.done /\ (pc.receive \notin {"exit", "off"} \/ pc.do \in {"new", "open"}) => Dead
       /\ call.body = "broken" \/ call.ready = "failed" => Dead

\* A body that ends without an error is all of an answer, or the answer has none.
Complete ==
  /\ call.started
  /\ \/ host.task \in {"answered", "failed"} /\ call.payload # "none"
     \/ host.task = "dropped"
Finished ==
  ~Over /\ ((pc.receive = "exit" /\ call.body = "open") \/ call.body = "eof") => Complete

LEMMA Sound ==
  ASSUME Typed, Ends, ~Over, ~Dead
  PROVE  /\ Running /\ Writable /\ link.readable /\ ~err /\ ~canceled
         /\ call.body \in {"open", "eof"} /\ call.ready # "failed"
         /\ pc.receive \notin {"exit", "off"} \/ pc.do \in {"new", "open"} => ~call.done
BY DEF Typed, Hosts, Calls, Ends, Dead, Running, Writable

LEMMA Ends_step == ASSUME Typed, Goroutines, Ends, Finished, [Next]_vars PROVE Ends'
<1>0. call \in Calls /\ pc \in Counters /\ link \in Links /\ host \in Hosts BY DEF Typed
<1>1. /\ link'.writable => link.writable
      /\ Job \/ (link'.writable = link.writable /\ link'.readable = link.readable)
      /\ host'.state = "exited" => host.state = "exited" \/ ~link.writable
  <2>1. CASE GiveUp \/ SendRequest \/ ContextDone \/ Open \/ \E r \in Request : Answer(r)
    BY <1>0, <2>1 DEF GiveUp, SendRequest, ContextDone, Open, Answer, Sent, Links, peer, SendFails
  <2>2. CASE Dispatch
    BY <1>0, <2>2, Dispatched_type DEF Dispatch, Dispatched, Links, Hosts
  <2>3. CASE ReadFrame \/ ReadLoopEnds \/ Job \/ Replies \/ \E r \in Request : Unary(r) \/ Withdraw(r)
    BY <1>0, <2>3 DEF ReadFrame, ReadLoopEnds, Job, CloseWrite, Reap, Shutdown, Join, Replies, Reply,
       Unary, Withdraw, Write, Links, Hosts, peer
  <2>4. CASE Register \/ Respond \/ ReadBody \/ ReadEnd \/ Pop \/ Notified \/ Disconnected \/ Exit
             \/ Cancel \/ UNCHANGED vars \/ \E r \in Request : Leave(r) \/ Handled(r)
    BY <2>4 DEF Register, Respond, ReadBody, ReadEnd, Pop, Notified, Disconnected, Exit,
       Cancel, Leave, Handled, peer, vars
  <2>5. CASE HostExits \/ Die \/ Killed
    BY <1>0, <2>5 DEF HostExits, Die, Killed, Dies, Links, Hosts
  <2> QED BY <2>1, <2>2, <2>3, <2>4, <2>5 DEF Next, Transport
<1>2. host'.state = "exited" => ~link'.writable BY <1>1 DEF Ends
<1> SUFFICES ASSUME ~Over'
             PROVE  /\ link'.writable /\ link'.readable /\ call'.body # "closed"
                    /\ err' => Dead'
                    /\ call'.done /\ (pc'.receive \notin {"exit", "off"} \/ pc'.do \in {"new", "open"})
                         => Dead'
                    /\ call'.body = "broken" \/ call'.ready = "failed" => Dead'
  BY <1>2 DEF Ends
<1>3. ~Over /\ ~Job BY Final, Not_over DEF Over
<1>4. link'.writable /\ link'.readable BY <1>1, <1>3 DEF Ends
<1>5. call'.body # "closed"
  <2>1. call.body # "closed" BY <1>3 DEF Ends
  <2> QED
    BY <1>0, <1>3, <2>1 DEF Next, Transport, Register, Open, Respond, GiveUp, ReadBody,
       ReadEnd, SendRequest, Pop, Notified, ContextDone, Disconnected, Exit, ReadFrame, ReadLoopEnds,
       Answer, Leave, Handled, Cancel, Dispatch, Replies, Reply, HostExits, Die, Killed, Unary,
       Withdraw, vars, Calls, Removed, Failed, Broken, Push, HandleIncomingFrame, Requested,
       Withdrawn, SendFails
<1>6. ASSUME ~Dead'
      PROVE  /\ ~err'
             /\ call'.done => pc'.receive \in {"exit", "off"} /\ pc'.do \notin {"new", "open"}
             /\ call'.body # "broken" /\ call'.ready # "failed"
  <2>1. ~Dead BY <1>6, Dead_stays
  <2>2. /\ Running /\ Writable /\ link.readable /\ ~err /\ ~canceled
        /\ call.body \in {"open", "eof"} /\ call.ready # "failed"
        /\ pc.receive \notin {"exit", "off"} \/ pc.do \in {"new", "open"} => ~call.done
    BY <1>3, <2>1, Sound
  <2>3. ~GiveUp /\ ~ContextDone /\ ~ReadLoopEnds /\ ~Disconnected
    BY <2>2 DEF GiveUp, ContextDone, ReadLoopEnds, Disconnected
  <2>4. CASE Exit
    <3>1. pc.receive = "exit" /\ call.started
      BY <1>3, <2>2, <2>4 DEF Exit, Finished, Complete
    <3>2. pc.do \notin {"new", "open"} BY <3>1 DEF Goroutines
    <3>3. call'.body # "broken" /\ call'.ready # "failed" /\ err' = err
      BY <1>0, <2>2, <2>4, <3>1 DEF Exit, Calls, Removed, failure
    <3>4. pc'.receive = "off" /\ pc'.do = pc.do BY <1>0, <2>4 DEF Exit, Counters
    <3> QED BY <2>2, <3>2, <3>3, <3>4
  <2>5. CASE Register \/ Open \/ Pop \/ ReadFrame
    <3>1. CASE Register BY <1>0, <2>2, <3>1 DEF Register, Calls, Counters, failure
    <3>2. CASE Open BY <1>0, <2>2, <3>2 DEF Open, Counters, failure
    <3>3. CASE Pop BY <1>0, <2>2, <3>3 DEF Pop, Calls, Counters, failure
    <3>4. CASE ReadFrame
      BY <1>0, <2>2, <3>4 DEF ReadFrame, Calls, Push, HandleIncomingFrame, Requested, Withdrawn,
         failure
    <3> QED BY <2>5, <3>1, <3>2, <3>3, <3>4
  <2>6. CASE SendRequest \/ \E r \in Request : Answer(r) \/ Leave(r) \/ Handled(r)
    <3>1. ~SendFails(TRUE) /\ ~SendFails(FALSE)
      BY <1>6, <2>2 DEF SendFails, Dead
    <3>2. UNCHANGED <<err, call>> /\ UNCHANGED <<pc.receive, pc.do>>
      BY <1>0, <2>6, <3>1 DEF SendRequest, Answer, Leave, Handled, Counters, failure
    <3> QED BY <2>2, <3>2
  <2>7. CASE Respond \/ ReadBody \/ ReadEnd \/ Notified
    BY <1>0, <2>2, <2>7 DEF Respond, ReadBody, ReadEnd, Notified, Calls, Counters, failure
  <2>8. CASE Cancel \/ Dispatch \/ Replies \/ HostExits \/ Die \/ Killed \/ UNCHANGED vars
             \/ \E r \in Request : Unary(r) \/ Withdraw(r)
    BY <2>2, <2>8 DEF Cancel, Dispatch, Replies, Reply, HostExits, Die, Killed, Unary, Withdraw,
       vars, failure
  <2> QED BY <1>3, <2>3, <2>4, <2>5, <2>6, <2>7, <2>8 DEF Next, Transport
<1> QED BY <1>4, <1>5, <1>6

-----------------------------------------------------------------------------
(* The answer arrives in order and whole *)

\* How far the task got with its answer, and receiveCall with what it handled.
Written == IF host.task = "headers" THEN 1
           ELSE IF host.task \in {"message", "error", "dropped"} THEN 2
           ELSE IF host.task \in {"answered", "failed"} THEN 3 ELSE 0
Got == (IF call.started THEN 1 ELSE 0) + (IF call.payload = "none" THEN 0 ELSE 1)
Received == Got + Len(call.queue)

Receiving == ~Over /\ pc.receive \in {"pop", "select", "write"}

\* What is handled, queued and in the pipe is the answer without a gap, and all of it
\* unless the task was stopped.
Order ==
  Receiving =>
    /\ call.listed /\ (call.payload # "none" => call.started)
    /\ \A n \in 1..Len(call.queue) : Rank(call.queue[n]) = Got + n
    /\ Script(link.stdout, Received)
    /\ Running /\ host.task # "canceled" => Reached(link.stdout, Received, Written)

LEMMA Counts == ASSUME Typed PROVE Written \in 0..3 /\ Got \in 0..2 /\ Len(call.queue) \in Nat /\ Received \in Nat
BY DEF Typed, Calls, Written, Got, Received

\* receiveCall goes on with its call, and a task that stopped does not go on.
LEMMA Receives ==
  ASSUME Typed, Goroutines, Receiving', [Next]_vars, ~Open
  PROVE  /\ Receiving /\ ~Job /\ ~Exit
         /\ call.listed => call'.listed
<1>0. call \in Calls /\ pc \in Counters BY DEF Typed
<1>1. ~Over /\ ~Job BY Final, Not_over DEF Over, Receiving
<1>2. ~GiveUp /\ ~ContextDone /\ ~Exit
  BY <1>0 DEF GiveUp, ContextDone, Exit, Receiving, Over, Counters
<1>3. pc.receive \in {"pop", "select", "write"}
  BY <1>0, <1>1, <1>2 DEF Receiving, Next, Transport, Register, Respond, ReadBody,
     ReadEnd, SendRequest, Pop, Notified, Disconnected, ReadFrame, ReadLoopEnds,
     Answer, Leave, Handled, Cancel, Dispatch, Replies, Reply, HostExits, Die, Killed, Unary,
     Withdraw, vars, Counters, SendFails
<1>4. call.listed => call'.listed
  BY <1>0, <1>1, <1>2 DEF Next, Transport, Register, Respond, ReadBody,
     ReadEnd, SendRequest, Pop, Notified, Disconnected, ReadFrame, ReadLoopEnds,
     Answer, Leave, Handled, Cancel, Dispatch, Replies, Reply, HostExits, Die, Killed, Unary,
     Withdraw, vars, Calls, Failed, Broken, Push, HandleIncomingFrame, Requested, Withdrawn,
     SendFails
<1> QED BY <1>1, <1>2, <1>3, <1>4 DEF Receiving

LEMMA Run_step ==
  ASSUME Typed, Opened, [Next]_vars
  PROVE  /\ Running' => Running
         /\ ~Replies => \/ host.task # "canceled" /\ Written' = Written
                        \/ host'.task = "canceled"
<1>1. Running' => Running
  <2>1. host \in Hosts BY DEF Typed
  <2>2. CASE Dispatch BY <2>1, <2>2 DEF Dispatch, Running
  <2>3. CASE ~Dispatch
    BY <2>1, <2>3 DEF Running, Hosts, Next, Transport, Job, Register, Open, Respond, GiveUp, ReadBody,
       ReadEnd, SendRequest, Pop, Notified, ContextDone, Disconnected, Exit, ReadFrame, ReadLoopEnds,
       Answer, Leave, Handled, CloseWrite, Reap, Shutdown, Join, Cancel, Replies, Reply,
       HostExits, Die, Killed, Dies, Unary, Withdraw, peer, vars, SendFails
  <2> QED BY <2>2, <2>3
<1> QED BY <1>1, Task_step DEF Written

\* The request is opened: nothing was said yet.
LEMMA Order_open == ASSUME Typed, Fresh, Open, Receiving' PROVE Order'
<1>0. call \in Calls /\ pc \in Counters /\ host \in Hosts BY DEF Typed
<1>1. /\ call.listed /\ ~call.started /\ call.payload = "none" /\ call.queue = <<>>
      /\ host.task = "none" /\ Quiet(link.stdout)
  BY DEF Open, Fresh
<1>2. UNCHANGED <<call, host>> /\ link'.stdout = link.stdout
  <2>1. Writable BY <1>0 DEF Open, Receiving, Over, Counters
  <2> QED BY <2>1, Frames, Sent_pipe DEF Open, Kind, peer
<1>3. Got' = 0 /\ Received' = 0 /\ Written' = 0 BY <1>1, <1>2 DEF Got, Received, Written
<1>4. Script(link.stdout, 0) /\ Reached(link.stdout, 0, 0)
  BY <1>1 DEF Script, Reached, Quiet
<1>5. \A n \in 1..Len(call.queue) : FALSE BY <1>1
<1> QED BY <1>1, <1>2, <1>3, <1>4, <1>5 DEF Order

\* receiveCall takes the next frame from its queue.
LEMMA Order_pop == ASSUME Typed, Order, Receiving, Receiving', Pop PROVE Order'
<1> DEFINE q == call.queue
<1>0. call \in Calls /\ pc \in Counters /\ q \in Seq(Kind) BY DEF Typed, Calls
<1>1. /\ call.listed /\ (call.payload # "none" => call.started)
      /\ \A n \in 1..Len(q) : Rank(q[n]) = Got + n
      /\ Script(link.stdout, Received)
      /\ Running /\ host.task # "canceled" => Reached(link.stdout, Received, Written)
  BY DEF Order
<1>2. UNCHANGED <<link, host>> /\ Written' = Written BY DEF Pop, peer, Written
<1>3. CASE q = <<>>
  <2>1. UNCHANGED call BY <1>3 DEF Pop
  <2> QED BY <1>1, <1>2, <2>1 DEF Order, Got, Received, Running
<1>4. CASE q # <<>>
  <2>1. /\ Len(q) \in Nat \ {0} /\ Len(Tail(q)) = Len(q) - 1 /\ Head(q) = q[1] /\ 1 \in 1..Len(q)
        /\ \A n \in 1..Len(Tail(q)) : Tail(q)[n] = q[n + 1] /\ n + 1 \in 1..Len(q)
    BY <1>0, <1>4, Shifted
  <2>2. Rank(Head(q)) = Got + 1 /\ Got \in 0..2 BY <1>1, <2>1, Counts
  <2>3. \/ Head(q) = "headers" /\ ~call.started
           /\ call' = [call EXCEPT !.queue = Tail(q), !.started = TRUE, !.ready = "response"]
        \/ Head(q) \in {"error", "message"}
           /\ call' = [call EXCEPT !.queue = Tail(q), !.payload = Head(q)]
    BY <1>0, <1>4 DEF Pop, Receiving, Counters
  <2>4. Head(q) # "headers" => Got = 1 /\ call.started /\ call.payload = "none"
    BY <1>0, <1>1, <2>2, <2>3 DEF Rank, Got
  <2>5. /\ Got' = Got + 1 /\ call'.queue = Tail(q) /\ call'.listed
        /\ call'.payload # "none" => call'.started
    <3>1. CASE Head(q) = "headers"
      <4>1. /\ call'.queue = Tail(q) /\ call'.started /\ ~call.started
            /\ UNCHANGED <<call.payload, call.listed>>
        BY <1>0, <2>3, <3>1 DEF Calls
      <4> QED BY <1>1, <4>1 DEF Got
    <3>2. CASE Head(q) # "headers"
      <4>1. /\ call'.queue = Tail(q) /\ call'.payload # "none"
            /\ UNCHANGED <<call.started, call.listed>>
        BY <1>0, <2>3, <3>2 DEF Calls
      <4> QED BY <1>1, <2>4, <3>2, <4>1 DEF Got
    <3> QED BY <3>1, <3>2
  <2>6. Received' = Received
    <3>1. Received = Got + Len(q) /\ Received' = Got' + Len(Tail(q)) BY <2>5 DEF Received
    <3>2. Len(Tail(q)) = Len(q) - 1 /\ Len(q) \in Nat BY <2>1
    <3>3. Got' = Got + 1 /\ Got \in Nat BY <2>2, <2>5
    <3> DEFINE tail == Len(Tail(q))
               all == Len(q)
    <3>4. tail = all - 1 /\ all \in Nat /\ Received = Got + all /\ Received' = Got' + tail
      BY <3>1, <3>2
    <3> HIDE DEF tail, all
    <3> QED BY <3>3, <3>4
  <2> HIDE DEF q
  <2>7. \A n \in 1..Len(call'.queue) : Rank(call'.queue[n]) = Got' + n
    <3> SUFFICES ASSUME NEW n \in 1..Len(Tail(q)) PROVE Rank(Tail(q)[n]) = Got + 1 + n
      BY <2>5
    <3>1. Rank(q[n + 1]) = Got + (n + 1) BY <1>1, <2>1
    <3> QED BY <2>1, <2>2, <3>1
  <2> QED BY <1>1, <1>2, <2>5, <2>6, <2>7 DEF Order, Running
<1> QED BY <1>3, <1>4

\* readLoop queues the next frame of the answer.
LEMMA Order_read ==
  ASSUME Typed, Order, Receiving, Receiving', ReadFrame PROVE Order'
<1> DEFINE f == Head(link.stdout)
<1>0. call \in Calls /\ link.stdout \in Seq(Frame) /\ call.queue \in Seq(Kind) BY DEF Typed, Calls, Links
<1>1. /\ call.listed /\ (call.payload # "none" => call.started)
      /\ \A n \in 1..Len(call.queue) : Rank(call.queue[n]) = Got + n
      /\ Script(link.stdout, Received)
      /\ Running /\ host.task # "canceled" => Reached(link.stdout, Received, Written)
  BY DEF Order
<1>2. /\ link.stdout # <<>> /\ f \in Frame /\ link'.stdout = Tail(link.stdout)
      /\ IF f.id = "g1" THEN Push(f.kind) ELSE HandleIncomingFrame(f)
      /\ UNCHANGED host /\ Written' = Written
  BY Piped DEF ReadFrame, Typed, Links, peer, Written
<1>3. f.kind \in Kind BY <1>2, Frames
<1>4. Written \in Nat /\ Received \in Nat /\ Got \in Nat /\ Len(call.queue) \in Nat BY Counts
<1> HIDE DEF f
<1>5. CASE f.id # "g1"
  <2>1. UNCHANGED call BY <1>2, <1>5 DEF HandleIncomingFrame, Requested, Withdrawn
  <2>2. Got' = Got /\ Received' = Received BY <2>1 DEF Got, Received
  <2>3. /\ Script(Tail(link.stdout), Received)
        /\ Reached(link.stdout, Received, Written) => Reached(Tail(link.stdout), Received, Written)
    BY <1>0, <1>1, <1>2, <1>4, <1>5, Script_other DEF f
  <2> QED BY <1>1, <1>2, <2>1, <2>2, <2>3 DEF Order, Running
<1>6. CASE f.id = "g1"
  <2>1. call' = [call EXCEPT !.queue = Append(call.queue, f.kind), !.notify = TRUE]
    BY <1>1, <1>2, <1>6 DEF Push
  <2>2. /\ call'.queue = Append(call.queue, f.kind)
        /\ UNCHANGED <<call.listed, call.payload, call.started>> /\ Got' = Got
    BY <1>0, <2>1 DEF Calls, Got
  <2>3. /\ Len(call'.queue) = Len(call.queue) + 1
        /\ call'.queue[Len(call.queue) + 1] = f.kind
        /\ \A n \in 1..Len(call.queue) : call'.queue[n] = call.queue[n]
    BY <1>0, <1>3, <2>2, Appended
  <2>4. /\ Rank(f.kind) = Received + 1 /\ Script(Tail(link.stdout), Received + 1)
        /\ Reached(link.stdout, Received, Written) => Reached(Tail(link.stdout), Received + 1, Written)
    BY <1>0, <1>1, <1>2, <1>4, <1>6, Script_own DEF f
  <2>5. Received' = Received + 1 BY <1>4, <2>2, <2>3 DEF Received
  <2>6. \A n \in 1..Len(call'.queue) : Rank(call'.queue[n]) = Got' + n
    <3> SUFFICES ASSUME NEW n \in 1..Len(call'.queue) PROVE Rank(call'.queue[n]) = Got + n
      BY <2>2
    <3>1. CASE n \in 1..Len(call.queue) BY <1>1, <2>3, <3>1
    <3>2. CASE n = Len(call.queue) + 1
      <4>1. Received + 1 = Got + n BY <1>4, <3>2 DEF Received
      <4> QED BY <2>3, <2>4, <3>2, <4>1
    <3> QED BY <1>4, <2>3, <3>1, <3>2
  <2> QED BY <1>1, <1>2, <2>2, <2>4, <2>5, <2>6 DEF Order, Running
<1> QED BY <1>5, <1>6

\* The task writes the next frame of its answer.
LEMMA Order_reply ==
  ASSUME Typed, Order, Receiving, Receiving', NEW from, NEW k \in Said, NEW to, Reply(from, k, to),
         from # "canceled", to # "canceled", Rank(k) = Written + 1, Written' = Written + 1
  PROVE  Order'
<1> DEFINE f == frame("g1", k)
<1>0. link.stdout \in Seq(Frame) BY DEF Typed, Links
<1>1. /\ Running /\ host.task = from /\ host'.task = to /\ UNCHANGED call
      /\ f \in Frame /\ link'.stdout = Append(link.stdout, f)
  BY Reply_step
<1>2. f.id = "g1" /\ f.kind = k BY DEF frame
<1>3. Written \in Nat /\ Received \in Nat BY Counts
<1>4. /\ call.listed /\ (call.payload # "none" => call.started)
      /\ \A n \in 1..Len(call.queue) : Rank(call.queue[n]) = Got + n
      /\ Script(link.stdout, Received) /\ Reached(link.stdout, Received, Written)
  BY <1>1 DEF Order
<1> HIDE DEF f
<1>5. Script(Append(link.stdout, f), Received) /\ Reached(Append(link.stdout, f), Received, Written + 1)
  BY <1>0, <1>1, <1>2, <1>3, <1>4, Script_write
<1>6. Got' = Got /\ Received' = Received BY <1>1 DEF Got, Received
<1> QED BY <1>1, <1>4, <1>5, <1>6 DEF Order

\* The task writes another frame.
LEMMA Order_write ==
  ASSUME Typed, Order, Receiving, Receiving', NEW r \in Request, Unary(r) \/ Withdraw(r)
  PROVE  Order'
<1>0. link.stdout \in Seq(Frame) BY DEF Typed, Links
<1>1. PICK k \in {"request", "cancel"} : Write(frame(r, k)) BY DEF Unary, Withdraw
<1> DEFINE f == frame(r, k)
<1>2. f \in Frame /\ f.id # "g1" BY Frames, ProcessAssumption DEF Kind, frame
<1>3. link'.stdout = Append(link.stdout, f) BY <1>1, <1>2, Wrote_type DEF Typed, Links
<1>4. UNCHANGED <<call, host>> BY DEF Unary, Withdraw
<1>5. Got' = Got /\ Received' = Received /\ Written' = Written /\ Running' = Running
  BY <1>4 DEF Got, Received, Written, Running
<1>6. Written \in Nat /\ Received \in Nat BY Counts
<1>7. /\ call.listed /\ (call.payload # "none" => call.started)
      /\ \A n \in 1..Len(call.queue) : Rank(call.queue[n]) = Got + n
      /\ Script(link.stdout, Received)
      /\ Running /\ host.task # "canceled" => Reached(link.stdout, Received, Written)
  BY DEF Order
<1> HIDE DEF f
<1>8. /\ Script(Append(link.stdout, f), Received)
      /\ Reached(link.stdout, Received, Written) => Reached(Append(link.stdout, f), Received, Written)
  BY <1>0, <1>2, <1>6, <1>7, Script_write_other
<1> QED BY <1>3, <1>4, <1>5, <1>7, <1>8 DEF Order

LEMMA Order_step ==
  ASSUME Typed, Goroutines, Fresh, Opened, Ends, Order, [Next]_vars PROVE Order'
<1> SUFFICES ASSUME Receiving' PROVE Order' BY DEF Order
<1>1. CASE Open BY <1>1, Order_open
<1>2. CASE ~Open
  <2>1. Receiving /\ ~Job /\ ~Exit /\ (call.listed => call'.listed) BY <1>2, Receives
  <2>2. CASE Pop BY <2>1, <2>2, Order_pop
  <2>3. CASE ReadFrame BY <2>1, <2>3, Order_read
  <2>4. CASE \E r \in Request : Unary(r) \/ Withdraw(r) BY <2>1, <2>4, Order_write
  <2>5. CASE Replies
    <3>1. Said = {"headers", "message", "error", "end", "no_body"} BY DEF Said
    <3>2. ASSUME Reply("running", "headers", "headers") PROVE Order'
      <4>1. host.task = "running" /\ host'.task = "headers" BY <3>1, <3>2, Reply_step
      <4>2. Rank("headers") = Written + 1 /\ Written' = Written + 1 BY <4>1 DEF Written, Rank
      <4> QED BY <2>1, <3>1, <3>2, <4>2, Order_reply
    <3>3. ASSUME Reply("headers", "message", "message") PROVE Order'
      <4>1. host.task = "headers" /\ host'.task = "message" BY <3>1, <3>3, Reply_step
      <4>2. Rank("message") = Written + 1 /\ Written' = Written + 1 BY <4>1 DEF Written, Rank
      <4> QED BY <2>1, <3>1, <3>3, <4>2, Order_reply
    <3>4. ASSUME Reply("message", "end", "answered") PROVE Order'
      <4>1. host.task = "message" /\ host'.task = "answered" BY <3>1, <3>4, Reply_step
      <4>2. Rank("end") = Written + 1 /\ Written' = Written + 1 BY <4>1 DEF Written, Rank
      <4> QED BY <2>1, <3>1, <3>4, <4>2, Order_reply
    <3>5. ASSUME Reply("headers", "error", "error") PROVE Order'
      <4>1. host.task = "headers" /\ host'.task = "error" BY <3>1, <3>5, Reply_step
      <4>2. Rank("error") = Written + 1 /\ Written' = Written + 1 BY <4>1 DEF Written, Rank
      <4> QED BY <2>1, <3>1, <3>5, <4>2, Order_reply
    <3>6. ASSUME Reply("error", "end", "failed") PROVE Order'
      <4>1. host.task = "error" /\ host'.task = "failed" BY <3>1, <3>6, Reply_step
      <4>2. Rank("end") = Written + 1 /\ Written' = Written + 1 BY <4>1 DEF Written, Rank
      <4> QED BY <2>1, <3>1, <3>6, <4>2, Order_reply
    <3>7. ASSUME Reply("headers", "no_body", "dropped") PROVE Order'
      <4>1. host.task = "headers" /\ host'.task = "dropped" BY <3>1, <3>7, Reply_step
      <4>2. Rank("no_body") = Written + 1 /\ Written' = Written + 1 BY <4>1 DEF Written, Rank
      <4> QED BY <2>1, <3>1, <3>7, <4>2, Order_reply
    <3> QED BY <2>5, <3>2, <3>3, <3>4, <3>5, <3>6, <3>7 DEF Replies
  <2>6. CASE ~Pop /\ ~ReadFrame /\ ~Replies /\ ~\E r \in Request : Unary(r) \/ Withdraw(r)
    <3>1. UNCHANGED <<call.started, call.payload, call.queue>> BY <2>1, <2>6, Queue
    <3>2. Got' = Got /\ Received' = Received BY <3>1 DEF Got, Received
    <3>3. /\ call.listed /\ (call.payload # "none" => call.started)
          /\ \A n \in 1..Len(call.queue) : Rank(call.queue[n]) = Got + n
          /\ Script(link.stdout, Received)
          /\ Running /\ host.task # "canceled" => Reached(link.stdout, Received, Written)
      BY <2>1 DEF Order
    <3>4. /\ call'.listed /\ (call'.payload # "none" => call'.started)
          /\ \A n \in 1..Len(call'.queue) : Rank(call'.queue[n]) = Got' + n
      BY <2>1, <3>1, <3>2, <3>3
    <3>5. CASE ReadLoopEnds
      <4>1. ~Running
        <5>1. link.readable BY <2>1 DEF Ends, Receiving
        <5> QED BY <3>5, <5>1 DEF ReadLoopEnds
      <4>2. link'.stdout = <<>> BY <3>5 DEF ReadLoopEnds, Typed, Links
      <4>3. Script(<<>>, Received) BY DEF Script
      <4>4. ~Running' BY <4>1, Run_step
      <4> QED BY <3>2, <3>4, <4>2, <4>3, <4>4 DEF Order
    <3>6. CASE ~ReadLoopEnds
      <4>1. link'.stdout = link.stdout BY <2>6, <3>6, Output
      <4>2. Running' /\ host'.task # "canceled" => Reached(link.stdout, Received, Written')
        BY <2>6, <3>3, Run_step
      <4> QED BY <3>2, <3>3, <3>4, <4>1, <4>2 DEF Order
    <3> QED BY <3>5, <3>6
  <2> QED BY <2>2, <2>3, <2>4, <2>5, <2>6
<1> QED BY <1>1, <1>2

\* A task that answered has answered.
LEMMA Answered_stays ==
  ASSUME Typed, Opened, [Next]_vars, host.task \in {"answered", "failed", "dropped"}
  PROVE  host'.task = host.task
<1>1. ~Replies BY DEF Replies, Reply
<1> QED BY <1>1, Task_step DEF Live

LEMMA Finished_step ==
  ASSUME Typed, Goroutines, Opened, Says, Order, Ends, Finished, [Next]_vars PROVE Finished'
<1> DEFINE Ended == (pc.receive = "exit" /\ call.body = "open") \/ call.body = "eof"
<1> SUFFICES ASSUME ~Over', Ended'
             PROVE  Complete'
  BY DEF Finished
<1>0. call \in Calls /\ pc \in Counters BY DEF Typed
<1>1. ~Over /\ ~Job /\ call.body # "closed" BY Final, Not_over DEF Over, Ends
<1>2. CASE Ended
  <2>1. Complete BY <1>1, <1>2 DEF Finished
  <2>2. host'.task = host.task BY <2>1, Answered_stays DEF Complete
  <2>3. (call.payload # "none" => call'.payload # "none") /\ (call.started => call'.started)
    <3>1. CASE Pop BY <1>0, <3>1 DEF Pop, Calls
    <3>2. CASE ReadFrame
      BY <1>0, <3>2 DEF ReadFrame, Push, HandleIncomingFrame, Requested, Withdrawn, Calls
    <3> QED BY <3>1, <3>2, Queue
  <2> QED BY <2>1, <2>2, <2>3 DEF Complete
<1>3. CASE ~Ended /\ ~Pop
  <2>1. pc.receive # "exit" \/ call.body # "open" BY <1>3
  <2>2. call.body # "eof" BY <1>3
  <2>3. CASE ContextDone \/ Disconnected
    <3>1. call'.body # "open" /\ call'.body # "eof"
      BY <1>0, <2>2, <2>3 DEF ContextDone, Disconnected, Broken, Removed, Calls
    <3> QED BY <3>1
  <2>4. CASE Exit
    <3>1. pc.receive = "exit" BY <1>1, <2>4 DEF Exit
    <3>2. call'.body = call.body /\ call.body \notin {"open", "eof"}
      BY <1>0, <2>1, <2>2, <2>4, <3>1 DEF Exit, Removed, Calls
    <3> QED BY <3>2
  <2>5. CASE ~ContextDone /\ ~Disconnected /\ ~Exit
    <3>1. call'.body = call.body
      BY <1>0, <1>1, <1>3, <2>5 DEF Next, Transport, Register, Open, Respond, GiveUp, ReadBody,
         ReadEnd, SendRequest, Notified, ReadFrame, ReadLoopEnds, Answer, Leave, Handled, Cancel,
         Dispatch, Replies, Reply, HostExits, Die, Killed, Unary, Withdraw, vars, Calls, Removed,
         Failed, Push, HandleIncomingFrame, Requested, Withdrawn, SendFails
    <3>2. pc'.receive = "exit" => pc.receive = "exit"
      BY <1>0, <1>1, <1>3, <2>5 DEF Next, Transport, Register, Open, Respond, GiveUp, ReadBody,
         ReadEnd, SendRequest, Notified, ReadFrame, ReadLoopEnds, Answer, Leave, Handled, Cancel,
         Dispatch, Replies, Reply, HostExits, Die, Killed, Unary, Withdraw, vars, Counters,
         SendFails
    <3> QED BY <2>1, <2>2, <3>1, <3>2
  <2> QED BY <2>3, <2>4, <2>5
<1>4. CASE ~Ended /\ Pop
  <2> DEFINE k == Head(call.queue)
  <2>1. Receiving BY <1>1, <1>4 DEF Pop, Receiving
  <2>2. pc'.receive = "exit"
    <3>1. call'.body = call.body BY <1>0, <1>4 DEF Pop, Calls
    <3> QED BY <1>4, <3>1
  <2>3. /\ call.queue # <<>> /\ UNCHANGED <<host, call.started, call.payload>>
        /\ k \in {"end", "no_body"} \/ (k = "headers" /\ call.started) \/ (k = "message" /\ ~call.started)
    BY <1>0, <1>4, <2>2 DEF Pop, Calls, Counters, peer
  <2>4. k = call.queue[1] /\ 1 \in 1..Len(call.queue)
    <3>1. call.queue \in Seq(Kind) BY <1>0 DEF Calls
    <3> QED BY <2>3, <3>1, Shifted
  <2> HIDE DEF k
  <2>5. Rank(k) = Got + 1 /\ (call.payload # "none" => call.started)
    BY <2>1, <2>4 DEF Order
  <2>6. call.started /\ ((call.payload # "none" /\ k = "end") \/ k = "no_body")
    BY <1>0, <2>3, <2>5 DEF Rank, Got, Calls
  <2>7. Heard(k) BY <2>4 DEF Heard
  <2>8. Complete BY <2>6, <2>7 DEF Says, Complete
  <2> QED BY <2>3, <2>8 DEF Complete
<1> QED BY <1>2, <1>3, <1>4

-----------------------------------------------------------------------------
(* The outcome *)

LEMMA Truthful_step ==
  ASSUME Typed, Goroutines, Opened, Says, Ends, Finished, TruthfulOutcome, [Next]_vars
  PROVE  TruthfulOutcome'
<1>0. call \in Calls /\ pc \in Counters /\ host \in Hosts BY DEF Typed
<1>1. CASE Over
  <2>1. pc'.do = pc.do BY <1>1, Final
  <2>2. CASE pc.do = "ok"
    BY <2>1, <2>2, Answered_stays DEF TruthfulOutcome
  <2>3. CASE pc.do = "error" /\ host.task \in {"failed", "dropped"}
    BY <2>1, <2>3, Answered_stays DEF TruthfulOutcome
  <2>4. CASE pc.do = "error" /\ Dead
    BY <2>1, <2>4, Dead_stays DEF TruthfulOutcome, Dead
  <2>5. CASE pc.do = "canceled" BY <2>1, <2>5 DEF TruthfulOutcome
  <2> QED BY <1>1, <2>2, <2>3, <2>4, <2>5 DEF Over, TruthfulOutcome, Dead
<1>2. CASE ~Over
  <2>1. ~Dead => /\ Writable /\ ~err /\ call.ready # "failed" /\ call.body \in {"open", "eof"}
    BY <1>2, Sound
  <2>2. CASE ReadEnd
    <3>1. UNCHANGED <<host, canceled, refused>> /\ call.body # "open"
          /\ pc'.do = IF call.body = "eof" /\ call.payload = "message" THEN "ok" ELSE "error"
      BY <1>0, <2>2 DEF ReadEnd, peer, Counters, failure
    <3>2. CASE call.body = "eof"
      <4>1. \/ host.task \in {"answered", "failed"} /\ call.payload \in {"message", "error"}
            \/ host.task = "dropped"
        BY <1>0, <1>2, <3>2 DEF Finished, Complete, Calls
      <4>2. call.payload = "message" => host.task = "answered" BY <4>1 DEF Says
      <4>3. call.payload = "error" => host.task = "failed" BY <4>1 DEF Says
      <4> QED BY <3>1, <3>2, <4>1, <4>2, <4>3 DEF TruthfulOutcome
    <3>3. CASE call.body # "eof"
      <4>1. Dead BY <2>1, <3>1, <3>3
      <4> QED BY <3>1, <3>3, <4>1 DEF TruthfulOutcome, Dead
    <3> QED BY <3>2, <3>3
  <2>3. CASE Register \/ Open \/ Respond
    <3>1. pc'.do \in {"open", "select", "read"} \/ (Dead /\ pc'.do = "error")
      BY <1>0, <2>1, <2>3 DEF Register, Open, Respond, Counters, Calls
    <3>2. Dead => Dead' BY Dead_stays
    <3> QED BY <3>1, <3>2 DEF TruthfulOutcome, Dead
  <2>4. CASE ~ReadEnd /\ ~Register /\ ~Open /\ ~Respond
    <3>1. pc'.do \in {pc.do, "canceled"}
      BY <1>0, <2>4 DEF Next, Transport, Job, GiveUp, ReadBody, SendRequest, Pop, Notified,
         ContextDone, Disconnected, Exit, ReadFrame, ReadLoopEnds, Answer, Leave, Handled,
         CloseWrite, Reap, Shutdown, Join, Cancel, Dispatch, Replies, Reply, HostExits, Die, Killed,
         Unary, Withdraw, vars, Counters, SendFails
    <3> QED BY <1>2, <3>1 DEF TruthfulOutcome, Over
  <2> QED BY <2>2, <2>3, <2>4
<1> QED BY <1>1, <1>2

\* What Execute returns is what happened: a result only if the task returned one and all
\* of it was received, and an error only if the task raised or returned more than a frame
\* holds, the process died, the attempt was canceled or the transport refused to write a
\* frame that large (Transport.Do, receiveCall, readLoop, send).
THEOREM TellsTheTruth == Spec => []TruthfulOutcome
<1>1. Init => Fresh /\ Opened /\ Says /\ Ends /\ Finished /\ Order /\ TruthfulOutcome
  <2> SUFFICES ASSUME Init PROVE Fresh /\ Opened /\ Says /\ Ends /\ Finished /\ Order /\ TruthfulOutcome
    OBVIOUS
  <2>1. Fresh BY DEF Init, Fresh, Quiet
  <2>2. Opened BY DEF Init, Opened, Once, In
  <2>3. Says
    <3>1. \A k : ~Heard(k) BY DEF Init, Heard, In
    <3> QED BY <3>1 DEF Init, Says
  <2>4. Ends /\ Finished /\ Order /\ TruthfulOutcome
    BY DEF Init, Ends, Finished, Order, Receiving, TruthfulOutcome
  <2> QED BY <2>1, <2>2, <2>3, <2>4
<1>2. Fresh /\ Opened /\ Says /\ Ends /\ Finished /\ Order /\ TruthfulOutcome
      /\ Typed /\ Asked /\ Goroutines /\ [Next]_vars
      => (Fresh /\ Opened /\ Says /\ Ends /\ Finished /\ Order /\ TruthfulOutcome)'
  BY Fresh_step, Opened_step, Says_step, Ends_step, Finished_step, Order_step, Truthful_step
<1> QED BY <1>1, <1>2, Counted, PTL DEF Spec
=============================================================================
