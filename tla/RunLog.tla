------------------------------- MODULE RunLog -------------------------------
(***************************************************************************)
(* The log of a run and one who watches it: AppendTx (internal/runlog/     *)
(* service.go) and the transactions that write status events, Subscription *)
(* (tail.go), watchRun (internal/lutra/runs.go) and the page that follows  *)
(* it over connections that break (ui/src/lib/watch-run.ts).               *)
(*                                                                         *)
(* The tables hold what is committed. A writer of task logs first locks    *)
(* the row of its stream and commits later; the transactions that change   *)
(* the run hold its lock throughout and are one step. NOTIFY takes effect  *)
(* with the commit. Every query and every message sent is a step.          *)
(***************************************************************************)
EXTENDS Integers, FiniteSets, Sequences

CONSTANTS
  Writer,      \* requests to append to the task log
  AppendId,    \* AppendId[w]: the request's append_id, or NoId
  Entries,     \* Entries[w]: its entries, a sequence of [key, value]
  NoId, Nobody,
  Wanted,      \* the keys in the range of the watcher's key_prefix
  BatchSize,   \* Service.TailBatchSize
  MaxVersions, \* bound: how often the run's row changes
  MaxEvents,   \* bound: status events of actions
  MaxFaults    \* bound: lost connections, failed statements and lost replies

ASSUME LogAssumption ==
  /\ BatchSize \in Nat \ {0} /\ MaxVersions \in Nat /\ MaxEvents \in Nat /\ MaxFaults \in Nat
  /\ Nobody \notin Writer
  /\ \A w \in Writer : DOMAIN Entries[w] = 1..Len(Entries[w]) /\ Len(Entries[w]) \in Nat \ {0}

VARIABLES
  log,      \* run_log_records: the committed records of a stream
  next,     \* run_log_streams.next_seq
  appends,  \* run_log_appends: the committed requests that had an append_id
  run,      \* the row of the run's root action: is it final, and its version
  endedAt,  \* the end of the task log when the run became final
  holder,   \* the writer that holds the lock of the task log's stream
  wpc,      \* where a writer stands
  reply,    \* the range of sequence numbers a writer got as an answer
  spc,      \* where watchRun stands
  tasks,    \* whether the request asks for task logs
  snap,     \* what its RepeatableRead transaction sees
  phase,    \* 1 until the terminal event, then 2
  at,       \* the stream whose cursor Run is at
  cur,      \* Cursor.InspectSeq
  until,    \* Cursor.UntilSeq, set in phase 2
  rows,     \* the rows of the batch that are not sent yet
  inspect,  \* InspectSeq after the batch
  progress,
  listening, queue,  \* the LISTEN connection and the streams it was notified of
  cpc,      \* where the page stands
  cursor,   \* the page's cursor: the last log record it got
  seen,     \* the log records it got
  history,  \* the action events it got
  shown,    \* the latest Run it got
  faults

tables == <<log, next, appends, run, endedAt>>
writers == <<holder, wpc, reply>>
batch == <<at, rows, inspect, progress>>
server == <<spc, snap, phase, cur, until, batch>>
listener == <<listening, queue>>
page == <<cpc, cursor, seen, history, shown>>
vars == <<tables, writers, tasks, server, listener, page, faults>>

-----------------------------------------------------------------------------
(* State formulae. An operator whose name ends in Bug is a wrong variant of *)
(* the one that follows it, used only to try whether a property notices.   *)

Stream == {"task_log", "status"}
StatusKey == "status"
ActionKey == "action"
Range == [first : Nat, last : Nat]
NoReply == [first |-> 0, last |-> 0]

\* LogStreamEnd and the boundary of ReadFilteredLogRecords.
End(s) == next[s] - 1

Row == [final : BOOLEAN, version : Nat]

TablesOK ==
  /\ next \in [Stream -> Nat \ {0}] /\ log = [s \in Stream |-> log[s]]
  /\ \A s \in Stream : \A r \in log[s] : r.seq \in 1..End(s)
  /\ \A r \in log["status"] : r.value \in Row
  /\ \A p \in appends : p.range \in Range
  /\ run \in Row /\ endedAt \in Nat

WritersOK ==
  /\ holder \in Writer \cup {Nobody}
  /\ wpc \in [Writer -> {"ready", "locked", "answered", "refused", "unknown"}]
  /\ reply \in [Writer -> Range]

WatchOK ==
  /\ spc \in {"off", "snapshot", "greet", "read", "send", "wait", "logEnd", "statusEnd"}
  /\ tasks \in BOOLEAN /\ phase \in 1..2 /\ at \in Stream
  /\ snap \in [run : Row, end : Nat] /\ shown \in Row
  /\ progress \in BOOLEAN /\ listening \in BOOLEAN /\ queue \subseteq Stream
  /\ cpc \in {"idle", "on", "done", "failed"} /\ (cpc = "on" <=> spc # "off")
  /\ faults \in 0..MaxFaults

\* No cursor is beyond the end of its stream.
BoundsOK ==
  /\ cur \in [Stream -> Nat] /\ until \in [Stream -> Nat]
  /\ \A s \in Stream : cur[s] <= End(s) /\ until[s] <= End(s)
  /\ snap.end <= End("status")
  /\ rows \subseteq log[at] /\ (spc # "send" => rows = {})
  /\ inspect \in Nat /\ (spc = "send" => inspect <= End(at))
  /\ cursor \in 0..End("task_log")
  /\ seen \subseteq log["task_log"] /\ history \subseteq log["status"]

TypeOK == TablesOK /\ WritersOK /\ WatchOK /\ BoundsOK

Event(n, key, value) == [seq |-> n, key |-> key, value |-> value]
Zero == [s \in Stream |-> 0]
FirstRun == [final |-> FALSE, version |-> 1]
NoSnap == [run |-> FirstRun, end |-> 0]

\* CreateRun has written the first status event.
Init ==
  /\ log = [s \in Stream |-> IF s = "status" THEN {Event(1, StatusKey, FirstRun)} ELSE {}]
  /\ next = [s \in Stream |-> IF s = "status" THEN 2 ELSE 1]
  /\ appends = {} /\ run = FirstRun /\ endedAt = 0
  /\ holder = Nobody /\ wpc = [w \in Writer |-> "ready"]
  /\ reply = [w \in Writer |-> NoReply]
  /\ spc = "off" /\ tasks \in BOOLEAN /\ phase = 1 /\ at = "status"
  /\ snap = NoSnap
  /\ cur = Zero /\ until = Zero /\ rows = {} /\ inspect = 0 /\ progress = FALSE
  /\ listening = FALSE /\ queue = {}
  /\ cpc = "idle" /\ cursor = 0 /\ seen = {} /\ history = {}
  /\ shown = [final |-> FALSE, version |-> 0]
  /\ faults = 0

Fault == faults < MaxFaults /\ faults' = faults + 1

\* pg_notify: the listeners of the channel get it when the transaction commits.
Notify(s) == queue' = IF listening THEN queue \cup {s} ELSE queue

-----------------------------------------------------------------------------
(* AppendTx *)

Unlocked == holder = Nobody

\* LockLogStream, after CreateLogStream when the stream is new.
Lock(w) ==
  /\ wpc[w] = "ready" /\ Unlocked
  /\ holder' = w /\ wpc' = [wpc EXCEPT ![w] = "locked"]
  /\ reply' = [reply EXCEPT ![w] = [first |-> next["task_log"],
                                    last |-> End("task_log") + Len(Entries[w])]]
  /\ UNCHANGED <<tables, tasks, server, listener, page, faults>>

PreviousBug(w) == {}

\* GetLogAppend, under the lock.
Previous(w) == {p \in appends : AppendId[w] # NoId /\ p.id = AppendId[w]}

\* The id was used before: the original range is returned, or the request is
\* refused when the values differ.
Repeat(w) ==
  /\ wpc[w] = "locked" /\ holder' = Nobody
  /\ \E p \in Previous(w) :
       IF p.entries = Entries[w]
       THEN /\ wpc' = [wpc EXCEPT ![w] = "answered"]
            /\ reply' = [reply EXCEPT ![w] = p.range]
       ELSE wpc' = [wpc EXCEPT ![w] = "refused"] /\ UNCHANGED reply
  /\ UNCHANGED <<tables, tasks, server, listener, page, faults>>

Inserted(w) ==
  {Event(reply[w].first + i - 1, Entries[w][i].key,
         [id |-> AppendId[w], index |-> i, value |-> Entries[w][i].value]) :
     i \in DOMAIN Entries[w]}

\* The records, the new next_seq and the request's record are committed together.
\* The answer may be lost.
Commit(w) ==
  /\ wpc[w] = "locked" /\ Previous(w) = {}
  /\ log' = [log EXCEPT !["task_log"] = @ \cup Inserted(w)]
  /\ next' = [next EXCEPT !["task_log"] = reply[w].last + 1]
  /\ appends' = IF AppendId[w] = NoId THEN appends
                ELSE appends \cup {[id |-> AppendId[w], entries |-> Entries[w],
                                    range |-> reply[w]]}
  /\ Notify("task_log") /\ holder' = Nobody
  /\ \/ wpc' = [wpc EXCEPT ![w] = "answered"] /\ UNCHANGED faults
     \/ wpc' = [wpc EXCEPT ![w] = "unknown"] /\ Fault
  /\ UNCHANGED <<run, endedAt, reply, tasks, server, listening, page>>

\* A statement fails and the transaction is rolled back.
Rollback(w) ==
  /\ wpc[w] = "locked" /\ Fault
  /\ holder' = Nobody /\ wpc' = [wpc EXCEPT ![w] = "unknown"]
  /\ UNCHANGED <<tables, reply, tasks, server, listener, page>>

\* The caller does not know what happened and asks again.
Retry(w) ==
  /\ wpc[w] = "unknown" /\ wpc' = [wpc EXCEPT ![w] = "ready"]
  /\ UNCHANGED <<tables, holder, reply, tasks, server, listener, page, faults>>

-----------------------------------------------------------------------------
(* Transactions that change the run, and their status events *)

\* AppendActionStatus and AppendStatus in the transaction of the change.
Record(events, last) ==
  /\ log' = [log EXCEPT !["status"] = @ \cup events]
  /\ next' = [next EXCEPT !["status"] = last + 1]
  /\ Notify("status")
  /\ UNCHANGED <<appends, writers, tasks, server, listening, page, faults>>

\* graphStore.Transition of the root, or CancelRun. A root from the cache also
\* writes an action event.
Change(final, hit) ==
  LET changed == [final |-> final, version |-> run.version + 1]
      n == next["status"] IN
  /\ ~run.final /\ run.version < MaxVersions /\ (hit => final)
  /\ run' = changed /\ endedAt' = IF final THEN End("task_log") ELSE endedAt
  /\ IF hit THEN Record({Event(n, ActionKey, changed), Event(n + 1, StatusKey, changed)}, n + 1)
     ELSE Record({Event(n, StatusKey, changed)}, n)

\* graphStore.Transition or CreateTaskAction of another action of the run.
ActionEvent ==
  /\ Cardinality({r \in log["status"] : r.key = ActionKey}) < MaxEvents
  /\ Record({Event(next["status"], ActionKey, run)}, next["status"])
  /\ UNCHANGED <<run, endedAt>>

\* ResetRunActions: a new owner resets the row and writes no event.
Reset ==
  /\ ~run.final /\ run.version < MaxVersions
  /\ run' = [run EXCEPT !.version = @ + 1]
  /\ UNCHANGED <<log, next, appends, endedAt, writers, tasks, server, listener, page, faults>>

-----------------------------------------------------------------------------
(* watchRun *)

FromBug == Zero

\* The page asks for the records after its cursor.
From == [s \in Stream |-> IF s = "task_log" THEN cursor ELSE 0]

\* Subscribe starts to LISTEN before anything is read.
Connect ==
  /\ cpc = "idle" /\ cpc' = "on" /\ spc' = "snapshot" /\ phase' = 1
  /\ cur' = From /\ until' = Zero
  /\ listening' = TRUE /\ queue' = {}
  /\ UNCHANGED <<tables, writers, tasks, snap, batch, cursor, seen, history, shown, faults>>

\* ReadRun, the first statement of the RepeatableRead transaction.
Snapshot ==
  /\ spc = "snapshot" /\ spc' = "greet"
  /\ snap' = [run |-> run, end |-> End("status")]
  /\ UNCHANGED <<tables, writers, tasks, phase, cur, until, batch, listener, page, faults>>

BoundaryBug == End("status")

\* LogStreamEnd sees the same snapshot as ReadRun.
Boundary == snap.end

\* Run starts a round with the first cursor.
FirstRound == IF tasks THEN "task_log" ELSE "status"
StartRound == spc' = "read" /\ at' = FirstRound /\ progress' = FALSE

\* The handler returns without an error. The page is done if it saw the end.
Return(last) ==
  /\ spc' = "off" /\ listening' = FALSE /\ queue' = {}
  /\ cpc' = IF last.final THEN "done" ELSE "idle"

\* The snapshot is sent. Without task logs the events after it are next, with
\* them all events.
Greet ==
  /\ spc = "greet" /\ shown' = snap.run
  /\ snap' = [snap EXCEPT !.end = Boundary]
  /\ cur' = [cur EXCEPT !["status"] = IF tasks THEN 0 ELSE Boundary]
  /\ \/ /\ snap.run.final /\ ~tasks /\ Return(snap.run)
        /\ UNCHANGED <<phase, at, progress>>
     \/ /\ snap.run.final /\ tasks /\ phase' = 2 /\ spc' = "logEnd"
        /\ UNCHANGED <<at, progress, listener, cpc>>
     \/ ~snap.run.final /\ StartRound /\ UNCHANGED <<phase, listener, cpc>>
  /\ UNCHANGED <<tables, writers, tasks, until, rows, inspect, cursor, seen, history, faults>>

\* The streams' ends, read one after the other, bound phase 2.
LogEnd ==
  /\ spc = "logEnd" /\ spc' = "statusEnd"
  /\ until' = [until EXCEPT !["task_log"] = End("task_log")]
  /\ UNCHANGED <<tables, writers, tasks, snap, phase, cur, batch, listener, page, faults>>

StatusEnd ==
  /\ spc = "statusEnd" /\ StartRound
  /\ until' = [until EXCEPT !["status"] = End("status")]
  /\ UNCHANGED <<tables, writers, tasks, snap, phase, cur, rows, inspect, listener, page, faults>>

-----------------------------------------------------------------------------
(* Subscription.Run *)

\* The cursor's prefix: for events of the run alone, or of its actions too.
Selects(s, key) ==
  CASE s = "task_log" -> key \in Wanted
    [] s = "status" -> tasks \/ key = StatusKey

Candidates(s) == {r \in log[s] : r.seq > cur[s] /\ r.seq <= End(s) /\ Selects(s, r.key)}

\* The rows of ReadFilteredLogRecords: the candidates in the order of their
\* numbers, up to BatchSize of them ...
Batches(s) ==
  {m \in SUBSET Candidates(s) :
     /\ \A r \in m, q \in Candidates(s) : q.seq <= r.seq => q \in m
     /\ Cardinality(m) <= BatchSize /\ (Cardinality(m) # BatchSize => m = Candidates(s))}

ReachesBug(s, matched, n) == n = End(s)

\* ... and how far they reach: to the end, unless the batch is full.
Reaches(s, matched, n) ==
  IF Cardinality(matched) = BatchSize
  THEN \E r \in matched : n = r.seq /\ \A q \in matched : q.seq <= n
  ELSE n = End(s)

ExhaustedBug(s, c) == phase = 2

\* UntilSeq is reached.
Exhausted(s, c) == phase = 2 /\ c[s] >= until[s]
Cut(s, r) == phase = 2 /\ r.seq > until[s]

\* After the last cursor of a round, with the cursors at c: everything is sent,
\* or there was something new, or a notification is awaited.
NextCursor(c) ==
  \/ at = "task_log" /\ at' = "status" /\ spc' = "read" /\ UNCHANGED <<progress, listener, cpc>>
  \/ /\ at = "status"
     /\ \/ /\ \A s \in {FirstRound, "status"} : Exhausted(s, c)
           /\ Return(shown) /\ UNCHANGED <<at, progress>>
        \/ /\ \E s \in {FirstRound, "status"} : ~Exhausted(s, c)
           /\ IF progress THEN StartRound ELSE spc' = "wait" /\ UNCHANGED <<at, progress>>
           /\ UNCHANGED <<listener, cpc>>

Skip ==
  /\ spc = "read" /\ Exhausted(at, cur) /\ NextCursor(cur)
  /\ UNCHANGED <<tables, writers, tasks, snap, phase, cur, until, rows, inspect,
                 cursor, seen, history, shown, faults>>

\* One batch is read. Rows beyond UntilSeq are not sent.
Read ==
  /\ spc = "read" /\ ~Exhausted(at, cur) /\ spc' = "send"
  /\ \E matched \in Batches(at), reach \in 0..End(at) :
       LET kept == {r \in matched : ~Cut(at, r)} IN
       /\ Reaches(at, matched, reach) /\ rows' = kept
       /\ inspect' = IF kept # matched THEN until[at]
                     ELSE IF reach > cur[at] THEN reach ELSE cur[at]
       /\ progress' = (progress \/ (reach > cur[at] /\ (kept # {} \/ matched = {})))
  /\ UNCHANGED <<tables, writers, tasks, snap, phase, at, cur, until, listener, page, faults>>

\* Batches are sent in the order of their numbers.
Ready(r) == spc = "send" /\ r \in rows /\ \A q \in rows : r.seq <= q.seq

Sent(r) == rows' = rows \ {r} /\ cur' = [cur EXCEPT ![at] = r.seq]

\* A log record: the page skips what it has already.
SendLog(r) ==
  /\ Ready(r) /\ at = "task_log" /\ Sent(r)
  /\ IF r.seq <= cursor THEN UNCHANGED <<cursor, seen>>
     ELSE cursor' = r.seq /\ seen' = seen \cup {r}
  /\ UNCHANGED <<tables, writers, tasks, spc, snap, phase, at, until, inspect, progress,
                 listener, cpc, history, shown, faults>>

SendAction(r) ==
  /\ Ready(r) /\ at = "status" /\ r.key = ActionKey /\ Sent(r)
  /\ history' = history \cup {r}
  /\ UNCHANGED <<tables, writers, tasks, spc, snap, phase, at, until, inspect, progress,
                 listener, cpc, cursor, seen, shown, faults>>

StaleBug(r) == phase = 2

\* The snapshot covers the event, or the run has ended.
Stale(r) == phase = 2 \/ r.seq <= snap.end

Drop(r) ==
  /\ Ready(r) /\ at = "status" /\ r.key = StatusKey /\ Stale(r) /\ Sent(r)
  /\ UNCHANGED <<tables, writers, tasks, spc, snap, phase, at, until, inspect, progress,
                 listener, page, faults>>

\* A change of the run is sent. The terminal one ends phase 1 (ErrStop).
SendRun(r) ==
  /\ Ready(r) /\ at = "status" /\ r.key = StatusKey /\ ~Stale(r)
  /\ shown' = r.value /\ cur' = [cur EXCEPT !["status"] = r.seq]
  /\ \/ /\ ~r.value.final /\ rows' = rows \ {r}
        /\ UNCHANGED <<spc, phase, inspect, listener, cpc>>
     \/ /\ r.value.final /\ tasks /\ rows' = {} /\ inspect' = 0 /\ phase' = 2
        /\ spc' = "logEnd" /\ UNCHANGED <<listener, cpc>>
     \/ /\ r.value.final /\ ~tasks /\ rows' = {} /\ inspect' = 0 /\ Return(r.value)
        /\ UNCHANGED phase
  /\ UNCHANGED <<tables, writers, tasks, snap, at, until, progress,
                 cursor, seen, history, faults>>

Advance ==
  /\ spc = "send" /\ rows = {}
  /\ cur' = [cur EXCEPT ![at] = inspect] /\ NextCursor(cur') /\ inspect' = 0
  /\ UNCHANGED <<tables, writers, tasks, snap, phase, until, rows,
                 cursor, seen, history, shown, faults>>

Awaited == {FirstRound, "status"}

\* WaitForNotification. One for another stream is passed over; one for a cursor's
\* stream starts a round, and those received with it are drained.
Notified(s) ==
  /\ spc = "wait" /\ listening /\ s \in queue
  /\ \/ s \notin Awaited /\ queue' = queue \ {s} /\ UNCHANGED <<spc, at, progress>>
     \/ /\ s \in Awaited /\ StartRound
        /\ \E rest \in SUBSET (queue \ {s}) : queue' = rest
  /\ UNCHANGED <<tables, writers, tasks, snap, phase, cur, until, rows, inspect, listening,
                 page, faults>>

ResumedBug == spc' = "wait" /\ UNCHANGED <<at, progress>>

Resumed == StartRound

\* reconnect: LISTEN on a new connection, then a new round.
Reconnect ==
  /\ spc = "wait" /\ ~listening
  /\ listening' = TRUE /\ queue' = {} /\ Resumed
  /\ UNCHANGED <<tables, writers, tasks, snap, phase, cur, until, rows, inspect, page, faults>>

-----------------------------------------------------------------------------
(* Lost connections *)

\* The LISTEN connection breaks, and with it what it had queued.
LoseListener ==
  /\ listening /\ Fault /\ listening' = FALSE /\ queue' = {}
  /\ UNCHANGED <<tables, writers, tasks, server, page>>

\* The stream to the page breaks, or a query of the handler fails. The page
\* connects again, unless it had seen the run's end: then it reports the error.
Disconnect ==
  /\ cpc = "on" /\ Fault /\ spc' = "off" /\ listening' = FALSE /\ queue' = {}
  /\ cpc' = IF shown.final THEN "failed" ELSE "idle"
  /\ snap' = NoSnap /\ phase' = 1 /\ cur' = Zero /\ until' = Zero
  /\ at' = "status" /\ rows' = {} /\ inspect' = 0 /\ progress' = FALSE
  /\ UNCHANGED <<tables, writers, tasks, cursor, seen, history, shown>>

-----------------------------------------------------------------------------

WriterStep == \E w \in Writer : Lock(w) \/ Repeat(w) \/ Commit(w) \/ Rollback(w) \/ Retry(w)
RunStep == (\E final, hit \in BOOLEAN : Change(final, hit)) \/ ActionEvent \/ Reset
Send == \E r \in rows : SendLog(r) \/ SendAction(r) \/ Drop(r) \/ SendRun(r)
Watch ==
  \/ Connect \/ Snapshot \/ Greet \/ LogEnd \/ StatusEnd
  \/ Skip \/ Read \/ Send \/ Advance
  \/ (\E s \in Stream : Notified(s)) \/ Reconnect

Next == WriterStep \/ RunStep \/ Watch \/ LoseListener \/ Disconnect

Spec == Init /\ [][Next]_vars

\* The handler and the page go on as long as they can.
FairSpec == Spec /\ WF_vars(Watch)

-----------------------------------------------------------------------------
(* Properties *)

Mine(r) == r.key \in Wanted

\* At any moment, whatever batches, filters, lost connections and transactions in
\* flight there were, the page has all the wanted log records up to its cursor:
\* none is passed over because it was committed, or its connection was lost, at
\* the wrong moment (Subscription.Run, watch-run.ts).
NothingSkipped == seen = {r \in log["task_log"] : Mine(r) /\ r.seq <= cursor}

\* The server never sends a page a log record it has: the page's own test
\* (watch-run.ts:30) is never needed.
SentOnce == (spc = "send" /\ at = "task_log") => \A r \in rows : r.seq > cursor

\* A page that is done shows the run as it ended, and has all the wanted log
\* records and action events that were committed before the run ended (watchRun,
\* both phases).
DoneIsComplete ==
  cpc = "done" =>
    /\ shown = run /\ run.final
    /\ tasks => /\ \A r \in log["task_log"] : Mine(r) /\ r.seq <= endedAt => r \in seen
                /\ \A e \in log["status"] : \A r \in log["status"] :
                     e.key = StatusKey /\ e.value.final /\ r.key = ActionKey /\ r.seq < e.seq
                       => r \in history

\* A request with an append_id leaves one copy of each of its entries, however
\* often it is repeated and whoever repeats it, and each answer names the records
\* that hold the entries (AppendTx).
AppendedOnce ==
  /\ \A r, q \in log["task_log"] :
       r.value.id # NoId /\ r.value.id = q.value.id /\ r.value.index = q.value.index => r = q
  /\ \A w \in Writer : wpc[w] = "answered" =>
       \A i \in DOMAIN Entries[w] :
         \E r \in log["task_log"] :
           /\ r.seq = reply[w].first + i - 1 /\ r.seq <= reply[w].last
           /\ r.value = [id |-> AppendId[w], index |-> i, value |-> Entries[w][i].value]

\* What the page shows of the run never goes back to an earlier version, also
\* across the snapshot, the events replayed after it, and a new connection.
NeverBackwards == [][shown'.version >= shown.version]_vars

Over == cpc \in {"done", "failed"}

\* A page whose run ends comes to an end too: no notification is lost between a
\* read and the wait that follows it, or while the listener is away.
WatchEnds == run.final ~> Over

\* The page has every committed record it wants again and again, until it is over:
\* no record stays unseen because its notification came at the wrong moment.
CatchesUp == []<>(tasks => Over \/ seen = {r \in log["task_log"] : Mine(r)})

=============================================================================
