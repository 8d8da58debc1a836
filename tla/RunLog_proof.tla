---------------------------- MODULE RunLog_proof ----------------------------
(***************************************************************************)
(* Proofs about RunLog, for any requests, keys, batch size and bounds: its *)
(* types, that a watch delivers every record once and has them all when it *)
(* is done, that an append counts once, and that a page never goes back.   *)
(***************************************************************************)
EXTENDS RunLog, TLAPS

(***************************************************************************)
(* Types. The lock makes the range that a writer was given the next one.   *)
(***************************************************************************)

Locked ==
  /\ \A w \in Writer : wpc[w] = "locked" => holder = w
  /\ \A w \in Writer : wpc[w] = "locked" =>
       /\ reply[w].first = next["task_log"]
       /\ reply[w].last = next["task_log"] + Len(Entries[w]) - 1

LEMMA Bump == ASSUME NEW f \in [Stream -> Nat \ {0}], NEW s \in Stream, NEW v \in Nat \ {0}
              PROVE  [f EXCEPT ![s] = v] \in [Stream -> Nat \ {0}]
OBVIOUS

LEMMA Streams == Stream = {"task_log", "status"} BY DEF Stream

LEMMA InitTypes == Init => TypeOK /\ Locked
<1> SUFFICES ASSUME Init PROVE TypeOK /\ Locked OBVIOUS
<1> USE LogAssumption DEF Init, Stream, End, Row, FirstRun
<1>1. TablesOK
  <2>1. next \in [Stream -> Nat \ {0}] OBVIOUS
  <2>2. log = [s \in Stream |-> log[s]] OBVIOUS
  <2>3. log["status"] = {Event(1, StatusKey, FirstRun)} /\ log["task_log"] = {} OBVIOUS
  <2>4. \A r \in log["status"] : r.seq = 1 /\ r.value = FirstRun BY <2>3 DEF Event
  <2>5. \A s \in Stream : \A r \in log[s] : r.seq \in 1..End(s) BY <2>3, <2>4
  <2>6. run \in Row /\ endedAt \in Nat /\ appends = {} OBVIOUS
  <2> QED BY <2>1, <2>2, <2>4, <2>5, <2>6 DEF TablesOK
<1>2. WritersOK BY DEF WritersOK, NoReply, Range
<1>3. WatchOK
  <2>1. snap \in [run : Row, end : Nat] /\ shown \in Row BY DEF NoSnap
  <2>2. tasks \in BOOLEAN OBVIOUS
  <2>3. cpc = "idle" /\ spc = "off" OBVIOUS
  <2>4. cpc = "on" <=> spc # "off" BY <2>3
  <2>5. phase \in 1..2 /\ at \in Stream /\ queue \subseteq Stream /\ faults \in 0..MaxFaults OBVIOUS
  <2>6. progress \in BOOLEAN /\ listening \in BOOLEAN OBVIOUS
  <2> QED BY <2>1, <2>2, <2>3, <2>4, <2>5, <2>6 DEF WatchOK
<1>4. BoundsOK BY DEF BoundsOK, Zero, NoSnap
<1>5. Locked BY DEF Locked
<1> QED BY <1>1, <1>2, <1>3, <1>4, <1>5 DEF TypeOK

LEMMA TablesStep == TypeOK /\ Locked /\ [Next]_vars => TablesOK'
<1> SUFFICES ASSUME TypeOK /\ Locked, [Next]_vars PROVE TablesOK' OBVIOUS
<1>0. TablesOK /\ WritersOK BY DEF TypeOK
<1>1. ASSUME NEW w \in Writer, Lock(w) PROVE TablesOK'
  BY <1>0, <1>1 DEF Lock, TablesOK, End, tables
<1>2. ASSUME NEW w \in Writer, Repeat(w) PROVE TablesOK'
  BY <1>0, <1>2 DEF Repeat, TablesOK, End, tables
<1>3. ASSUME NEW w \in Writer, Commit(w) PROVE TablesOK'
  <2>0. PICK n \in Nat \ {0} : n = Len(Entries[w]) BY LogAssumption
  <2>1. /\ reply[w].first = next["task_log"] /\ reply[w].last = next["task_log"] + n - 1
    BY <1>3, <2>0 DEF Commit, Locked
  <2>2. next["task_log"] \in Nat \ {0} /\ next["status"] \in Nat \ {0} BY <1>0 DEF TablesOK, Stream
  <2>3. next' = [next EXCEPT !["task_log"] = next["task_log"] + n] 
    <3>1. reply[w].last + 1 = next["task_log"] + n BY <2>1, <2>2
    <3> QED BY <1>3, <3>1 DEF Commit
  <2>4. next' \in [Stream -> Nat \ {0}]
    <3>1. next["task_log"] + n \in Nat \ {0} BY <2>2
    <3> QED BY <1>0, <2>3, <3>1, Bump, Streams DEF TablesOK
  <2>5. log' = [log EXCEPT !["task_log"] = log["task_log"] \cup Inserted(w)] BY <1>3 DEF Commit
  <2>6. log' = [s \in Stream |-> log'[s]] BY <1>0, <2>5 DEF TablesOK
  <2>7. log'["task_log"] = log["task_log"] \cup Inserted(w) /\ log'["status"] = log["status"]
    BY <1>0, <2>5 DEF TablesOK, Stream
  <2>8. \A r \in Inserted(w) : r.seq \in next["task_log"]..(next["task_log"] + n - 1)
    BY <2>0, <2>1, <2>2, LogAssumption DEF Inserted, Event
  <2>9. \A s \in Stream : \A r \in log'[s] : r.seq \in 1..(next'[s] - 1)
    BY <1>0, <2>2, <2>3, <2>7, <2>8 DEF TablesOK, Stream, End
  <2>10. \A r \in log'["status"] : r.value \in Row BY <1>0, <2>7 DEF TablesOK
  <2>11. run' \in Row /\ endedAt' \in Nat BY <1>0, <1>3 DEF Commit, TablesOK
  <2>12. appends' = appends \/ appends' = appends \cup {[id |-> AppendId[w], entries |-> Entries[w], range |-> reply[w]]}
    BY <1>3 DEF Commit
  <2>13. reply[w] \in Range BY <1>0 DEF WritersOK
  <2>14. \A p \in appends' : p.range \in Range BY <1>0, <2>12, <2>13 DEF TablesOK
  <2> QED BY <2>4, <2>6, <2>9, <2>10, <2>11, <2>14 DEF TablesOK, End
<1>4. ASSUME NEW w \in Writer, Rollback(w) PROVE TablesOK'
  BY <1>0, <1>4 DEF Rollback, TablesOK, End, tables
<1>5. ASSUME NEW w \in Writer, Retry(w) PROVE TablesOK'
  BY <1>0, <1>5 DEF Retry, TablesOK, End, tables
<1>6. ASSUME NEW final \in BOOLEAN, NEW hit \in BOOLEAN, Change(final, hit) PROVE TablesOK'
  <2> DEFINE changed == [final |-> final, version |-> run.version + 1]
  <2> DEFINE n == next["status"]
  <2>1. n \in Nat \ {0} /\ next["task_log"] \in Nat \ {0} BY <1>0 DEF TablesOK, Stream
  <2>2. changed \in Row /\ run' = changed BY <1>0, <1>6 DEF Change, TablesOK, Row
  <2>a. \E last \in Nat : \E events :
          /\ Record(events, last) /\ last >= n
          /\ \A r \in events : r.seq \in n..last /\ r.value = changed
    <3>1. CASE hit
      <4>1. Record({Event(n, ActionKey, changed), Event(n + 1, StatusKey, changed)}, n + 1)
        BY <1>6, <3>1 DEF Change
      <4>2. \A r \in {Event(n, ActionKey, changed), Event(n + 1, StatusKey, changed)} :
              r.seq \in n..(n + 1) /\ r.value = changed
        BY <2>1 DEF Event
      <4> HIDE DEF changed, n
      <4> QED BY <2>1, <4>1, <4>2
    <3>2. CASE ~hit
      <4>1. Record({Event(n, StatusKey, changed)}, n) BY <1>6, <3>2 DEF Change
      <4>2. \A r \in {Event(n, StatusKey, changed)} : r.seq \in n..n /\ r.value = changed
        BY <2>1 DEF Event
      <4> HIDE DEF changed, n
      <4> QED BY <2>1, <4>1, <4>2
    <3> QED BY <3>1, <3>2
  <2>b. PICK last \in Nat : \E events :
          /\ Record(events, last) /\ last >= n
          /\ \A r \in events : r.seq \in n..last /\ r.value = changed
    BY <2>a
  <2>3. PICK events :
          /\ Record(events, last) /\ last >= n
          /\ \A r \in events : r.seq \in n..last /\ r.value = changed
    BY <2>b
  <2>4. next' = [next EXCEPT !["status"] = last + 1] BY <2>3 DEF Record
  <2>5. next' \in [Stream -> Nat \ {0}]
    <3>1. last + 1 \in Nat \ {0} OBVIOUS
    <3> QED BY <1>0, <2>4, <3>1, Bump, Streams DEF TablesOK
  <2>6. log' = [log EXCEPT !["status"] = log["status"] \cup events] BY <2>3 DEF Record
  <2>7. log' = [s \in Stream |-> log'[s]] BY <1>0, <2>6 DEF TablesOK
  <2>8. log'["task_log"] = log["task_log"] /\ log'["status"] = log["status"] \cup events
    BY <1>0, <2>6 DEF TablesOK, Stream
  <2> HIDE DEF changed, n
  <2>9. \A s \in Stream : \A r \in log'[s] : r.seq \in 1..(next'[s] - 1)
    BY <1>0, <2>1, <2>3, <2>4, <2>8 DEF TablesOK, Stream, End, n
  <2>10. \A r \in log'["status"] : r.value \in Row BY <1>0, <2>2, <2>3, <2>8 DEF TablesOK
  <2>11. endedAt' \in Nat BY <1>0, <2>1, <1>6 DEF Change, TablesOK, End
  <2>12. appends' = appends BY <2>3 DEF Record
  <2> QED BY <1>0, <2>2, <2>5, <2>7, <2>9, <2>10, <2>11, <2>12 DEF TablesOK, End
<1>7. ASSUME ActionEvent PROVE TablesOK'
  <2> DEFINE n == next["status"]
  <2> DEFINE event == Event(n, ActionKey, run)
  <2>1. n \in Nat \ {0} /\ next["task_log"] \in Nat \ {0} BY <1>0 DEF TablesOK, Stream
  <2>2. event.seq = n /\ event.value = run BY DEF Event
  <2>4. next' = [next EXCEPT !["status"] = n + 1] BY <1>7 DEF ActionEvent, Record
  <2>5. next' \in [Stream -> Nat \ {0}]
    <3>1. n + 1 \in Nat \ {0} BY <2>1
    <3> QED BY <1>0, <2>4, <3>1, Bump, Streams DEF TablesOK
  <2>6. log' = [log EXCEPT !["status"] = log["status"] \cup {event}] BY <1>7 DEF ActionEvent, Record
  <2>7. log' = [s \in Stream |-> log'[s]] BY <1>0, <2>6 DEF TablesOK
  <2>8. log'["task_log"] = log["task_log"] /\ log'["status"] = log["status"] \cup {event}
    BY <1>0, <2>6 DEF TablesOK, Stream
  <2> HIDE DEF event
  <2>9. \A s \in Stream : \A r \in log'[s] : r.seq \in 1..(next'[s] - 1)
    BY <1>0, <2>1, <2>2, <2>4, <2>8 DEF TablesOK, Stream, End
  <2>10. \A r \in log'["status"] : r.value \in Row BY <1>0, <2>2, <2>8 DEF TablesOK
  <2>11. run' \in Row /\ endedAt' \in Nat BY <1>0, <1>7 DEF ActionEvent, TablesOK
  <2>12. appends' = appends BY <1>7 DEF ActionEvent, Record
  <2> QED BY <1>0, <2>5, <2>7, <2>9, <2>10, <2>11, <2>12 DEF TablesOK, End
<1>8. ASSUME Reset PROVE TablesOK'
  BY <1>0, <1>8 DEF Reset, TablesOK, End, Row
<1>9. ASSUME Connect PROVE TablesOK'
  BY <1>0, <1>9 DEF Connect, TablesOK, End, tables
<1>10. ASSUME Snapshot PROVE TablesOK'
  BY <1>0, <1>10 DEF Snapshot, TablesOK, End, tables
<1>11. ASSUME Greet PROVE TablesOK'
  BY <1>0, <1>11 DEF Greet, TablesOK, End, tables
<1>12. ASSUME LogEnd PROVE TablesOK'
  BY <1>0, <1>12 DEF LogEnd, TablesOK, End, tables
<1>13. ASSUME StatusEnd PROVE TablesOK'
  BY <1>0, <1>13 DEF StatusEnd, TablesOK, End, tables
<1>14. ASSUME Skip PROVE TablesOK'
  BY <1>0, <1>14 DEF Skip, TablesOK, End, tables
<1>15. ASSUME Read PROVE TablesOK'
  BY <1>0, <1>15 DEF Read, TablesOK, End, tables
<1>16. ASSUME NEW r \in rows, SendLog(r) PROVE TablesOK'
  BY <1>0, <1>16 DEF SendLog, TablesOK, End, tables
<1>17. ASSUME NEW r \in rows, SendAction(r) PROVE TablesOK'
  BY <1>0, <1>17 DEF SendAction, TablesOK, End, tables
<1>18. ASSUME NEW r \in rows, Drop(r) PROVE TablesOK'
  BY <1>0, <1>18 DEF Drop, TablesOK, End, tables
<1>19. ASSUME NEW r \in rows, SendRun(r) PROVE TablesOK'
  BY <1>0, <1>19 DEF SendRun, TablesOK, End, tables
<1>20. ASSUME Advance PROVE TablesOK'
  BY <1>0, <1>20 DEF Advance, TablesOK, End, tables
<1>21. ASSUME NEW s \in Stream, Notified(s) PROVE TablesOK'
  BY <1>0, <1>21 DEF Notified, TablesOK, End, tables
<1>22. ASSUME Reconnect PROVE TablesOK'
  BY <1>0, <1>22 DEF Reconnect, TablesOK, End, tables
<1>23. ASSUME LoseListener PROVE TablesOK'
  BY <1>0, <1>23 DEF LoseListener, TablesOK, End, tables
<1>24. ASSUME Disconnect PROVE TablesOK'
  BY <1>0, <1>24 DEF Disconnect, TablesOK, End, tables
<1>25. ASSUME UNCHANGED vars PROVE TablesOK'
  BY <1>0, <1>25 DEF vars, TablesOK, End, tables
<1> QED BY <1>1, <1>2, <1>3, <1>4, <1>5, <1>6, <1>7, <1>8, <1>9, <1>10, <1>11, <1>12, <1>13, <1>14, <1>15, <1>16, <1>17, <1>18, <1>19, <1>20, <1>21, <1>22, <1>23, <1>24, <1>25 DEF Next, WriterStep, RunStep, Watch, Send

LEMMA WritersStep == TypeOK /\ Locked /\ [Next]_vars => WritersOK' /\ Locked'
<1> SUFFICES ASSUME TypeOK /\ Locked, [Next]_vars PROVE WritersOK' /\ Locked' OBVIOUS
<1>0. TablesOK /\ WritersOK BY DEF TypeOK
<1>a. next["task_log"] \in Nat \ {0} BY <1>0 DEF TablesOK, Stream
<1>b. \A w \in Writer : Len(Entries[w]) \in Nat \ {0} BY LogAssumption
<1>c. next = [s \in Stream |-> next[s]] BY <1>0 DEF TablesOK
<1>1. ASSUME NEW w \in Writer, Lock(w) PROVE WritersOK' /\ Locked'
  <2>1. WritersOK' BY <1>0, <1>a, <1>b, <1>1 DEF Lock, WritersOK, Range, End
  <2>2. \A v \in Writer : wpc[v] # "locked" BY <1>0, <1>1, LogAssumption DEF Lock, Locked, Unlocked, WritersOK
  <2>3. \A v \in Writer : wpc'[v] = "locked" => v = w BY <1>0, <2>2, <1>1 DEF Lock, WritersOK
  <2>4. reply'[w] = [first |-> next["task_log"], last |-> next["task_log"] - 1 + Len(Entries[w])]
    BY <1>0, <1>1 DEF Lock, WritersOK, End
  <2>5. next' = next /\ holder' = w BY <1>1 DEF Lock, tables
  <2>6. Locked'
    <3>1. reply'[w].first = next["task_log"] /\ reply'[w].last = next["task_log"] - 1 + Len(Entries[w])
      BY <2>4
    <3>2. reply'[w].last = next["task_log"] + Len(Entries[w]) - 1 BY <1>a, <1>b, <3>1
    <3> QED BY <2>3, <2>5, <3>1, <3>2 DEF Locked
  <2> QED BY <2>1, <2>6
<1>2. ASSUME NEW w \in Writer, Repeat(w) PROVE WritersOK' /\ Locked'
  <2>1. \A v \in Writer : wpc[v] = "locked" => v = w BY <1>2 DEF Repeat, Locked
  <2>2. \A v \in Writer : wpc'[v] # "locked" BY <1>0, <1>2, <2>1 DEF Repeat, WritersOK
  <2>3. PICK p \in Previous(w) :
          IF p.entries = Entries[w]
          THEN wpc' = [wpc EXCEPT ![w] = "answered"] /\ reply' = [reply EXCEPT ![w] = p.range]
          ELSE wpc' = [wpc EXCEPT ![w] = "refused"] /\ UNCHANGED reply
    BY <1>2 DEF Repeat
  <2>4. p.range \in Range BY <1>0, <2>3 DEF Previous, TablesOK
  <2>5. holder' = Nobody BY <1>2 DEF Repeat
  <2>6. WritersOK' BY <1>0, <2>3, <2>4, <2>5 DEF WritersOK
  <2> QED BY <2>2, <2>6 DEF Locked
<1>3. ASSUME NEW w \in Writer, Commit(w) PROVE WritersOK' /\ Locked'
  <2>1. \A v \in Writer : wpc[v] = "locked" => v = w BY <1>3 DEF Commit, Locked
  <2>2. \A v \in Writer : wpc'[v] # "locked" BY <1>0, <1>3, <2>1 DEF Commit, WritersOK
  <2>3. WritersOK' BY <1>0, <1>3 DEF Commit, WritersOK
  <2> QED BY <2>2, <2>3 DEF Locked
<1>4. ASSUME NEW w \in Writer, Rollback(w) PROVE WritersOK' /\ Locked'
  <2>1. \A v \in Writer : wpc[v] = "locked" => v = w BY <1>4 DEF Rollback, Locked
  <2>2. \A v \in Writer : wpc'[v] # "locked" BY <1>0, <1>4, <2>1 DEF Rollback, WritersOK
  <2>3. WritersOK' BY <1>0, <1>4 DEF Rollback, WritersOK
  <2> QED BY <2>2, <2>3 DEF Locked
<1>5. ASSUME NEW w \in Writer, Retry(w) PROVE WritersOK' /\ Locked'
  BY <1>0, <1>5 DEF Retry, WritersOK, Locked, tables, writers
<1>6. ASSUME NEW final \in BOOLEAN, NEW hit \in BOOLEAN, Change(final, hit) PROVE WritersOK' /\ Locked'
  <2>1. UNCHANGED writers /\ next'["task_log"] = next["task_log"] BY <1>0, <1>c, <1>6 DEF Change, Record, Stream
  <2> QED BY <1>0, <2>1 DEF WritersOK, Locked, writers
<1>7. ASSUME ActionEvent PROVE WritersOK' /\ Locked'
  <2>1. UNCHANGED writers /\ next'["task_log"] = next["task_log"] BY <1>0, <1>c, <1>7 DEF ActionEvent, Record, Stream
  <2> QED BY <1>0, <2>1 DEF WritersOK, Locked, writers
<1>8. ASSUME Reset PROVE WritersOK' /\ Locked'
  BY <1>0, <1>8 DEF Reset, WritersOK, Locked, tables, writers
<1>9. ASSUME Connect PROVE WritersOK' /\ Locked'
  BY <1>0, <1>9 DEF Connect, WritersOK, Locked, tables, writers
<1>10. ASSUME Snapshot PROVE WritersOK' /\ Locked'
  BY <1>0, <1>10 DEF Snapshot, WritersOK, Locked, tables, writers
<1>11. ASSUME Greet PROVE WritersOK' /\ Locked'
  BY <1>0, <1>11 DEF Greet, WritersOK, Locked, tables, writers
<1>12. ASSUME LogEnd PROVE WritersOK' /\ Locked'
  BY <1>0, <1>12 DEF LogEnd, WritersOK, Locked, tables, writers
<1>13. ASSUME StatusEnd PROVE WritersOK' /\ Locked'
  BY <1>0, <1>13 DEF StatusEnd, WritersOK, Locked, tables, writers
<1>14. ASSUME Skip PROVE WritersOK' /\ Locked'
  BY <1>0, <1>14 DEF Skip, WritersOK, Locked, tables, writers
<1>15. ASSUME Read PROVE WritersOK' /\ Locked'
  BY <1>0, <1>15 DEF Read, WritersOK, Locked, tables, writers
<1>16. ASSUME NEW r \in rows, SendLog(r) PROVE WritersOK' /\ Locked'
  BY <1>0, <1>16 DEF SendLog, WritersOK, Locked, tables, writers
<1>17. ASSUME NEW r \in rows, SendAction(r) PROVE WritersOK' /\ Locked'
  BY <1>0, <1>17 DEF SendAction, WritersOK, Locked, tables, writers
<1>18. ASSUME NEW r \in rows, Drop(r) PROVE WritersOK' /\ Locked'
  BY <1>0, <1>18 DEF Drop, WritersOK, Locked, tables, writers
<1>19. ASSUME NEW r \in rows, SendRun(r) PROVE WritersOK' /\ Locked'
  BY <1>0, <1>19 DEF SendRun, WritersOK, Locked, tables, writers
<1>20. ASSUME Advance PROVE WritersOK' /\ Locked'
  BY <1>0, <1>20 DEF Advance, WritersOK, Locked, tables, writers
<1>21. ASSUME NEW s \in Stream, Notified(s) PROVE WritersOK' /\ Locked'
  BY <1>0, <1>21 DEF Notified, WritersOK, Locked, tables, writers
<1>22. ASSUME Reconnect PROVE WritersOK' /\ Locked'
  BY <1>0, <1>22 DEF Reconnect, WritersOK, Locked, tables, writers
<1>23. ASSUME LoseListener PROVE WritersOK' /\ Locked'
  BY <1>0, <1>23 DEF LoseListener, WritersOK, Locked, tables, writers
<1>24. ASSUME Disconnect PROVE WritersOK' /\ Locked'
  BY <1>0, <1>24 DEF Disconnect, WritersOK, Locked, tables, writers
<1>25. ASSUME UNCHANGED vars PROVE WritersOK' /\ Locked'
  BY <1>0, <1>25 DEF vars, WritersOK, Locked, tables, writers
<1> QED BY <1>1, <1>2, <1>3, <1>4, <1>5, <1>6, <1>7, <1>8, <1>9, <1>10, <1>11, <1>12, <1>13, <1>14, <1>15, <1>16, <1>17, <1>18, <1>19, <1>20, <1>21, <1>22, <1>23, <1>24, <1>25 DEF Next, WriterStep, RunStep, Watch, Send

LEMMA WatchStep == TypeOK /\ [Next]_vars => WatchOK'
<1> SUFFICES ASSUME TypeOK, [Next]_vars PROVE WatchOK' OBVIOUS
<1>0. WatchOK /\ TablesOK /\ BoundsOK BY DEF TypeOK
<1>a. \A s \in Stream : End(s) \in Nat BY <1>0 DEF TablesOK, End
<1>b. FirstRound \in Stream BY Streams DEF FirstRound
<1>c. Fault => faults' \in 0..MaxFaults BY <1>0, LogAssumption DEF WatchOK, Fault
<1>1. ASSUME NEW w \in Writer, Lock(w) PROVE WatchOK'
  BY <1>0, <1>a, <1>b, <1>c, Streams, <1>1 DEF Lock, WatchOK, tables, writers, batch, server, listener, page
<1>2. ASSUME NEW w \in Writer, Repeat(w) PROVE WatchOK'
  BY <1>0, <1>a, <1>b, <1>c, Streams, <1>2 DEF Repeat, WatchOK, tables, writers, batch, server, listener, page
<1>3. ASSUME NEW w \in Writer, Commit(w) PROVE WatchOK'
  <2>1. faults' \in 0..MaxFaults BY <1>0, <1>c, <1>3 DEF Commit, WatchOK
  <2>2. UNCHANGED <<spc, tasks, phase, at, snap, shown, progress, listening, cpc>> BY <1>3 DEF Commit, server, batch, page
  <2>3. queue' \subseteq Stream BY <1>0, Streams, <1>3 DEF Commit, Notify, WatchOK
  <2> QED BY <1>0, <2>1, <2>2, <2>3 DEF WatchOK
<1>4. ASSUME NEW w \in Writer, Rollback(w) PROVE WatchOK'
  BY <1>0, <1>a, <1>b, <1>c, Streams, <1>4 DEF Rollback, WatchOK, tables, writers, batch, server, listener, page
<1>5. ASSUME NEW w \in Writer, Retry(w) PROVE WatchOK'
  BY <1>0, <1>a, <1>b, <1>c, Streams, <1>5 DEF Retry, WatchOK, tables, writers, batch, server, listener, page
<1>6. ASSUME NEW final \in BOOLEAN, NEW hit \in BOOLEAN, Change(final, hit) PROVE WatchOK'
  BY <1>0, Streams, <1>6 DEF Change, Record, WatchOK, batch, server, page, Fault, Notify
<1>7. ASSUME ActionEvent PROVE WatchOK'
  BY <1>0, Streams, <1>7 DEF ActionEvent, Record, WatchOK, batch, server, page, Fault, Notify
<1>8. ASSUME Reset PROVE WatchOK'
  BY <1>0, <1>a, <1>b, <1>c, Streams, <1>8 DEF Reset, WatchOK, tables, writers, batch, server, listener, page
<1>9. ASSUME Connect PROVE WatchOK'
  BY <1>0, <1>a, <1>b, <1>c, Streams, <1>9 DEF Connect, WatchOK, tables, writers, batch, server, listener, page
<1>10. ASSUME Snapshot PROVE WatchOK'
  BY <1>0, <1>a, Streams, <1>10 DEF Snapshot, WatchOK, TablesOK, batch, listener, page
<1>11. ASSUME Greet PROVE WatchOK'
  <2>1. snap.run \in Row /\ snap.end \in Nat /\ snap' = snap
    BY <1>0, <1>11 DEF Greet, Boundary, WatchOK
  <2>2. shown' \in Row /\ snap' \in [run : Row, end : Nat] BY <1>0, <2>1, <1>11 DEF Greet, WatchOK
  <2>3. UNCHANGED <<tasks, faults>> /\ spc = "greet" /\ cpc = "on" BY <1>0, <1>11 DEF Greet, WatchOK
  <2>4. CASE snap.run.final /\ ~tasks /\ Return(snap.run) /\ UNCHANGED <<phase, at, progress>>
    BY <1>0, <2>2, <2>3, <2>4 DEF WatchOK, Return
  <2>5. CASE phase' = 2 /\ spc' = "logEnd" /\ UNCHANGED <<at, progress, listener, cpc>>
    BY <1>0, <2>2, <2>3, <2>5 DEF WatchOK, listener
  <2>6. CASE StartRound /\ UNCHANGED <<phase, listener, cpc>>
    BY <1>0, <1>b, <2>2, <2>3, <2>6 DEF WatchOK, listener, StartRound
  <2> QED BY <2>4, <2>5, <2>6, <1>11 DEF Greet
<1>12. ASSUME LogEnd PROVE WatchOK'
  BY <1>0, <1>a, <1>b, <1>c, Streams, <1>12 DEF LogEnd, WatchOK, tables, writers, batch, server, listener, page
<1>13. ASSUME StatusEnd PROVE WatchOK'
  BY <1>0, <1>b, <1>13 DEF StatusEnd, WatchOK, StartRound, listener, page
<1>14. ASSUME Skip PROVE WatchOK'
  BY <1>0, <1>b, Streams, <1>14 DEF Skip, NextCursor, WatchOK, Return, StartRound, listener, page
<1>15. ASSUME Read PROVE WatchOK'
  <2>1. progress' \in BOOLEAN BY <1>15 DEF Read
  <2>2. UNCHANGED <<tasks, snap, phase, at, listening, queue, cpc, shown, faults>> BY <1>15 DEF Read, listener, page
  <2>3. spc = "read" /\ spc' = "send" BY <1>15 DEF Read
  <2> QED BY <1>0, <2>1, <2>2, <2>3 DEF WatchOK
<1>16. ASSUME NEW r \in rows, SendLog(r) PROVE WatchOK'
  BY <1>0, <1>a, <1>b, <1>c, Streams, <1>16 DEF SendLog, WatchOK, tables, writers, batch, server, listener, page
<1>17. ASSUME NEW r \in rows, SendAction(r) PROVE WatchOK'
  BY <1>0, <1>a, <1>b, <1>c, Streams, <1>17 DEF SendAction, WatchOK, tables, writers, batch, server, listener, page
<1>18. ASSUME NEW r \in rows, Drop(r) PROVE WatchOK'
  BY <1>0, <1>a, <1>b, <1>c, Streams, <1>18 DEF Drop, WatchOK, tables, writers, batch, server, listener, page
<1>19. ASSUME NEW r \in rows, SendRun(r) PROVE WatchOK'
  <2>1. r \in log["status"] BY <1>0, <1>19 DEF SendRun, BoundsOK
  <2>2. r.value \in Row BY <1>0, <2>1 DEF TablesOK
  <2>3. spc = "send" BY <1>19 DEF SendRun, Ready
  <2>4. shown' \in Row /\ cpc = "on" BY <1>0, <2>2, <2>3, <1>19 DEF SendRun, WatchOK
  <2>5. UNCHANGED <<tasks, snap, at, progress, faults>> BY <1>19 DEF SendRun
  <2>6. CASE UNCHANGED <<spc, phase, inspect, listener, cpc>>
    BY <1>0, <2>4, <2>5, <2>6 DEF WatchOK, listener
  <2>7. CASE phase' = 2 /\ spc' = "logEnd" /\ UNCHANGED <<listener, cpc>>
    BY <1>0, <2>4, <2>5, <2>7 DEF WatchOK, listener
  <2>8. CASE Return(r.value) /\ UNCHANGED phase
    BY <1>0, <2>4, <2>5, <2>8 DEF WatchOK, Return
  <2> QED BY <2>6, <2>7, <2>8, <1>19 DEF SendRun
<1>20. ASSUME Advance PROVE WatchOK'
  BY <1>0, <1>b, Streams, <1>20 DEF Advance, NextCursor, WatchOK, Return, StartRound, listener, page
<1>21. ASSUME NEW s \in Stream, Notified(s) PROVE WatchOK'
  BY <1>0, <1>b, Streams, <1>21 DEF Notified, WatchOK, StartRound, page
<1>22. ASSUME Reconnect PROVE WatchOK'
  BY <1>0, <1>b, <1>22 DEF Reconnect, Resumed, WatchOK, StartRound, page
<1>23. ASSUME LoseListener PROVE WatchOK'
  BY <1>0, <1>a, <1>b, <1>c, Streams, <1>23 DEF LoseListener, WatchOK, tables, writers, batch, server, listener, page
<1>24. ASSUME Disconnect PROVE WatchOK'
  <2>1. faults' \in 0..MaxFaults BY <1>c, <1>24 DEF Disconnect
  <2>2. snap' \in [run : Row, end : Nat] BY <1>24 DEF Disconnect, NoSnap, FirstRun, Row
  <2>3. UNCHANGED <<tasks, shown>> /\ spc' = "off" /\ cpc' \in {"failed", "idle"} BY <1>24 DEF Disconnect
  <2>4. phase' = 1 /\ at' = "status" /\ progress' = FALSE /\ listening' = FALSE /\ queue' = {} BY <1>24 DEF Disconnect
  <2>5. cpc' \in {"idle", "on", "done", "failed"} /\ (cpc' = "on" <=> spc' # "off") BY <2>3
  <2>6. phase' \in 1..2 /\ at' \in Stream BY Streams, <2>4
  <2>7. progress' \in BOOLEAN /\ listening' \in BOOLEAN BY <2>4, Zenon
  <2> QED BY <1>0, <2>1, <2>2, <2>3, <2>4, <2>5, <2>6, <2>7 DEF WatchOK
<1>25. ASSUME UNCHANGED vars PROVE WatchOK'
  BY <1>0, <1>25 DEF vars, WatchOK, tables, writers, batch, server, listener, page
<1> QED BY <1>1, <1>2, <1>3, <1>4, <1>5, <1>6, <1>7, <1>8, <1>9, <1>10, <1>11, <1>12, <1>13, <1>14, <1>15, <1>16, <1>17, <1>18, <1>19, <1>20, <1>21, <1>22, <1>23, <1>24, <1>25 DEF Next, WriterStep, RunStep, Watch, Send

LEMMA Grows == TypeOK /\ Locked /\ [Next]_vars => \A s \in Stream : log[s] \subseteq log'[s] /\ End(s) <= End(s)'
<1> SUFFICES ASSUME TypeOK /\ Locked, [Next]_vars PROVE \A s \in Stream : log[s] \subseteq log'[s] /\ End(s) <= End(s)' OBVIOUS
<1>0. TablesOK BY DEF TypeOK
<1>a. \A s \in Stream : next[s] \in Nat \ {0} BY <1>0 DEF TablesOK
<1>b. log = [s \in Stream |-> log[s]] /\ next = [s \in Stream |-> next[s]] BY <1>0 DEF TablesOK
<1>1. ASSUME NEW w \in Writer, Lock(w) PROVE \A s \in Stream : log[s] \subseteq log'[s] /\ End(s) <= End(s)'
  BY <1>a, <1>1 DEF Lock, tables, End
<1>2. ASSUME NEW w \in Writer, Repeat(w) PROVE \A s \in Stream : log[s] \subseteq log'[s] /\ End(s) <= End(s)'
  BY <1>a, <1>2 DEF Repeat, tables, End
<1>3. ASSUME NEW w \in Writer, Commit(w) PROVE \A s \in Stream : log[s] \subseteq log'[s] /\ End(s) <= End(s)'
  <2>1. Len(Entries[w]) \in Nat \ {0} BY LogAssumption
  <2>2. reply[w].last = next["task_log"] + Len(Entries[w]) - 1 BY <1>3 DEF Commit, Locked
  <2>3. reply[w].last + 1 >= next["task_log"] /\ reply[w].last + 1 \in Nat BY <1>a, <2>1, <2>2, Streams
  <2>4. next' = [next EXCEPT !["task_log"] = reply[w].last + 1] BY <1>3 DEF Commit
  <2>5. \A s \in Stream : next'[s] >= next[s] /\ next'[s] \in Nat BY <1>a, <1>b, <2>3, <2>4
  <2>6. \A s \in Stream : log[s] \subseteq log'[s] BY <1>b, <1>3 DEF Commit
  <2> QED BY <1>a, <2>5, <2>6 DEF End
<1>4. ASSUME NEW w \in Writer, Rollback(w) PROVE \A s \in Stream : log[s] \subseteq log'[s] /\ End(s) <= End(s)'
  BY <1>a, <1>4 DEF Rollback, tables, End
<1>5. ASSUME NEW w \in Writer, Retry(w) PROVE \A s \in Stream : log[s] \subseteq log'[s] /\ End(s) <= End(s)'
  BY <1>a, <1>5 DEF Retry, tables, End
<1>6. ASSUME NEW final \in BOOLEAN, NEW hit \in BOOLEAN, Change(final, hit) PROVE \A s \in Stream : log[s] \subseteq log'[s] /\ End(s) <= End(s)'
  <2>1. PICK last \in Nat : \E events : Record(events, last) /\ last >= next["status"]
    <3>1. next["status"] \in Nat BY <1>a, Streams
    <3> QED BY <1>6, <3>1 DEF Change
  <2>2. PICK events : Record(events, last) BY <2>1
  <2>3. next' = [next EXCEPT !["status"] = last + 1] BY <2>2 DEF Record
  <2>4. \A s \in Stream : next'[s] >= next[s] /\ next'[s] \in Nat BY <1>a, <1>b, <2>1, <2>3, Streams
  <2>5. \A s \in Stream : log[s] \subseteq log'[s] BY <1>b, <2>2 DEF Record
  <2> QED BY <1>a, <2>4, <2>5 DEF End
<1>7. ASSUME ActionEvent PROVE \A s \in Stream : log[s] \subseteq log'[s] /\ End(s) <= End(s)'
  <2>1. next["status"] \in Nat BY <1>a, Streams
  <2>3. next' = [next EXCEPT !["status"] = next["status"] + 1] BY <1>7 DEF ActionEvent, Record
  <2>4. \A s \in Stream : next'[s] >= next[s] /\ next'[s] \in Nat BY <1>a, <1>b, <2>1, <2>3, Streams
  <2>5. \A s \in Stream : log[s] \subseteq log'[s] BY <1>b, <1>7 DEF ActionEvent, Record
  <2> QED BY <1>a, <2>4, <2>5 DEF End
<1>8. ASSUME Reset PROVE \A s \in Stream : log[s] \subseteq log'[s] /\ End(s) <= End(s)'
  BY <1>a, <1>8 DEF Reset, End
<1>9. ASSUME Connect PROVE \A s \in Stream : log[s] \subseteq log'[s] /\ End(s) <= End(s)'
  BY <1>a, <1>9 DEF Connect, tables, End
<1>10. ASSUME Snapshot PROVE \A s \in Stream : log[s] \subseteq log'[s] /\ End(s) <= End(s)'
  BY <1>a, <1>10 DEF Snapshot, tables, End
<1>11. ASSUME Greet PROVE \A s \in Stream : log[s] \subseteq log'[s] /\ End(s) <= End(s)'
  BY <1>a, <1>11 DEF Greet, tables, End
<1>12. ASSUME LogEnd PROVE \A s \in Stream : log[s] \subseteq log'[s] /\ End(s) <= End(s)'
  BY <1>a, <1>12 DEF LogEnd, tables, End
<1>13. ASSUME StatusEnd PROVE \A s \in Stream : log[s] \subseteq log'[s] /\ End(s) <= End(s)'
  BY <1>a, <1>13 DEF StatusEnd, tables, End
<1>14. ASSUME Skip PROVE \A s \in Stream : log[s] \subseteq log'[s] /\ End(s) <= End(s)'
  BY <1>a, <1>14 DEF Skip, tables, End
<1>15. ASSUME Read PROVE \A s \in Stream : log[s] \subseteq log'[s] /\ End(s) <= End(s)'
  BY <1>a, <1>15 DEF Read, tables, End
<1>16. ASSUME NEW r \in rows, SendLog(r) PROVE \A s \in Stream : log[s] \subseteq log'[s] /\ End(s) <= End(s)'
  BY <1>a, <1>16 DEF SendLog, tables, End
<1>17. ASSUME NEW r \in rows, SendAction(r) PROVE \A s \in Stream : log[s] \subseteq log'[s] /\ End(s) <= End(s)'
  BY <1>a, <1>17 DEF SendAction, tables, End
<1>18. ASSUME NEW r \in rows, Drop(r) PROVE \A s \in Stream : log[s] \subseteq log'[s] /\ End(s) <= End(s)'
  BY <1>a, <1>18 DEF Drop, tables, End
<1>19. ASSUME NEW r \in rows, SendRun(r) PROVE \A s \in Stream : log[s] \subseteq log'[s] /\ End(s) <= End(s)'
  BY <1>a, <1>19 DEF SendRun, tables, End
<1>20. ASSUME Advance PROVE \A s \in Stream : log[s] \subseteq log'[s] /\ End(s) <= End(s)'
  BY <1>a, <1>20 DEF Advance, tables, End
<1>21. ASSUME NEW t \in Stream, Notified(t) PROVE \A s \in Stream : log[s] \subseteq log'[s] /\ End(s) <= End(s)'
  BY <1>a, <1>21 DEF Notified, tables, End
<1>22. ASSUME Reconnect PROVE \A s \in Stream : log[s] \subseteq log'[s] /\ End(s) <= End(s)'
  BY <1>a, <1>22 DEF Reconnect, tables, End
<1>23. ASSUME LoseListener PROVE \A s \in Stream : log[s] \subseteq log'[s] /\ End(s) <= End(s)'
  BY <1>a, <1>23 DEF LoseListener, tables, End
<1>24. ASSUME Disconnect PROVE \A s \in Stream : log[s] \subseteq log'[s] /\ End(s) <= End(s)'
  BY <1>a, <1>24 DEF Disconnect, tables, End
<1>25. ASSUME UNCHANGED vars PROVE \A s \in Stream : log[s] \subseteq log'[s] /\ End(s) <= End(s)'
  BY <1>a, <1>25 DEF vars, tables, End
<1> QED BY <1>1, <1>2, <1>3, <1>4, <1>5, <1>6, <1>7, <1>8, <1>9, <1>10, <1>11, <1>12, <1>13, <1>14, <1>15, <1>16, <1>17, <1>18, <1>19, <1>20, <1>21, <1>22, <1>23, <1>24, <1>25 DEF Next, WriterStep, RunStep, Watch, Send

LEMMA BoundsStep == TypeOK /\ Locked /\ [Next]_vars => BoundsOK'
<1> SUFFICES ASSUME TypeOK /\ Locked, [Next]_vars PROVE BoundsOK' OBVIOUS
<1>0. WatchOK /\ TablesOK /\ BoundsOK BY DEF TypeOK
<1>a. \A s \in Stream : End(s) \in Nat /\ End(s)' \in Nat BY TablesStep, <1>0 DEF TablesOK, End
<1>b. "task_log" \in Stream /\ "status" \in Stream /\ at \in Stream /\ at' \in Stream
       /\ \A s \in Stream : log[s] \subseteq log'[s] /\ End(s) <= End(s)'
  BY <1>0, WatchStep, Grows, Streams DEF WatchOK
<1>c. snap.end \in Nat BY <1>0 DEF WatchOK
<1>1. ASSUME NEW w \in Writer, Lock(w) PROVE BoundsOK'
  <2>1. UNCHANGED <<snap, spc, at, cur, until, rows, inspect, cursor, seen, history>> BY <1>1 DEF Lock, server, batch, page
  <2> QED BY <1>0, <1>a, <1>b, <1>c, <2>1 DEF BoundsOK, End
<1>2. ASSUME NEW w \in Writer, Repeat(w) PROVE BoundsOK'
  <2>1. UNCHANGED <<snap, spc, at, cur, until, rows, inspect, cursor, seen, history>> BY <1>2 DEF Repeat, server, batch, page
  <2> QED BY <1>0, <1>a, <1>b, <1>c, <2>1 DEF BoundsOK, End
<1>3. ASSUME NEW w \in Writer, Commit(w) PROVE BoundsOK'
  <2>1. UNCHANGED <<snap, spc, at, cur, until, rows, inspect, cursor, seen, history>> BY <1>3 DEF Commit, server, batch, page
  <2> QED BY <1>0, <1>a, <1>b, <1>c, <2>1 DEF BoundsOK, End
<1>4. ASSUME NEW w \in Writer, Rollback(w) PROVE BoundsOK'
  <2>1. UNCHANGED <<snap, spc, at, cur, until, rows, inspect, cursor, seen, history>> BY <1>4 DEF Rollback, server, batch, page
  <2> QED BY <1>0, <1>a, <1>b, <1>c, <2>1 DEF BoundsOK, End
<1>5. ASSUME NEW w \in Writer, Retry(w) PROVE BoundsOK'
  <2>1. UNCHANGED <<snap, spc, at, cur, until, rows, inspect, cursor, seen, history>> BY <1>5 DEF Retry, server, batch, page
  <2> QED BY <1>0, <1>a, <1>b, <1>c, <2>1 DEF BoundsOK, End
<1>6. ASSUME NEW final \in BOOLEAN, NEW hit \in BOOLEAN, Change(final, hit) PROVE BoundsOK'
  <2>1. UNCHANGED <<snap, spc, at, cur, until, rows, inspect, cursor, seen, history>> BY <1>6 DEF Change, Record, server, batch, page
  <2> QED BY <1>0, <1>a, <1>b, <1>c, <2>1 DEF BoundsOK, End
<1>7. ASSUME ActionEvent PROVE BoundsOK'
  <2>1. UNCHANGED <<snap, spc, at, cur, until, rows, inspect, cursor, seen, history>> BY <1>7 DEF ActionEvent, Record, server, batch, page
  <2> QED BY <1>0, <1>a, <1>b, <1>c, <2>1 DEF BoundsOK, End
<1>8. ASSUME Reset PROVE BoundsOK'
  <2>1. UNCHANGED <<snap, spc, at, cur, until, rows, inspect, cursor, seen, history>> BY <1>8 DEF Reset, server, batch, page
  <2> QED BY <1>0, <1>a, <1>b, <1>c, <2>1 DEF BoundsOK, End
<1>9. ASSUME Connect PROVE BoundsOK'
  <2>1. UNCHANGED <<snap, log, next, cursor, seen, history, at, rows, inspect>> /\ spc = "off" /\ spc' = "snapshot"
    BY <1>0, <1>9 DEF Connect, tables, batch, WatchOK
  <2>2. cur' \in [Stream -> Nat] /\ \A s \in Stream : cur'[s] <= End(s)
    BY <1>0, <1>a, <1>b, <1>9 DEF Connect, From, BoundsOK
  <2>3. until' \in [Stream -> Nat] /\ \A s \in Stream : until'[s] <= End(s)
    BY <1>a, <1>9 DEF Connect, Zero
  <2> QED BY <1>0, <1>a, <1>b, <2>1, <2>2, <2>3 DEF BoundsOK, End
<1>10. ASSUME Snapshot PROVE BoundsOK'
  <2>1. UNCHANGED <<log, next, cursor, seen, history, cur, until, at, rows, inspect>> /\ spc = "snapshot" /\ spc' = "greet"
    BY <1>10 DEF Snapshot, tables, batch, page
  <2>2. snap'.end = End("status") BY <1>10 DEF Snapshot
  <2> QED BY <1>0, <1>a, <1>b, <2>1, <2>2 DEF BoundsOK, End
<1>11. ASSUME Greet PROVE BoundsOK'
  <2>1. UNCHANGED <<log, next, cursor, seen, history, until, rows, inspect>> /\ spc = "greet" /\ spc' # "send"
    BY <1>11 DEF Greet, tables, Return, StartRound
  <2>2. snap.end \in Nat /\ snap.end <= End("status") /\ snap'.end = snap.end
    BY <1>11, <1>0 DEF Greet, Boundary, BoundsOK, WatchOK
  <2>3. cur' \in [Stream -> Nat] /\ \A s \in Stream : cur'[s] <= End(s)
    BY <1>0, <1>a, <1>b, <2>2, <1>11 DEF Greet, Boundary, BoundsOK
  <2> QED BY <1>0, <1>a, <1>b, <2>1, <2>2, <2>3 DEF BoundsOK, End
<1>12. ASSUME LogEnd PROVE BoundsOK'
  <2>1. UNCHANGED <<snap, log, next, cursor, seen, history, cur, at, rows, inspect>> /\ spc = "logEnd" /\ spc' = "statusEnd"
    BY <1>12 DEF LogEnd, tables, batch, page
  <2>2. until' \in [Stream -> Nat] /\ \A s \in Stream : until'[s] <= End(s)
    BY <1>0, <1>a, <1>b, <1>12 DEF LogEnd, BoundsOK
  <2> QED BY <1>0, <1>a, <1>b, <2>1, <2>2 DEF BoundsOK, End
<1>13. ASSUME StatusEnd PROVE BoundsOK'
  <2>1. UNCHANGED <<snap, log, next, cursor, seen, history, cur, rows, inspect>> /\ spc = "statusEnd" /\ spc' = "read"
    BY <1>13 DEF StatusEnd, tables, page, StartRound
  <2>2. until' \in [Stream -> Nat] /\ \A s \in Stream : until'[s] <= End(s)
    BY <1>0, <1>a, <1>b, <1>13 DEF StatusEnd, BoundsOK
  <2> QED BY <1>0, <1>a, <1>b, <2>1, <2>2 DEF BoundsOK, End
<1>14. ASSUME Skip PROVE BoundsOK'
  <2>1. UNCHANGED <<snap, log, next, cursor, seen, history, cur, until, rows, inspect>> /\ spc = "read" /\ spc' # "send"
    BY <1>14 DEF Skip, NextCursor, tables, Return, StartRound
  <2> QED BY <1>0, <1>a, <1>b, <2>1 DEF BoundsOK, End
<1>15. ASSUME Read PROVE BoundsOK'
  <2>1. UNCHANGED <<snap, log, next, cursor, seen, history, cur, until, at>> /\ spc' = "send" BY <1>15 DEF Read, tables, page
  <2>2. PICK matched \in Batches(at), reach \in 0..End(at) :
          /\ rows' = {r \in matched : ~Cut(at, r)}
          /\ inspect' = IF {r \in matched : ~Cut(at, r)} # matched THEN until[at]
                        ELSE IF reach > cur[at] THEN reach ELSE cur[at]
    BY <1>15 DEF Read
  <2>3. rows' \subseteq log[at] BY <2>2 DEF Batches, Candidates
  <2>4. inspect' \in Nat /\ inspect' <= End(at) BY <1>0, <1>a, <1>b, <2>2 DEF BoundsOK
  <2> QED BY <1>0, <1>a, <1>b, <2>1, <2>3, <2>4 DEF BoundsOK, End
<1>16. ASSUME NEW r \in rows, SendLog(r) PROVE BoundsOK'
  <2>1. UNCHANGED <<snap, log, next, history, until, at, inspect, spc>> /\ rows' = rows \ {r} /\ spc = "send"
    BY <1>16 DEF SendLog, Sent, Ready, tables
  <2>2. r \in log[at] /\ at = "task_log" BY <1>0, <1>16 DEF SendLog, BoundsOK
  <2>3. r.seq \in 1..End(at) BY <1>0, <1>b, <2>2 DEF TablesOK
  <2>4. cur' \in [Stream -> Nat] /\ \A s \in Stream : cur'[s] <= End(s)
    BY <1>0, <1>a, <1>b, <2>3, <1>16 DEF SendLog, Sent, BoundsOK
  <2>5. cursor' \in 0..End("task_log") /\ seen' \subseteq log["task_log"]
    BY <1>0, <1>a, <1>b, <2>2, <2>3, <1>16 DEF SendLog, BoundsOK
  <2> QED BY <1>0, <1>a, <1>b, <2>1, <2>4, <2>5 DEF BoundsOK, End
<1>17. ASSUME NEW r \in rows, SendAction(r) PROVE BoundsOK'
  <2>1. UNCHANGED <<snap, log, next, cursor, seen, until, at, inspect, spc>> /\ rows' = rows \ {r} /\ spc = "send"
    BY <1>17 DEF SendAction, Sent, Ready, tables
  <2>2. r \in log[at] /\ at = "status" /\ history' = history \cup {r} BY <1>0, <1>17 DEF SendAction, BoundsOK
  <2>3. r.seq \in 1..End(at) BY <1>0, <1>b, <2>2 DEF TablesOK
  <2>4. cur' \in [Stream -> Nat] /\ \A s \in Stream : cur'[s] <= End(s)
    BY <1>0, <1>a, <1>b, <2>3, <1>17 DEF SendAction, Sent, BoundsOK
  <2> QED BY <1>0, <1>a, <1>b, <2>1, <2>2, <2>4 DEF BoundsOK, End
<1>18. ASSUME NEW r \in rows, Drop(r) PROVE BoundsOK'
  <2>1. UNCHANGED <<snap, log, next, cursor, seen, history, until, at, inspect, spc>> /\ rows' = rows \ {r} /\ spc = "send"
    BY <1>18 DEF Drop, Sent, Ready, tables, page
  <2>2. r \in log[at] BY <1>0 DEF BoundsOK
  <2>3. r.seq \in 1..End(at) BY <1>0, <1>b, <2>2 DEF TablesOK
  <2>4. cur' \in [Stream -> Nat] /\ \A s \in Stream : cur'[s] <= End(s)
    BY <1>0, <1>a, <1>b, <2>3, <1>18 DEF Drop, Sent, BoundsOK
  <2> QED BY <1>0, <1>a, <1>b, <2>1, <2>2, <2>4 DEF BoundsOK, End
<1>19. ASSUME NEW r \in rows, SendRun(r) PROVE BoundsOK'
  <2>1. UNCHANGED <<snap, log, next, cursor, seen, history, until, at>> /\ spc = "send" BY <1>19 DEF SendRun, Ready, tables
  <2>2. r \in log[at] /\ at = "status" BY <1>0, <1>19 DEF SendRun, BoundsOK
  <2>3. r.seq \in 1..End(at) BY <1>0, <1>b, <2>2 DEF TablesOK
  <2>4. cur' \in [Stream -> Nat] /\ \A s \in Stream : cur'[s] <= End(s)
    BY <1>0, <1>a, <1>b, <2>2, <2>3, <1>19 DEF SendRun, BoundsOK
  <2>5. \/ rows' = rows \ {r} /\ UNCHANGED <<spc, inspect>>
        \/ rows' = {} /\ inspect' = 0 /\ spc' # "send"
    BY <1>19 DEF SendRun, Return
  <2> QED BY <1>0, <1>a, <1>b, <2>1, <2>2, <2>4, <2>5 DEF BoundsOK, End
<1>20. ASSUME Advance PROVE BoundsOK'
  <2>1. UNCHANGED <<snap, log, next, cursor, seen, history, until>> /\ rows = {} /\ rows' = {} /\ inspect' = 0 /\ spc' # "send"
    BY <1>20 DEF Advance, NextCursor, tables, Return, StartRound
  <2>2. cur' \in [Stream -> Nat] /\ \A s \in Stream : cur'[s] <= End(s)
    BY <1>0, <1>a, <1>b, <1>20 DEF Advance, BoundsOK
  <2> QED BY <1>0, <1>a, <1>b, <2>1, <2>2 DEF BoundsOK, End
<1>21. ASSUME NEW s \in Stream, Notified(s) PROVE BoundsOK'
  <2>1. UNCHANGED <<snap, log, next, cursor, seen, history, cur, until, rows, inspect>> /\ spc = "wait" /\ spc' # "send"
    BY <1>21 DEF Notified, StartRound, tables, page
  <2> QED BY <1>0, <1>a, <1>b, <2>1 DEF BoundsOK, End
<1>22. ASSUME Reconnect PROVE BoundsOK'
  <2>1. UNCHANGED <<snap, log, next, cursor, seen, history, cur, until, rows, inspect>> /\ spc = "wait" /\ spc' # "send"
    BY <1>22 DEF Reconnect, Resumed, StartRound, tables, page
  <2> QED BY <1>0, <1>a, <1>b, <2>1 DEF BoundsOK, End
<1>23. ASSUME LoseListener PROVE BoundsOK'
  <2>1. UNCHANGED <<snap, spc, at, cur, until, rows, inspect, cursor, seen, history>> BY <1>23 DEF LoseListener, server, batch, page
  <2> QED BY <1>0, <1>a, <1>b, <1>c, <2>1 DEF BoundsOK, End
<1>24. ASSUME Disconnect PROVE BoundsOK'
  <2>1. UNCHANGED <<log, next, cursor, seen, history>> /\ rows' = {} /\ inspect' = 0 /\ spc' = "off" /\ snap' = NoSnap BY <1>24 DEF Disconnect, tables
  <2>2. cur' = Zero /\ until' = Zero BY <1>24 DEF Disconnect
  <2>3. cur' \in [Stream -> Nat] /\ until' \in [Stream -> Nat]
        /\ \A s \in Stream : cur'[s] <= End(s) /\ until'[s] <= End(s)
    BY <1>a, <2>2 DEF Zero
  <2> QED BY <1>0, <1>a, <1>b, <2>1, <2>3 DEF BoundsOK, End, NoSnap
<1>25. ASSUME UNCHANGED vars PROVE BoundsOK'
  BY <1>0, <1>25 DEF vars, BoundsOK, tables, writers, batch, server, listener, page, End
<1> QED BY <1>1, <1>2, <1>3, <1>4, <1>5, <1>6, <1>7, <1>8, <1>9, <1>10, <1>11, <1>12, <1>13, <1>14, <1>15, <1>16, <1>17, <1>18, <1>19, <1>20, <1>21, <1>22, <1>23, <1>24, <1>25 DEF Next, WriterStep, RunStep, Watch, Send

LEMMA TypeStep == TypeOK /\ Locked /\ [Next]_vars => TypeOK' /\ Locked'
BY TablesStep, WritersStep, WatchStep, BoundsStep DEF TypeOK

\* Every variable keeps its type, every record has a number below next_seq, and no
\* cursor of the watch or of the page is beyond the end of its stream.
THEOREM LogTypes == Spec => []TypeOK
<1>1. Init => TypeOK /\ Locked BY InitTypes
<1>2. TypeOK /\ Locked /\ [Next]_vars => TypeOK' /\ Locked' BY TypeStep
<1> QED BY <1>1, <1>2, PTL DEF Spec

(***************************************************************************)
(* Delivery. What the page has and what is still to be sent make up the    *)
(* wanted records as far as Run has inspected the stream; later commits    *)
(* get higher numbers, because numbers are given out under the lock.       *)
(***************************************************************************)

Unique == \A r, q \in log["task_log"] : r.seq = q.seq => r = q

Sending == spc = "send" /\ at = "task_log"

Feed ==
  /\ NothingSkipped
  /\ spc # "off" => cursor <= cur["task_log"]
  /\ spc # "off" /\ ~Sending =>
       \A r \in log["task_log"] : Mine(r) /\ r.seq <= cur["task_log"] => r.seq <= cursor
  /\ Sending =>
       /\ cur["task_log"] <= inspect
       /\ \A r \in rows : Mine(r) /\ r.seq > cur["task_log"] /\ r.seq <= inspect
       /\ \A r \in log["task_log"] : Mine(r) /\ r.seq <= inspect => r \in rows \/ r.seq <= cursor

LEMMA UniqueStep == TypeOK /\ Locked /\ Unique /\ [Next]_vars => Unique'
<1> SUFFICES ASSUME TypeOK /\ Locked /\ Unique, [Next]_vars PROVE Unique' OBVIOUS
<1>0. TablesOK BY DEF TypeOK
<1>f. log = [s \in Stream |-> log[s]] BY <1>0 DEF TablesOK
<1>1. ASSUME NEW w \in Writer, Lock(w) PROVE Unique'
  BY <1>1 DEF Lock, tables, Unique
<1>2. ASSUME NEW w \in Writer, Repeat(w) PROVE Unique'
  BY <1>2 DEF Repeat, tables, Unique
<1>3. ASSUME NEW w \in Writer, Commit(w) PROVE Unique'
  <2> DEFINE n == next["task_log"]
  <2>1. n \in Nat \ {0} /\ \A r \in log["task_log"] : r.seq \in 1..(n - 1)
    BY <1>0 DEF TablesOK, Stream, End
  <2>2. log'["task_log"] = log["task_log"] \cup Inserted(w) BY <1>f, <1>3 DEF Commit, Stream
  <2>3. reply[w].first = n BY <1>3 DEF Commit, Locked
  <2>4. \A i \in DOMAIN Entries[w] : i \in Nat \ {0} BY LogAssumption
  <2>5. \A r \in Inserted(w) : r.seq >= n /\ r.seq \in Nat BY <2>1, <2>3, <2>4 DEF Inserted, Event
  <2>6. ASSUME NEW r \in Inserted(w), NEW q \in Inserted(w), r.seq = q.seq PROVE r = q
    <3>1. PICK i \in DOMAIN Entries[w] : r = Event(reply[w].first + i - 1, Entries[w][i].key,
             [id |-> AppendId[w], index |-> i, value |-> Entries[w][i].value])
      BY DEF Inserted
    <3>2. PICK j \in DOMAIN Entries[w] : q = Event(reply[w].first + j - 1, Entries[w][j].key,
             [id |-> AppendId[w], index |-> j, value |-> Entries[w][j].value])
      BY DEF Inserted
    <3>3. r.seq = n + i - 1 /\ q.seq = n + j - 1 BY <2>3, <3>1, <3>2 DEF Event
    <3>4. i \in Nat /\ j \in Nat /\ n \in Nat BY <2>1, <2>4
    <3> HIDE DEF n
    <3>5. n + i - 1 = n + j - 1 BY <2>6, <3>3
    <3>6. i = j BY <3>4, <3>5
    <3> QED BY <3>1, <3>2, <3>6
  <2>7. ASSUME NEW r \in log["task_log"], NEW q \in Inserted(w) PROVE r.seq # q.seq
    BY <2>1, <2>5
  <2> HIDE DEF n
  <2> QED BY <2>2, <2>6, <2>7 DEF Unique
<1>4. ASSUME NEW w \in Writer, Rollback(w) PROVE Unique'
  BY <1>4 DEF Rollback, tables, Unique
<1>5. ASSUME NEW w \in Writer, Retry(w) PROVE Unique'
  BY <1>5 DEF Retry, tables, Unique
<1>6. ASSUME NEW final \in BOOLEAN, NEW hit \in BOOLEAN, Change(final, hit) PROVE Unique'
  <2>1. log'["task_log"] = log["task_log"] BY <1>f, <1>6 DEF Change, Record, tables, Stream
  <2> QED BY <2>1 DEF Unique
<1>7. ASSUME ActionEvent PROVE Unique'
  <2>1. log'["task_log"] = log["task_log"] BY <1>f, <1>7 DEF ActionEvent, Record, tables, Stream
  <2> QED BY <2>1 DEF Unique
<1>8. ASSUME Reset PROVE Unique'
  BY <1>8 DEF Reset, Unique
<1>9. ASSUME Connect PROVE Unique'
  BY <1>9 DEF Connect, tables, Unique
<1>10. ASSUME Snapshot PROVE Unique'
  BY <1>10 DEF Snapshot, tables, Unique
<1>11. ASSUME Greet PROVE Unique'
  BY <1>11 DEF Greet, tables, Unique
<1>12. ASSUME LogEnd PROVE Unique'
  BY <1>12 DEF LogEnd, tables, Unique
<1>13. ASSUME StatusEnd PROVE Unique'
  BY <1>13 DEF StatusEnd, tables, Unique
<1>14. ASSUME Skip PROVE Unique'
  BY <1>14 DEF Skip, tables, Unique
<1>15. ASSUME Read PROVE Unique'
  BY <1>15 DEF Read, tables, Unique
<1>16. ASSUME NEW r \in rows, SendLog(r) PROVE Unique'
  BY <1>16 DEF SendLog, tables, Unique
<1>17. ASSUME NEW r \in rows, SendAction(r) PROVE Unique'
  BY <1>17 DEF SendAction, tables, Unique
<1>18. ASSUME NEW r \in rows, Drop(r) PROVE Unique'
  BY <1>18 DEF Drop, tables, Unique
<1>19. ASSUME NEW r \in rows, SendRun(r) PROVE Unique'
  BY <1>19 DEF SendRun, tables, Unique
<1>20. ASSUME Advance PROVE Unique'
  BY <1>20 DEF Advance, tables, Unique
<1>21. ASSUME NEW s \in Stream, Notified(s) PROVE Unique'
  BY <1>21 DEF Notified, tables, Unique
<1>22. ASSUME Reconnect PROVE Unique'
  BY <1>22 DEF Reconnect, tables, Unique
<1>23. ASSUME LoseListener PROVE Unique'
  BY <1>23 DEF LoseListener, tables, Unique
<1>24. ASSUME Disconnect PROVE Unique'
  BY <1>24 DEF Disconnect, tables, Unique
<1>25. ASSUME UNCHANGED vars PROVE Unique'
  BY <1>25 DEF vars, tables, Unique
<1> QED BY <1>1, <1>2, <1>3, <1>4, <1>5, <1>6, <1>7, <1>8, <1>9, <1>10, <1>11, <1>12, <1>13, <1>14, <1>15, <1>16, <1>17, <1>18, <1>19, <1>20, <1>21, <1>22, <1>23, <1>24, <1>25 DEF Next, WriterStep, RunStep, Watch, Send

LEMMA FeedStep == TypeOK /\ Locked /\ Unique /\ Feed /\ [Next]_vars => Feed'
<1> SUFFICES ASSUME TypeOK /\ Locked /\ Unique /\ Feed, [Next]_vars PROVE Feed' OBVIOUS
<1>0. TablesOK /\ WatchOK /\ BoundsOK BY DEF TypeOK
<1>f. log = [s \in Stream |-> log[s]] BY <1>0 DEF TablesOK
<1>g. cur = [s \in Stream |-> cur[s]] /\ cur["task_log"] \in Nat /\ cursor \in Nat
  BY <1>0, Streams DEF BoundsOK
<1>h. End("task_log") \in Nat /\ \A r \in log["task_log"] : r.seq \in 1..End("task_log")
  BY <1>0, Streams DEF TablesOK, End
<1>1. ASSUME NEW w \in Writer, Lock(w) PROVE Feed'
  <2>1. UNCHANGED <<log, cursor, seen, spc, at, cur, rows, inspect>> BY <1>1 DEF Lock, tables, server, batch, page
  <2> QED BY <2>1 DEF Feed, Sending, NothingSkipped
<1>2. ASSUME NEW w \in Writer, Repeat(w) PROVE Feed'
  <2>1. UNCHANGED <<log, cursor, seen, spc, at, cur, rows, inspect>> BY <1>2 DEF Repeat, tables, server, batch, page
  <2> QED BY <2>1 DEF Feed, Sending, NothingSkipped
<1>3. ASSUME NEW w \in Writer, Commit(w) PROVE Feed'
  <2>1. UNCHANGED <<cursor, seen, spc, at, cur, rows, inspect>> BY <1>3 DEF Commit, server, batch, page
  <2>2. log'["task_log"] = log["task_log"] \cup Inserted(w) BY <1>f, <1>3 DEF Commit, Stream
  <2>3. \A r \in Inserted(w) : r.seq \in Nat /\ r.seq > End("task_log")
    <3>1. reply[w].first = End("task_log") + 1 BY <1>0, <1>3, Streams DEF Commit, Locked, End, TablesOK
    <3>2. \A i \in DOMAIN Entries[w] : i \in Nat \ {0} BY LogAssumption
    <3> QED BY <1>h, <3>1, <3>2 DEF Inserted, Event
  <2>4. cursor <= End("task_log") /\ cur["task_log"] <= End("task_log")
    BY <1>0, Streams DEF BoundsOK
  <2>5. NothingSkipped' BY <1>g, <1>h, <2>1, <2>2, <2>3, <2>4 DEF Feed, NothingSkipped
  <2>6. Sending => inspect \in Nat /\ inspect <= End("task_log") BY <1>0 DEF BoundsOK, Sending
  <2>7. CASE Sending BY <1>g, <1>h, <2>1, <2>2, <2>3, <2>5, <2>6, <2>7 DEF Feed, Sending
  <2>8. CASE ~Sending BY <1>g, <1>h, <2>1, <2>2, <2>3, <2>4, <2>5, <2>8 DEF Feed, Sending
  <2> QED BY <2>7, <2>8
<1>4. ASSUME NEW w \in Writer, Rollback(w) PROVE Feed'
  <2>1. UNCHANGED <<log, cursor, seen, spc, at, cur, rows, inspect>> BY <1>4 DEF Rollback, tables, server, batch, page
  <2> QED BY <2>1 DEF Feed, Sending, NothingSkipped
<1>5. ASSUME NEW w \in Writer, Retry(w) PROVE Feed'
  <2>1. UNCHANGED <<log, cursor, seen, spc, at, cur, rows, inspect>> BY <1>5 DEF Retry, tables, server, batch, page
  <2> QED BY <2>1 DEF Feed, Sending, NothingSkipped
<1>6. ASSUME NEW final \in BOOLEAN, NEW hit \in BOOLEAN, Change(final, hit) PROVE Feed'
  <2>1. UNCHANGED <<cursor, seen, spc, at, cur, rows, inspect>> BY <1>6 DEF Change, Record, server, batch, page
  <2>2. log'["task_log"] = log["task_log"] BY <1>f, <1>6 DEF Change, Record, Stream
  <2> QED BY <2>1, <2>2 DEF Feed, Sending, NothingSkipped
<1>7. ASSUME ActionEvent PROVE Feed'
  <2>1. UNCHANGED <<cursor, seen, spc, at, cur, rows, inspect>> BY <1>7 DEF ActionEvent, Record, server, batch, page
  <2>2. log'["task_log"] = log["task_log"] BY <1>f, <1>7 DEF ActionEvent, Record, Stream
  <2> QED BY <2>1, <2>2 DEF Feed, Sending, NothingSkipped
<1>8. ASSUME Reset PROVE Feed'
  <2>1. UNCHANGED <<log, cursor, seen, spc, at, cur, rows, inspect>> BY <1>8 DEF Reset, server, batch, page
  <2> QED BY <2>1 DEF Feed, Sending, NothingSkipped
<1>9. ASSUME Connect PROVE Feed'
  <2>1. UNCHANGED <<log, cursor, seen>> /\ spc' = "snapshot" BY <1>9 DEF Connect, tables
  <2>2. cur'["task_log"] = cursor BY <1>9, Streams DEF Connect, From
  <2> QED BY <1>g, <2>1, <2>2 DEF Feed, Sending, NothingSkipped
<1>10. ASSUME Snapshot PROVE Feed'
  <2>1. UNCHANGED <<log, cursor, seen, cur, rows, inspect>> /\ spc \in {"snapshot"} /\ spc' # "send" BY <1>10 DEF Snapshot,  tables, batch, page
  <2>2. cur["task_log"]' = cur["task_log"] BY <2>1
  <2> QED BY <2>1, <2>2 DEF Feed, Sending, NothingSkipped
<1>11. ASSUME Greet PROVE Feed'
  <2>1. UNCHANGED <<log, cursor, seen>> /\ spc = "greet" /\ spc' # "send" BY <1>11 DEF Greet, Return, StartRound, tables
  <2>2. cur'["task_log"] = cur["task_log"] BY <1>g, <1>11 DEF Greet, Stream
  <2> QED BY <2>1, <2>2 DEF Feed, Sending, NothingSkipped
<1>12. ASSUME LogEnd PROVE Feed'
  <2>1. UNCHANGED <<log, cursor, seen, cur, rows, inspect>> /\ spc \in {"logEnd"} /\ spc' # "send" BY <1>12 DEF LogEnd,  tables, batch, page
  <2>2. cur["task_log"]' = cur["task_log"] BY <2>1
  <2> QED BY <2>1, <2>2 DEF Feed, Sending, NothingSkipped
<1>13. ASSUME StatusEnd PROVE Feed'
  <2>1. UNCHANGED <<log, cursor, seen, cur, rows, inspect>> /\ spc \in {"statusEnd"} /\ spc' # "send" BY <1>13 DEF StatusEnd, StartRound, tables, batch, page
  <2>2. cur["task_log"]' = cur["task_log"] BY <2>1
  <2> QED BY <2>1, <2>2 DEF Feed, Sending, NothingSkipped
<1>14. ASSUME Skip PROVE Feed'
  <2>1. UNCHANGED <<log, cursor, seen, cur, rows, inspect>> /\ spc \in {"read"} /\ spc' # "send" BY <1>14 DEF Skip, NextCursor, Return, StartRound, tables, batch, page
  <2>2. cur["task_log"]' = cur["task_log"] BY <2>1
  <2> QED BY <2>1, <2>2 DEF Feed, Sending, NothingSkipped
<1>15. ASSUME Read PROVE Feed'
  <2>1. UNCHANGED <<log, cursor, seen, cur, at>> /\ spc = "read" /\ spc' = "send" BY <1>15 DEF Read, tables, page
  <2>2. CASE at # "task_log" BY <2>1, <2>2 DEF Feed, Sending, NothingSkipped
  <2>3. CASE at = "task_log"
    <3>1. PICK matched \in Batches("task_log"), reach \in 0..End("task_log") :
            /\ Reaches("task_log", matched, reach)
            /\ rows' = {r \in matched : ~Cut("task_log", r)}
            /\ inspect' = IF {r \in matched : ~Cut("task_log", r)} # matched THEN until["task_log"]
                          ELSE IF reach > cur["task_log"] THEN reach ELSE cur["task_log"]
      BY <2>3, <1>15 DEF Read
    <3>2. \A r \in matched : r \in Candidates("task_log") BY <3>1 DEF Batches
    <3>3. \A r \in Candidates("task_log") :
            r \in log["task_log"] /\ Mine(r) /\ r.seq > cur["task_log"]
      BY DEF Candidates, Selects, Mine
    <3>4. \A r \in log["task_log"] : Mine(r) /\ r.seq > cur["task_log"] => r \in Candidates("task_log")
      BY <1>h DEF Candidates, Selects, Mine
    <3>5. \A r \in matched, q \in Candidates("task_log") : q.seq <= r.seq => q \in matched
      BY <3>1 DEF Batches
    <3>6. until["task_log"] \in Nat BY <1>0, Streams DEF BoundsOK
    <3>7. ~Exhausted("task_log", cur) BY <2>3, <1>15 DEF Read
    <3>8. \A r \in matched : r.seq <= reach
      <4>1. CASE Cardinality(matched) = BatchSize BY <1>h, <3>1, <4>1 DEF Reaches
      <4>2. CASE Cardinality(matched) # BatchSize BY <1>h, <3>1, <3>2, <3>3, <4>2 DEF Reaches
      <4> QED BY <4>1, <4>2
    <3>9. \A q \in Candidates("task_log") : q.seq <= reach => q \in matched
      <4>1. CASE Cardinality(matched) = BatchSize BY <3>1, <3>5, <4>1 DEF Reaches
      <4>2. CASE Cardinality(matched) # BatchSize
        BY <3>1, <4>2 DEF Batches
      <4> QED BY <4>1, <4>2
    <3>10. \A r \in log["task_log"] : Mine(r) /\ r.seq <= cur["task_log"] => r.seq <= cursor
      BY <2>1 DEF Feed, Sending
    <3>11. cursor <= cur["task_log"] BY <2>1 DEF Feed
    <3>12. \A r \in rows' : Mine(r) /\ r.seq > cur["task_log"] BY <3>1, <3>2, <3>3
    <3>13. CASE {r \in matched : ~Cut("task_log", r)} # matched
      <4>1. inspect' = until["task_log"] BY <3>1, <3>13
      <4>2. PICK c \in matched : c.seq > until["task_log"] /\ phase = 2 BY <3>13 DEF Cut
      <4>3. until["task_log"] > cur["task_log"] BY <1>g, <3>6, <3>7, <4>2 DEF Exhausted
      <4>4. \A r \in rows' : r.seq <= until["task_log"]
        BY <1>h, <3>1, <3>2, <3>3, <3>6, <4>2 DEF Cut
      <4>5. ASSUME NEW r \in log["task_log"], Mine(r), r.seq <= until["task_log"], ~(r.seq <= cursor)
            PROVE  r \in rows'
        <5>1. r.seq > cur["task_log"] BY <1>g, <1>h, <3>10, <4>5
        <5>2. r \in matched BY <1>h, <3>2, <3>3, <3>4, <3>5, <3>6, <4>2, <4>5, <5>1
        <5> QED BY <1>h, <3>1, <3>6, <4>5, <5>2 DEF Cut
      <4> QED BY <1>g, <2>1, <2>3, <3>6, <3>11, <3>12, <4>1, <4>3, <4>4, <4>5
          DEF Feed, Sending, NothingSkipped
    <3>14. CASE {r \in matched : ~Cut("task_log", r)} = matched
      <4>1. rows' = matched /\ inspect' = IF reach > cur["task_log"] THEN reach ELSE cur["task_log"]
        BY <3>1, <3>14
      <4>2. reach \in Nat BY <3>1
      <4>3. \A r \in matched : r.seq \in Nat BY <1>h, <3>2, <3>3
      <4>4. \A r \in rows' : r.seq <= inspect' BY <1>g, <3>8, <4>1, <4>2, <4>3
      <4>5. ASSUME NEW r \in log["task_log"], Mine(r), r.seq <= inspect', ~(r.seq <= cursor)
            PROVE  r \in rows'
        <5>1. r.seq > cur["task_log"] BY <1>g, <1>h, <3>10, <4>5
        <5>2. r.seq <= reach BY <1>g, <1>h, <4>1, <4>2, <4>5, <5>1
        <5> QED BY <3>4, <3>9, <4>1, <4>5, <5>1, <5>2
      <4>6. cur["task_log"] <= inspect' BY <1>g, <4>1, <4>2
      <4> QED BY <2>1, <2>3, <3>11, <3>12, <4>4, <4>5, <4>6 DEF Feed, Sending, NothingSkipped
    <3> QED BY <3>13, <3>14
  <2> QED BY <2>2, <2>3
<1>16. ASSUME NEW r \in rows, SendLog(r) PROVE Feed'
  <2>1. /\ UNCHANGED <<log, at, inspect, spc>> /\ spc = "send" /\ at = "task_log"
        /\ rows' = rows \ {r} /\ \A q \in rows : r.seq <= q.seq
    BY <1>16 DEF SendLog, Ready, Sent, tables
  <2>2. Sending /\ Sending' BY <2>1 DEF Sending
  <2>3. cur'["task_log"] = r.seq BY <1>g, <2>1, <1>16, Streams DEF SendLog, Sent
  <2>4. rows \subseteq log["task_log"] /\ inspect \in Nat BY <1>0, <2>1 DEF BoundsOK
  <2>5. \A q \in rows : Mine(q) /\ q.seq > cur["task_log"] /\ q.seq <= inspect BY <2>2 DEF Feed
  <2>6. cursor <= cur["task_log"] BY <2>1 DEF Feed
  <2>7. r.seq \in Nat /\ r.seq > cursor BY <1>g, <1>h, <2>4, <2>5, <2>6
  <2>8. cursor' = r.seq /\ seen' = seen \cup {r} BY <1>g, <2>7, <1>16 DEF SendLog
  <2>9. \A q \in log["task_log"] : Mine(q) /\ q.seq <= inspect => q \in rows \/ q.seq <= cursor
    BY <2>2 DEF Feed
  <2>10. \A q \in log["task_log"] : Mine(q) /\ q.seq <= r.seq => q = r \/ q.seq <= cursor
    <3> TAKE q \in log["task_log"]
    <3> HAVE Mine(q) /\ q.seq <= r.seq
    <3>1. q.seq <= inspect BY <1>h, <2>4, <2>5, <2>7
    <3>2. CASE q \in rows
      <4>1. q.seq = r.seq BY <1>h, <2>1, <2>7, <3>2
      <4> QED BY <2>4, <4>1 DEF Unique
    <3> QED BY <2>9, <3>1, <3>2
  <2>11. NothingSkipped'
    <3>1. seen = {q \in log["task_log"] : Mine(q) /\ q.seq <= cursor} BY DEF Feed, NothingSkipped
    <3>2. \A q \in log["task_log"] : q.seq <= cursor => q.seq <= r.seq BY <1>g, <1>h, <2>7
    <3> QED BY <2>1, <2>4, <2>5, <2>7, <2>8, <2>10, <3>1, <3>2 DEF NothingSkipped
  <2>12. \A q \in rows' : Mine(q) /\ q.seq > r.seq /\ q.seq <= inspect
    <3> TAKE q \in rows'
    <3>1. q \in rows /\ q # r BY <2>1
    <3>2. q.seq # r.seq BY <2>4, <3>1 DEF Unique
    <3> QED BY <1>h, <2>1, <2>4, <2>5, <2>7, <3>1, <3>2
  <2>13. \A q \in log["task_log"] : Mine(q) /\ q.seq <= inspect => q \in rows' \/ q.seq <= r.seq
    BY <1>g, <1>h, <2>1, <2>7, <2>9
  <2>14. r.seq <= inspect /\ r.seq <= r.seq BY <2>5, <2>7
  <2> QED BY <2>1, <2>2, <2>3, <2>8, <2>11, <2>12, <2>13, <2>14 DEF Feed
<1>17. ASSUME NEW r \in rows, SendAction(r) PROVE Feed'
  <2>1. UNCHANGED <<log, cursor, seen, at>> /\ at = "status" /\ spc = "send" BY <1>17 DEF SendAction, Ready, Sent, tables, page
  <2>2. cur'["task_log"] = cur["task_log"] BY <1>g, <2>1, <1>17 DEF SendAction, Sent, Stream
  <2> QED BY <2>1, <2>2 DEF Feed, Sending, NothingSkipped
<1>18. ASSUME NEW r \in rows, Drop(r) PROVE Feed'
  <2>1. UNCHANGED <<log, cursor, seen, at>> /\ at = "status" /\ spc = "send" BY <1>18 DEF Drop, Ready, Sent, tables, page
  <2>2. cur'["task_log"] = cur["task_log"] BY <1>g, <2>1, <1>18 DEF Drop, Sent, Stream
  <2> QED BY <2>1, <2>2 DEF Feed, Sending, NothingSkipped
<1>19. ASSUME NEW r \in rows, SendRun(r) PROVE Feed'
  <2>1. UNCHANGED <<log, cursor, seen, at>> /\ at = "status" /\ spc = "send" BY <1>19 DEF SendRun, Ready, tables
  <2>2. cur'["task_log"] = cur["task_log"] BY <1>g, <1>19 DEF SendRun, Stream
  <2> QED BY <2>1, <2>2 DEF Feed, Sending, NothingSkipped
<1>20. ASSUME Advance PROVE Feed'
  <2>1. UNCHANGED <<log, cursor, seen>> /\ spc = "send" /\ rows = {} /\ spc' # "send"
    BY <1>20 DEF Advance, NextCursor, Return, StartRound, tables
  <2>2. ~Sending' BY <2>1 DEF Sending
  <2>3. CASE at # "task_log"
    <3>1. cur'["task_log"] = cur["task_log"] BY <1>g, <2>3, <1>20 DEF Advance, Stream
    <3> QED BY <2>1, <2>2, <2>3, <3>1 DEF Feed, Sending, NothingSkipped
  <2>4. CASE at = "task_log"
    <3>1. cur'["task_log"] = inspect BY <1>g, <2>4, <1>20, Streams DEF Advance
    <3>2. Sending /\ inspect \in Nat BY <1>0, <2>1, <2>4 DEF Sending, BoundsOK
    <3>3. cursor <= inspect BY <1>g, <2>1, <3>2 DEF Feed
    <3>4. \A r \in log["task_log"] : Mine(r) /\ r.seq <= inspect => r.seq <= cursor BY <2>1, <3>2 DEF Feed
    <3> QED BY <2>1, <2>2, <3>1, <3>3, <3>4 DEF Feed, NothingSkipped
  <2> QED BY <2>3, <2>4
<1>21. ASSUME NEW s \in Stream, Notified(s) PROVE Feed'
  <2>1. UNCHANGED <<log, cursor, seen, cur, rows, inspect>> /\ spc \in {"wait"} /\ spc' # "send" BY <1>21 DEF Notified, StartRound, tables, batch, page
  <2>2. cur["task_log"]' = cur["task_log"] BY <2>1
  <2> QED BY <2>1, <2>2 DEF Feed, Sending, NothingSkipped
<1>22. ASSUME Reconnect PROVE Feed'
  <2>1. UNCHANGED <<log, cursor, seen, cur, rows, inspect>> /\ spc \in {"wait"} /\ spc' # "send" BY <1>22 DEF Reconnect, Resumed, StartRound, tables, batch, page
  <2>2. cur["task_log"]' = cur["task_log"] BY <2>1
  <2> QED BY <2>1, <2>2 DEF Feed, Sending, NothingSkipped
<1>23. ASSUME LoseListener PROVE Feed'
  <2>1. UNCHANGED <<log, cursor, seen, spc, at, cur, rows, inspect>> BY <1>23 DEF LoseListener, tables, server, batch, page
  <2> QED BY <2>1 DEF Feed, Sending, NothingSkipped
<1>24. ASSUME Disconnect PROVE Feed'
  <2>1. UNCHANGED <<log, cursor, seen>> /\ spc' = "off" BY <1>24 DEF Disconnect, tables
  <2> QED BY <2>1 DEF Feed, Sending, NothingSkipped
<1>25. ASSUME UNCHANGED vars PROVE Feed'
  <2>1. UNCHANGED <<log, cursor, seen, spc, at, cur, rows, inspect>> BY <1>25 DEF vars, tables, server, batch, page
  <2> QED BY <2>1 DEF Feed, Sending, NothingSkipped
<1> QED BY <1>1, <1>2, <1>3, <1>4, <1>5, <1>6, <1>7, <1>8, <1>9, <1>10, <1>11, <1>12, <1>13, <1>14, <1>15, <1>16, <1>17, <1>18, <1>19, <1>20, <1>21, <1>22, <1>23, <1>24, <1>25 DEF Next, WriterStep, RunStep, Watch, Send

LEMMA InitFeed == Init => Unique /\ Feed
<1> SUFFICES ASSUME Init PROVE Unique /\ Feed OBVIOUS
<1>1. log["task_log"] = {} /\ seen = {} /\ spc = "off" BY Streams DEF Init
<1> QED BY <1>1 DEF Unique, Feed, Sending, NothingSkipped

LEMMA Delivery == Spec => [](TypeOK /\ Locked /\ Unique /\ Feed)
<1>1. Init => TypeOK /\ Locked /\ Unique /\ Feed BY InitTypes, InitFeed
<1>2. TypeOK /\ Locked /\ Unique /\ Feed /\ [Next]_vars => (TypeOK /\ Locked /\ Unique /\ Feed)'
  BY TypeStep, UniqueStep, FeedStep
<1> QED BY <1>1, <1>2, PTL DEF Spec

\* The page has every wanted record up to its cursor, for any number of writers,
\* any batches, filters and faults: no record is passed over.
THEOREM DeliversAll == Spec => []NothingSkipped
<1>1. Feed => NothingSkipped BY DEF Feed
<1> QED BY <1>1, Delivery, PTL

\* A record that the page has is never sent to it again.
THEOREM DeliversOnce == Spec => []SentOnce
<1>1. TypeOK /\ Locked /\ Unique /\ Feed => SentOnce
  <2> SUFFICES ASSUME TypeOK, Feed, spc = "send", at = "task_log", NEW r \in rows PROVE r.seq > cursor
    BY DEF SentOnce
  <2>1. r.seq > cur["task_log"] /\ cursor <= cur["task_log"] BY DEF Feed, Sending
  <2>2. cursor \in Nat /\ cur["task_log"] \in Nat /\ r \in log["task_log"] BY Streams DEF TypeOK, BoundsOK
  <2>3. r.seq \in Nat BY <2>2, Streams DEF TypeOK, TablesOK
  <2> QED BY <2>1, <2>2, <2>3
<1> QED BY <1>1, Delivery, PTL

(***************************************************************************)
(* Requests that are repeated. An append_id that was used is found by      *)
(* every later request, under the lock of the stream.                      *)
(***************************************************************************)

\* The records of the entries of a request, at the numbers of a range.
Copies(id, entries, range) ==
  \A i \in DOMAIN entries :
    \E r \in log["task_log"] :
      /\ r.seq = range.first + i - 1 /\ r.seq <= range.last
      /\ r.value = [id |-> id, index |-> i, value |-> entries[i].value]

Repeats ==
  /\ \A p \in appends : p.id # NoId /\ Copies(p.id, p.entries, p.range)
  /\ \A r \in log["task_log"] : r.value.id # NoId => \E p \in appends : p.id = r.value.id
  /\ \A r, q \in log["task_log"] :
       r.value.id # NoId /\ r.value.id = q.value.id /\ r.value.index = q.value.index => r = q
  /\ \A w \in Writer : wpc[w] = "answered" => Copies(AppendId[w], Entries[w], reply[w])

\* Only writers write the task log and answer requests.
LEMMA Untouched ==
  ASSUME TypeOK, [Next]_vars, ~WriterStep
  PROVE  log'["task_log"] = log["task_log"] /\ UNCHANGED <<appends, writers>>
<1>1. CASE Watch \/ LoseListener \/ Disconnect \/ UNCHANGED vars
  BY <1>1 DEF Watch, Connect, Snapshot, Greet, LogEnd, StatusEnd, Skip, Read, Send, SendLog,
     SendAction, Drop, SendRun, Advance, Notified, Reconnect, LoseListener, Disconnect, vars, tables
<1>2. CASE RunStep
  <2>1. log = [s \in Stream |-> log[s]] BY DEF TypeOK, TablesOK
  <2> QED BY <1>2, <2>1, Streams DEF RunStep, Change, ActionEvent, Reset, Record
<1> QED BY <1>1, <1>2 DEF Next

\* What is in the log stays there.
LEMMA Copies_stay ==
  ASSUME log["task_log"] \subseteq log'["task_log"], NEW id, NEW entries, NEW range,
         Copies(id, entries, range)
  PROVE  Copies(id, entries, range)'
BY DEF Copies

LEMMA Commit_repeats ==
  ASSUME TypeOK, Locked, Repeats, NEW w \in Writer, Commit(w) PROVE Repeats'
<1>0. TablesOK /\ WritersOK BY DEF TypeOK
<1>1. log'["task_log"] = log["task_log"] \cup Inserted(w)
  BY <1>0, Streams DEF Commit, TablesOK
<1>2. \A i \in DOMAIN Entries[w] : i \in Nat /\ i <= Len(Entries[w])
  BY LogAssumption
<1>3. /\ next["task_log"] \in Nat /\ Len(Entries[w]) \in Nat
      /\ reply[w].first = next["task_log"] /\ reply[w].last = next["task_log"] + Len(Entries[w]) - 1
  BY <1>0, LogAssumption, Streams DEF Commit, Locked, TablesOK
<1>4. \A r \in Inserted(w) : r.value.id = AppendId[w]
  BY DEF Inserted, Event
<1>5. (Copies(AppendId[w], Entries[w], reply[w]))'
  <2> SUFFICES ASSUME NEW i \in DOMAIN Entries[w]
               PROVE  \E r \in log'["task_log"] :
                        /\ r.seq = reply'[w].first + i - 1 /\ r.seq <= reply'[w].last
                        /\ r.value = [id |-> AppendId[w], index |-> i, value |-> Entries[w][i].value]
    BY DEF Copies
  <2> DEFINE r == Event(reply[w].first + i - 1, Entries[w][i].key,
                        [id |-> AppendId[w], index |-> i, value |-> Entries[w][i].value])
  <2>1. r \in log'["task_log"] BY <1>1 DEF Inserted
  <2>2. /\ r.seq = reply[w].first + i - 1
        /\ r.value = [id |-> AppendId[w], index |-> i, value |-> Entries[w][i].value]
    BY DEF Event
  <2> HIDE DEF r
  <2>3. r.seq <= reply[w].last BY <1>2, <1>3, <2>2
  <2>4. reply' = reply BY DEF Commit
  <2> QED BY <2>1, <2>2, <2>3, <2>4
<1>6. \A p \in appends : p.id # AppendId[w] \/ AppendId[w] = NoId
  BY DEF Commit, Previous
<1>7. appends' = IF AppendId[w] = NoId THEN appends
                 ELSE appends \cup {[id |-> AppendId[w], entries |-> Entries[w], range |-> reply[w]]}
  BY DEF Commit
<1>8. \A p \in appends' : p.id # NoId /\ (Copies(p.id, p.entries, p.range))'
  <2>1. ASSUME NEW p \in appends PROVE p.id # NoId /\ (Copies(p.id, p.entries, p.range))'
    BY <1>1, <2>1, Copies_stay DEF Repeats
  <2>2. ASSUME NEW p \in appends' \ appends
        PROVE  p.id # NoId /\ (Copies(p.id, p.entries, p.range))'
    <3>1. p.id = AppendId[w] /\ p.id # NoId /\ p.entries = Entries[w] /\ p.range = reply'[w]
      BY <1>7, <2>2 DEF Commit
    <3> QED BY <1>5, <3>1 DEF Copies
  <2> QED BY <2>1, <2>2
<1>9. \A r \in log'["task_log"] : r.value.id # NoId => \E p \in appends' : p.id = r.value.id
  <2>1. ASSUME AppendId[w] # NoId PROVE \E p \in appends' : p.id = AppendId[w]
    <3> DEFINE p == [id |-> AppendId[w], entries |-> Entries[w], range |-> reply[w]]
    <3>1. p \in appends' /\ p.id = AppendId[w] BY <1>7, <2>1
    <3> QED BY <3>1
  <2>2. appends \subseteq appends' BY <1>7
  <2> QED BY <1>1, <1>4, <2>1, <2>2 DEF Repeats
<1>10. ASSUME NEW r \in log'["task_log"], NEW q \in log'["task_log"], r.value.id # NoId,
              r.value.id = q.value.id, r.value.index = q.value.index
       PROVE  r = q
  <2>1. CASE r.value.id = AppendId[w]
    <3>1. r \in Inserted(w) /\ q \in Inserted(w) BY <1>1, <1>6, <1>10, <2>1 DEF Repeats
    <3>2. PICK i \in DOMAIN Entries[w] :
            r = Event(reply[w].first + i - 1, Entries[w][i].key,
                      [id |-> AppendId[w], index |-> i, value |-> Entries[w][i].value])
      BY <3>1 DEF Inserted
    <3>3. PICK j \in DOMAIN Entries[w] :
            q = Event(reply[w].first + j - 1, Entries[w][j].key,
                      [id |-> AppendId[w], index |-> j, value |-> Entries[w][j].value])
      BY <3>1 DEF Inserted
    <3>4. i = j BY <1>10, <3>2, <3>3 DEF Event
    <3> QED BY <3>2, <3>3, <3>4
  <2>2. CASE r.value.id # AppendId[w]
    BY <1>1, <1>4, <1>10, <2>2 DEF Repeats
  <2> QED BY <2>1, <2>2
<1>11. ASSUME NEW v \in Writer, wpc'[v] = "answered"
       PROVE  (Copies(AppendId[v], Entries[v], reply[v]))'
  <2>1. CASE v = w BY <1>5, <2>1
  <2>2. CASE v # w
    <3>1. wpc[v] = "answered" /\ reply'[v] = reply[v]
      BY <1>0, <1>11, <2>2 DEF Commit, WritersOK
    <3>2. Copies(AppendId[v], Entries[v], reply[v]) BY <3>1 DEF Repeats
    <3> QED BY <1>1, <3>1, <3>2 DEF Copies
  <2> QED BY <2>1, <2>2
<1> QED BY <1>8, <1>9, <1>10, <1>11 DEF Repeats

\* The other steps of writers leave the tables as they are.
LEMMA Writer_repeats ==
  ASSUME TypeOK, Repeats, NEW w \in Writer, Lock(w) \/ Repeat(w) \/ Rollback(w) \/ Retry(w)
  PROVE  Repeats'
<1>0. WritersOK BY DEF TypeOK
<1>1. UNCHANGED <<log, appends>>
  BY DEF Lock, Repeat, Rollback, Retry, tables
<1>2. ASSUME NEW v \in Writer, wpc'[v] = "answered"
      PROVE  Copies(AppendId[v], Entries[v], reply'[v])
  <2>1. CASE v # w
    <3>1. wpc'[v] = wpc[v] /\ reply'[v] = reply[v]
      BY <1>0, <2>1 DEF Lock, Repeat, Rollback, Retry, WritersOK
    <3> QED BY <1>2, <3>1 DEF Repeats
  <2>2. CASE v = w
    <3>1. Repeat(w) BY <1>0, <1>2, <2>2 DEF Lock, Rollback, Retry, WritersOK
    <3>2. PICK p \in Previous(w) :
            IF p.entries = Entries[w]
            THEN wpc' = [wpc EXCEPT ![w] = "answered"] /\ reply' = [reply EXCEPT ![w] = p.range]
            ELSE wpc' = [wpc EXCEPT ![w] = "refused"]
      BY <3>1 DEF Repeat
    <3>3. p.entries = Entries[w] /\ reply'[w] = p.range
      BY <1>0, <1>2, <2>2, <3>2 DEF WritersOK
    <3>4. p \in appends /\ p.id = AppendId[w] BY <3>2 DEF Previous
    <3> QED BY <2>2, <3>3, <3>4 DEF Repeats
  <2> QED BY <2>1, <2>2
<1>3. \A v \in Writer : wpc'[v] = "answered" => (Copies(AppendId[v], Entries[v], reply[v]))'
  BY <1>1, <1>2 DEF Copies
<1> QED BY <1>1, <1>3 DEF Repeats, Copies

LEMMA Repeats_next == TypeOK /\ Locked /\ Repeats /\ [Next]_vars => Repeats'
<1> SUFFICES ASSUME TypeOK, Locked, Repeats, [Next]_vars PROVE Repeats' OBVIOUS
<1>1. CASE WriterStep
  BY <1>1, Commit_repeats, Writer_repeats DEF WriterStep
<1>2. CASE ~WriterStep
  <2>1. log'["task_log"] = log["task_log"] /\ UNCHANGED <<appends, wpc, reply>>
    BY <1>2, Untouched DEF writers
  <2> QED BY <2>1 DEF Repeats, Copies
<1> QED BY <1>1, <1>2

\* An append_id leaves one copy of each entry, however often and by whomever its
\* request is repeated, and every answer names the records that hold the entries.
THEOREM AppendsOnce == Spec => []AppendedOnce
<1>1. Init => Repeats
  BY Streams DEF Init, Repeats
<1>2. Repeats => AppendedOnce
  BY DEF Repeats, AppendedOnce, Copies
<1> QED BY <1>1, <1>2, Repeats_next, Delivery, PTL DEF Spec

(***************************************************************************)
(* What the page shows. The status stream tells the versions of the run in *)
(* their order and its end last; the watch sends what comes after its      *)
(* snapshot, and in phase 2 everything up to ends that were read after the *)
(* run had ended.                                                          *)
(***************************************************************************)

\* The status stream and the run. There is one terminal event.
Statuses ==
  /\ \A r, q \in log["status"] : r.seq = q.seq => r = q
  /\ \A r, q \in log["status"] : r.seq <= q.seq => r.value.version <= q.value.version
  /\ \A r \in log["status"] : r.value.version <= run.version /\ (r.value.final => r.value = run)
  /\ \A e, f \in log["status"] :
       e.key = StatusKey /\ f.key = StatusKey /\ e.value.final /\ f.value.final => e = f
  /\ run.final => endedAt <= End("task_log")

\* Where the handler stands once the snapshot was sent.
After == {"read", "send", "wait", "logEnd", "statusEnd"}

\* The page shows the snapshot or an event that was sent, and no later version than
\* the run has.
Shows ==
  /\ shown.version <= run.version /\ (shown.final => shown = run)
  /\ spc \notin {"off", "snapshot"} =>
       /\ snap.run.version <= run.version /\ (snap.run.final => snap.run = run)
       /\ \A r \in log["status"] : r.seq > snap.end => r.value.version >= snap.run.version
  /\ spc = "greet" => shown.version <= snap.run.version
  /\ spc \in After => \/ shown = snap.run
                      \/ \E e \in log["status"] : e.value = shown /\ e.seq <= cur["status"]

\* The events up to the cursor were sent, and those up to the end of the batch are in it.
Events ==
  /\ spc = "send" /\ at = "status" =>
       /\ cur["status"] <= inspect
       /\ \A r \in rows : r.seq > cur["status"] /\ r.seq <= inspect
       /\ \A r \in log["status"] :
            Selects("status", r.key) /\ r.seq > cur["status"] /\ r.seq <= inspect => r \in rows
  /\ tasks /\ spc \in After =>
       \A r \in log["status"] : r.key = ActionKey /\ r.seq <= cur["status"] => r \in history

\* Phase 2 is bounded by ends that were read after the run had ended.
Ends ==
  /\ phase = 2 => shown.final /\ tasks
  /\ spc \in {"snapshot", "greet"} => phase = 1
  /\ spc \in {"logEnd", "statusEnd"} => phase = 2
  /\ phase = 2 /\ spc \in After \ {"logEnd"} => endedAt <= until["task_log"]
  /\ phase = 2 /\ spc \in {"read", "send", "wait"} =>
       \A e \in log["status"] : e.key = StatusKey /\ e.value.final => e.seq <= until["status"]

Base == TypeOK /\ Locked /\ Feed
Watched == Statuses /\ Shows /\ Events /\ Ends /\ DoneIsComplete

\* What the handler and the page know.
view == <<tasks, spc, snap, phase, at, cur, until, rows, inspect, cpc, cursor, seen, history, shown>>

\* Writers touch neither the run nor its status, and write behind the end of the log.
LEMMA Writer_frame ==
  ASSUME TypeOK, Locked, WriterStep
  PROVE  /\ UNCHANGED view /\ UNCHANGED <<run, endedAt>> /\ log'["status"] = log["status"]
         /\ \A r \in log'["task_log"] \ log["task_log"] : r.seq \in Nat /\ r.seq > End("task_log")
<1> USE DEF view
<1>0. TablesOK BY DEF TypeOK
<1>1. ASSUME NEW w \in Writer, Lock(w) \/ Repeat(w) \/ Rollback(w) \/ Retry(w)
      PROVE  UNCHANGED view /\ UNCHANGED <<run, endedAt, log>>
  BY <1>1 DEF Lock, Repeat, Rollback, Retry, tables, server, batch, page
<1>2. ASSUME NEW w \in Writer, Commit(w)
      PROVE  /\ UNCHANGED view /\ UNCHANGED <<run, endedAt>> /\ log'["status"] = log["status"]
             /\ \A r \in log'["task_log"] \ log["task_log"] : r.seq \in Nat /\ r.seq > End("task_log")
  <2>1. UNCHANGED view /\ UNCHANGED <<run, endedAt>> BY <1>2 DEF Commit, server, batch, page
  <2>2. log'["status"] = log["status"] /\ log'["task_log"] = log["task_log"] \cup Inserted(w)
    BY <1>0, <1>2, Streams DEF Commit, TablesOK
  <2>3. reply[w].first = End("task_log") + 1 /\ End("task_log") \in Nat
    <3>1. reply[w].first = next["task_log"] BY <1>2 DEF Commit, Locked
    <3>2. next["task_log"] \in Nat \ {0} BY <1>0, Streams DEF TablesOK
    <3> QED BY <3>1, <3>2 DEF End
  <2>4. \A i \in DOMAIN Entries[w] : i \in Nat \ {0} BY LogAssumption
  <2>5. \A r \in Inserted(w) : r.seq \in Nat /\ r.seq > End("task_log")
    BY <2>3, <2>4 DEF Inserted, Event
  <2> QED BY <2>1, <2>2, <2>5
<1> QED BY <1>1, <1>2 DEF WriterStep

\* What a transaction that changes the run does: new events of its new value.
Changes ==
  /\ UNCHANGED view /\ log'["task_log"] = log["task_log"] /\ next'["task_log"] = next["task_log"]
  /\ log["status"] \subseteq log'["status"]
  /\ \A r \in log'["status"] \ log["status"] :
       r.seq \in Nat /\ r.seq > End("status") /\ r.value = run' /\ r.key \in {ActionKey, StatusKey}
  /\ \A r, q \in log'["status"] \ log["status"] : r.seq = q.seq \/ r.key = q.key => r = q
  /\ run' \in Row /\ run'.version >= run.version
  /\ run.final => run' = run /\ \A r \in log'["status"] \ log["status"] : r.key # StatusKey
  /\ endedAt' = IF ~run.final /\ run'.final THEN End("task_log") ELSE endedAt

LEMMA Run_changes == ASSUME TypeOK, RunStep PROVE Changes
<1>0. TablesOK BY DEF TypeOK
<1>a. /\ next \in [Stream -> Nat \ {0}] /\ log = [s \in Stream |-> log[s]]
      /\ run \in Row /\ run.version \in Nat /\ run.final \in BOOLEAN
  BY <1>0 DEF TablesOK, Row
<1>b. ActionKey # StatusKey BY DEF ActionKey, StatusKey
<1>1. ASSUME NEW events, NEW last, Record(events, last)
      PROVE  /\ UNCHANGED view /\ next'["task_log"] = next["task_log"]
             /\ log'["task_log"] = log["task_log"] /\ log'["status"] = log["status"] \cup events
  BY <1>1, <1>a, Streams DEF Record, view, server, batch, page
<1>2. ASSUME NEW final \in BOOLEAN, NEW hit \in BOOLEAN, Change(final, hit) PROVE Changes
  <2> DEFINE changed == [final |-> final, version |-> run.version + 1]
             n == next["status"]
  <2>1. /\ changed \in Row /\ changed.version >= run.version /\ changed.final = final
        /\ run' = changed /\ ~run.final
        /\ endedAt' = IF final THEN End("task_log") ELSE endedAt
    BY <1>a, <1>2 DEF Change, Row
  <2>2. n \in Nat \ {0} /\ n = End("status") + 1 /\ n + 1 # n
    BY <1>a, Streams DEF End
  <2> HIDE DEF changed
  <2>3. PICK events, last :
          /\ Record(events, last)
          /\ \A r \in events : /\ r.seq \in Nat /\ r.seq >= n /\ r.value = changed
                               /\ r.key \in {ActionKey, StatusKey}
          /\ \A r, q \in events : r.seq = q.seq \/ r.key = q.key => r = q
    <3>1. CASE hit
      <4>1. Record({Event(n, ActionKey, changed), Event(n + 1, StatusKey, changed)}, n + 1)
        BY <1>2, <3>1 DEF Change, changed
      <4> QED BY <1>b, <2>2, <4>1 DEF Event
    <3>2. CASE ~hit
      <4>1. Record({Event(n, StatusKey, changed)}, n) BY <1>2, <3>2 DEF Change, changed
      <4> QED BY <2>2, <4>1 DEF Event
    <3> QED BY <3>1, <3>2
  <2>4. \A r \in events : r.seq > End("status") BY <2>2, <2>3, <1>a, Streams DEF End
  <2> QED BY <1>1, <2>1, <2>3, <2>4 DEF Changes
<1>3. ASSUME ActionEvent PROVE Changes
  <2> DEFINE n == next["status"]
             event == Event(n, ActionKey, run)
  <2>1. UNCHANGED <<run, endedAt>> /\ Record({event}, n)
    BY <1>3 DEF ActionEvent
  <2>2. event.seq = n /\ event.value = run /\ event.key = ActionKey BY DEF Event
  <2>3. n \in Nat /\ n > End("status") BY <1>a, Streams DEF End
  <2> HIDE DEF event
  <2>4. /\ UNCHANGED view /\ next'["task_log"] = next["task_log"]
        /\ log'["task_log"] = log["task_log"] /\ log'["status"] = log["status"] \cup {event}
    BY <1>1, <2>1
  <2> QED BY <1>a, <1>b, <2>1, <2>2, <2>3, <2>4 DEF Changes
<1>4. ASSUME Reset PROVE Changes
  <2>1. /\ run' = [run EXCEPT !.version = run.version + 1] /\ ~run.final
        /\ UNCHANGED view /\ UNCHANGED <<log, next, endedAt>>
    BY <1>4 DEF Reset, view, server, batch, page
  <2>2. run' \in Row /\ run'.version >= run.version /\ run'.final = run.final
    BY <1>a, <2>1 DEF Row
  <2> QED BY <2>1, <2>2 DEF Changes
<1> QED BY <1>2, <1>3, <1>4 DEF RunStep

\* The watch reads what there is.
LEMMA Watch_frame ==
  ASSUME [Next]_vars, ~WriterStep, ~RunStep
  PROVE  UNCHANGED tables /\ UNCHANGED tasks
BY DEF Next, Watch, Connect, Snapshot, Greet, LogEnd, StatusEnd, Skip, Read, Send, SendLog,
   SendAction, Drop, SendRun, Advance, Notified, Reconnect, LoseListener, Disconnect, vars, tables

\* Facts about numbers and versions.
LEMMA Ranges ==
  ASSUME TypeOK
  PROVE  /\ \A s \in Stream : End(s) \in Nat /\ cur[s] \in Nat /\ until[s] \in Nat
         /\ \A s \in Stream : cur[s] <= End(s) /\ until[s] <= End(s)
         /\ \A s \in Stream : \A r \in log[s] : r.seq \in Nat /\ r.seq <= End(s) /\ r.seq > 0
         /\ \A r \in log["status"] : r.value \in Row /\ r.value.version \in Nat
         /\ run \in Row /\ run.version \in Nat /\ run.final \in BOOLEAN
         /\ snap.run \in Row /\ snap.run.version \in Nat /\ snap.end \in Nat /\ snap.end <= End("status")
         /\ shown \in Row /\ shown.version \in Nat
         /\ endedAt \in Nat /\ cursor \in Nat
         /\ cur = [s \in Stream |-> cur[s]] /\ until = [s \in Stream |-> until[s]]
         /\ spc = "send" => inspect \in Nat /\ inspect <= End(at) /\ rows \subseteq log[at]
<1>1. \A s \in Stream : next[s] \in Nat \ {0}
  BY DEF TypeOK, TablesOK
<1>2. \A s \in Stream : End(s) \in Nat
  BY <1>1 DEF End
<1>3. \A s \in Stream : \A r \in log[s] : r.seq \in Nat /\ r.seq <= End(s) /\ r.seq > 0
  BY <1>2 DEF TypeOK, TablesOK
<1>4. \A x \in Row : x.version \in Nat /\ x.final \in BOOLEAN
  BY DEF Row
<1>5. /\ \A s \in Stream : cur[s] \in Nat /\ until[s] \in Nat /\ cur[s] <= End(s) /\ until[s] <= End(s)
      /\ cursor \in Nat /\ snap.end <= End("status")
      /\ cur = [s \in Stream |-> cur[s]] /\ until = [s \in Stream |-> until[s]]
      /\ spc = "send" => inspect \in Nat /\ inspect <= End(at) /\ rows \subseteq log[at]
  BY <1>2, Streams DEF TypeOK, BoundsOK
<1>6. /\ snap.run \in Row /\ snap.end \in Nat /\ shown \in Row /\ run \in Row /\ endedAt \in Nat
      /\ \A r \in log["status"] : r.value \in Row
  BY DEF TypeOK, WatchOK, TablesOK
<1> QED BY <1>2, <1>3, <1>4, <1>5, <1>6

LEMMA Statuses_next == ASSUME TypeOK, Locked, Statuses, [Next]_vars PROVE Statuses'
<1>0. /\ End("task_log") \in Nat /\ endedAt \in Nat
      /\ (End("task_log"))' \in Nat /\ End("task_log") <= (End("task_log"))'
      /\ run.version \in Nat
      /\ \A r \in log["status"] : r.seq \in Nat /\ r.seq <= End("status")
      /\ \A r \in log["status"] : r.value.version \in Nat
      /\ End("status") \in Nat
  <2>1. TypeOK' BY TypeStep
  <2>2. next' \in [Stream -> Nat \ {0}] BY <2>1 DEF TypeOK, TablesOK
  <2>3. (End("task_log"))' \in Nat BY <2>2, Streams DEF End
  <2> QED BY <2>3, Ranges, Grows, Streams
<1>1. CASE ~RunStep
  <2>1. log'["status"] = log["status"] /\ UNCHANGED <<run, endedAt>>
    <3>1. CASE WriterStep BY <3>1, Writer_frame
    <3>2. CASE ~WriterStep BY <1>1, <3>2, Watch_frame DEF tables
    <3> QED BY <3>1, <3>2
  <2> QED BY <1>0, <2>1 DEF Statuses
<1>2. CASE RunStep
  <2>1. Changes BY <1>2, Run_changes
  <2> DEFINE New == log'["status"] \ log["status"]
  <2>2. /\ \A r \in log'["status"] : r \in log["status"] \/ r \in New
        /\ \A r \in New : r.seq \in Nat /\ r.seq > End("status") /\ r.value = run'
        /\ \A r, q \in New : r.seq = q.seq \/ r.key = q.key => r = q
        /\ run'.version \in Nat /\ run'.version >= run.version
        /\ run.final => run' = run /\ \A r \in New : r.key # StatusKey
        /\ endedAt' = IF ~run.final /\ run'.final THEN End("task_log") ELSE endedAt
    BY <2>1 DEF Changes, Row
  <2> HIDE DEF New
  <2>3. \A r, q \in log'["status"] : r.seq = q.seq => r = q
    BY <1>0, <2>2 DEF Statuses
  <2>4. \A r \in log'["status"] : r.value.version <= run'.version /\ (r.value.final => r.value = run')
    BY <1>0, <2>2 DEF Statuses
  <2>5. \A r, q \in log'["status"] : r.seq <= q.seq => r.value.version <= q.value.version
    BY <1>0, <2>2, <2>4 DEF Statuses
  <2>6. \A e, f \in log'["status"] :
          e.key = StatusKey /\ f.key = StatusKey /\ e.value.final /\ f.value.final => e = f
    BY <2>2 DEF Statuses
  <2>7. run'.final => endedAt' <= (End("task_log"))'
    BY <1>0, <2>2 DEF Statuses
  <2> QED BY <2>3, <2>4, <2>5, <2>6, <2>7 DEF Statuses
<1> QED BY <1>1, <1>2

\* What is written to the tables leaves true what the watch has found.
LEMMA Tables_watched ==
  ASSUME Base, Watched, [Next]_vars, WriterStep \/ RunStep
  PROVE  Shows' /\ Events' /\ Ends' /\ DoneIsComplete'
<1> DEFINE New == log'["status"] \ log["status"]
<1>0. /\ TypeOK /\ Locked /\ Feed /\ Statuses /\ Shows /\ Events /\ Ends /\ DoneIsComplete
  BY DEF Base, Watched
<1>1. /\ UNCHANGED view
      /\ log["status"] \subseteq log'["status"]
      /\ \A r \in New : r.seq \in Nat /\ r.seq > End("status") /\ r.value = run'
      /\ run'.version \in Nat /\ run'.version >= run.version
      /\ run.final => run' = run /\ endedAt' = endedAt /\ \A r \in New : r.key # StatusKey
      /\ \A r \in log'["task_log"] \ log["task_log"] : r.seq \in Nat /\ r.seq > End("task_log")
  <2>1. CASE WriterStep BY <1>0, <2>1, Writer_frame, Ranges
  <2>2. CASE RunStep BY <1>0, <2>2, Run_changes DEF Changes, Row
  <2> QED BY <2>1, <2>2
<1>2. /\ \A r \in log'["status"] : r \in log["status"] \/ r \in New
      /\ \A r \in log["status"] : r.seq \in Nat /\ r.seq <= End("status") /\ r.value.version \in Nat
      /\ {End("status"), End("task_log"), cur["status"], snap.end, run.version, endedAt} \subseteq Nat
      /\ {shown.version, snap.run.version} \subseteq Nat
      /\ cur["status"] <= End("status") /\ snap.end <= End("status")
      /\ spc = "send" => inspect \in Nat /\ inspect <= End(at)
  BY <1>0, Ranges, Streams
<1> HIDE DEF New
<1>3. Shows'
  <2>1. shown'.version <= run'.version /\ (shown'.final => shown' = run')
    BY <1>0, <1>1, <1>2 DEF Shows, view
  <2>2. spc' \notin {"off", "snapshot"} =>
          /\ snap'.run.version <= run'.version /\ (snap'.run.final => snap'.run = run')
          /\ \A r \in log'["status"] : r.seq > snap'.end => r.value.version >= snap'.run.version
    BY <1>0, <1>1, <1>2 DEF Shows, view
  <2> QED BY <1>0, <1>1, <2>1, <2>2 DEF Shows, view
<1>4. Events'
  <2>1. spc = "send" /\ at = "status" =>
          \A r \in log'["status"] : r.seq <= inspect => r \in log["status"]
    BY <1>1, <1>2
  <2>2. \A r \in log'["status"] : r.seq <= cur["status"] => r \in log["status"]
    BY <1>1, <1>2
  <2> QED BY <1>0, <1>1, <2>1, <2>2 DEF Events, view, Selects
<1>5. Ends'
  <2>1. phase = 2 => run.final
    BY <1>0 DEF Ends, Shows
  <2> QED BY <1>0, <1>1, <1>2, <2>1 DEF Ends, view
<1>6. DoneIsComplete'
  <2> SUFFICES ASSUME cpc' = "done" PROVE DoneIsComplete'
    BY DEF DoneIsComplete
  <2>1. cpc = "done" /\ shown = run /\ run.final BY <1>0, <1>1 DEF DoneIsComplete, view
  <2>2. run' = run /\ endedAt' = endedAt /\ endedAt <= End("task_log")
    BY <1>0, <1>1, <2>1 DEF Statuses
  <2>3. \A r \in log'["task_log"] : r.seq <= endedAt => r \in log["task_log"]
    BY <1>1, <1>2, <2>2
  <2>4. \A e \in log'["status"] : e.key = StatusKey => e \in log["status"]
    BY <1>1, <1>2, <2>1
  <2>5. \A e \in log["status"], r \in log'["status"] : r.seq < e.seq => r \in log["status"]
    BY <1>1, <1>2
  <2> QED BY <1>0, <1>1, <2>1, <2>2, <2>3, <2>4, <2>5 DEF DoneIsComplete, view, Mine
<1> QED BY <1>3, <1>4, <1>5, <1>6

\* A batch has every candidate as far as it reaches, and the cursor moves on.
LEMMA Batch ==
  ASSUME TypeOK, Read
  PROVE  /\ rows' \subseteq Candidates(at) /\ cur[at] <= inspect'
         /\ \A r \in rows' : r.seq > cur[at] /\ r.seq <= inspect'
         /\ \A r \in Candidates(at) : r.seq <= inspect' => r \in rows'
<1>1. at \in Stream BY DEF TypeOK, WatchOK
<1>2. PICK matched \in Batches(at), reach \in 0..End(at) :
        /\ Reaches(at, matched, reach)
        /\ rows' = {r \in matched : ~Cut(at, r)}
        /\ inspect' = IF {r \in matched : ~Cut(at, r)} # matched THEN until[at]
                      ELSE IF reach > cur[at] THEN reach ELSE cur[at]
  BY DEF Read
<1>3. /\ End(at) \in Nat /\ cur[at] \in Nat /\ until[at] \in Nat /\ reach \in Nat
      /\ \A r \in log[at] : r.seq \in Nat
  BY <1>1, <1>2, Ranges
<1>4. /\ \A r \in matched : r \in Candidates(at)
      /\ \A r \in matched, q \in Candidates(at) : q.seq <= r.seq => q \in matched
  BY <1>2 DEF Batches
<1>5. \A r \in Candidates(at) : r \in log[at] /\ r.seq \in Nat /\ r.seq > cur[at] /\ r.seq <= End(at)
  BY <1>3 DEF Candidates
<1>6. /\ \A r \in matched : r.seq <= reach
      /\ \A q \in Candidates(at) : q.seq <= reach => q \in matched
  <2>1. CASE Cardinality(matched) = BatchSize
    BY <1>2, <1>4, <2>1 DEF Reaches
  <2>2. CASE Cardinality(matched) # BatchSize
    BY <1>2, <1>4, <1>5, <2>2 DEF Reaches, Batches
  <2> QED BY <2>1, <2>2
<1>7. CASE {r \in matched : ~Cut(at, r)} # matched
  <2>1. PICK c \in matched : phase = 2 /\ c.seq > until[at] BY <1>7 DEF Cut
  <2>2. until[at] > cur[at] BY <1>3, <2>1 DEF Read, Exhausted
  <2>3. \A r \in rows' : r.seq <= until[at] BY <1>2, <1>3, <1>4, <1>5, <2>1 DEF Cut
  <2>4. \A r \in Candidates(at) : r.seq <= until[at] => r \in rows'
    <3> SUFFICES ASSUME NEW r \in Candidates(at), r.seq <= until[at] PROVE r \in rows'
      OBVIOUS
    <3>1. r.seq <= c.seq BY <1>3, <1>4, <1>5, <2>1
    <3>2. r \in matched BY <1>4, <3>1
    <3> QED BY <1>2, <1>3, <1>5, <3>2 DEF Cut
  <2> QED BY <1>2, <1>3, <1>4, <1>5, <1>7, <2>2, <2>3, <2>4
<1>8. CASE {r \in matched : ~Cut(at, r)} = matched
  <2>1. rows' = matched /\ inspect' = IF reach > cur[at] THEN reach ELSE cur[at]
    BY <1>2, <1>8
  <2> QED BY <1>3, <1>4, <1>5, <1>6, <2>1
<1> QED BY <1>7, <1>8

\* A step of the watch that sends nothing and moves no cursor of the status stream.
LEMMA Idle_watched ==
  ASSUME Base, Watched, UNCHANGED tables,
         UNCHANGED <<tasks, snap, phase, shown, seen, history>>, cur' = cur, until' = until,
         spc \in After, spc' \in After \cup {"off"}, spc' # "send",
         spc' \in {"logEnd", "statusEnd"} => spc' = spc,
         spc \in {"logEnd", "statusEnd"} => spc' = spc,
         cpc' = "done" => cpc = "done" \/ DoneIsComplete'
  PROVE  Watched'
<1>1. Statuses' BY DEF Watched, Statuses, tables, End
<1>2. Shows' BY DEF Watched, Shows, tables, After
<1>3. Events' BY DEF Watched, Events, tables, After
<1>4. Ends' BY DEF Watched, Ends, tables, After
<1>5. DoneIsComplete' BY DEF Watched, DoneIsComplete, tables, Mine
<1> QED BY <1>1, <1>2, <1>3, <1>4, <1>5 DEF Watched

\* Phase 2 returns when both cursors have reached their ends: then everything is sent.
LEMMA Return_complete ==
  ASSUME Base, Watched, UNCHANGED tables, UNCHANGED <<tasks, shown, seen, history>>,
         phase = 2, spc \in {"read", "send"},
         NEW c \in [Stream -> Nat], \A s \in {FirstRound, "status"} : Exhausted(s, c),
         \A r \in log["task_log"] : Mine(r) /\ r.seq <= c["task_log"] => r.seq <= cursor,
         \A r \in log["status"] : r.key = ActionKey /\ r.seq <= c["status"] => r \in history
  PROVE  DoneIsComplete'
<1>0. /\ TypeOK /\ Feed /\ Statuses /\ Shows /\ Events /\ Ends
  BY DEF Base, Watched
<1>1. /\ shown.final /\ tasks /\ shown = run /\ endedAt <= until["task_log"]
      /\ \A e \in log["status"] : e.key = StatusKey /\ e.value.final => e.seq <= until["status"]
  BY <1>0 DEF Ends, Shows, After
<1>2. c["task_log"] >= until["task_log"] /\ c["status"] >= until["status"]
  BY <1>1 DEF Exhausted, FirstRound
<1>3. /\ c["task_log"] \in Nat /\ c["status"] \in Nat /\ endedAt \in Nat
      /\ until["task_log"] \in Nat /\ until["status"] \in Nat
      /\ \A s \in Stream : \A r \in log[s] : r.seq \in Nat
  BY <1>0, Ranges, Streams
<1>4. \A r \in log["task_log"] : Mine(r) /\ r.seq <= endedAt => r \in seen
  <2> SUFFICES ASSUME NEW r \in log["task_log"], Mine(r), r.seq <= endedAt PROVE r \in seen
    OBVIOUS
  <2>1. r.seq <= c["task_log"] BY <1>1, <1>2, <1>3, Streams
  <2> QED BY <1>0, <2>1 DEF Feed, NothingSkipped
<1>5. \A e, r \in log["status"] :
        e.key = StatusKey /\ e.value.final /\ r.key = ActionKey /\ r.seq < e.seq => r \in history
  <2> SUFFICES ASSUME NEW e \in log["status"], NEW r \in log["status"], e.key = StatusKey,
                      e.value.final, r.key = ActionKey, r.seq < e.seq
               PROVE  r \in history
    OBVIOUS
  <2>1. e.seq <= until["status"] BY <1>1
  <2>2. r.seq <= c["status"] BY <1>2, <1>3, <2>1, Streams
  <2> QED BY <2>2
<1> QED BY <1>1, <1>4, <1>5 DEF DoneIsComplete, tables, Mine

\* Run goes on to the next cursor, or returns when both are exhausted.
LEMMA Next_cursor ==
  ASSUME NEW c, NextCursor(c)
  PROVE  /\ spc' \in {"read", "wait", "off"}
         /\ \/ spc' # "off" /\ cpc' = cpc
            \/ spc' = "off" /\ at = "status" /\ \A s \in {FirstRound, "status"} : Exhausted(s, c)
BY DEF NextCursor, Return, StartRound, listener

LEMMA Open_watched ==
  ASSUME Base, Watched, Connect \/ Snapshot \/ Greet PROVE Watched'
<1>0. /\ TypeOK /\ Feed /\ Statuses /\ Shows /\ Events /\ Ends /\ DoneIsComplete
      /\ UNCHANGED tables /\ UNCHANGED tasks
  BY DEF Base, Watched, Connect, Snapshot, Greet
<1>1. Statuses' BY <1>0 DEF Statuses, tables, End
<1>2. /\ {End("status"), cur["status"], snap.end, run.version, shown.version} \subseteq Nat
      /\ \A r \in log["status"] : r.seq \in Nat /\ r.seq <= End("status") /\ r.seq > 0
      /\ cur = [s \in Stream |-> cur[s]]
  BY <1>0, Ranges, Streams
<1>3. CASE Connect
  <2>1. spc' = "snapshot" /\ phase' = 1 /\ cpc' = "on" /\ shown' = shown
    BY <1>3 DEF Connect
  <2> QED BY <1>0, <1>1, <2>1 DEF Watched, Shows, Events, Ends, DoneIsComplete, tables, After
<1>4. CASE Snapshot
  <2>1. /\ spc' = "greet" /\ UNCHANGED <<phase, cpc, shown>> /\ spc = "snapshot"
        /\ snap' = [run |-> run, end |-> End("status")]
    BY <1>4 DEF Snapshot, page
  <2>2. snap'.run = run /\ snap'.end = End("status")
    BY <2>1
  <2>3. cpc # "done" BY <1>0, <2>1 DEF TypeOK, WatchOK
  <2>4. Shows' BY <1>0, <1>2, <2>1, <2>2 DEF Shows, tables, After
  <2> QED BY <1>0, <1>1, <2>1, <2>3, <2>4 DEF Watched, Events, Ends, DoneIsComplete, tables, After
<1>5. CASE Greet
  <2>1. /\ spc = "greet" /\ shown' = snap.run /\ UNCHANGED <<until, history, seen>>
        /\ snap' = [snap EXCEPT !.end = snap.end]
        /\ cur' = [cur EXCEPT !["status"] = IF tasks THEN 0 ELSE snap.end]
    BY <1>5 DEF Greet, Boundary
  <2>2. snap'.run = snap.run /\ snap'.end = snap.end /\ cur'["status"] = IF tasks THEN 0 ELSE snap.end
    BY <1>0, <1>2, <2>1, Streams DEF TypeOK, WatchOK
  <2>3. /\ snap.run.version <= run.version /\ (snap.run.final => snap.run = run)
        /\ \A r \in log["status"] : r.seq > snap.end => r.value.version >= snap.run.version
    BY <1>0, <2>1 DEF Shows
  <2>4. /\ cpc # "done"
        /\ \/ /\ snap.run.final /\ ~tasks /\ spc' = "off" /\ UNCHANGED phase
           \/ /\ snap.run.final /\ tasks /\ phase' = 2 /\ spc' = "logEnd" /\ UNCHANGED cpc
           \/ /\ spc' = "read" /\ UNCHANGED phase /\ UNCHANGED cpc /\ ~snap.run.final
    BY <1>0, <1>5, <2>1 DEF Greet, Return, StartRound, TypeOK, WatchOK
  <2>5. Shows' BY <1>0, <2>1, <2>2, <2>3, <2>4 DEF Shows, tables, After
  <2>6. Events'
    <3>1. spc' # "send" BY <2>4
    <3>2. tasks => \A r \in log["status"] : ~(r.seq <= cur'["status"]) BY <1>2, <2>2
    <3> QED BY <1>0, <3>1, <3>2 DEF Events, tables
  <2>7. Ends'
    <3>1. phase = 1 BY <1>0, <2>1 DEF Ends
    <3> QED BY <1>0, <2>1, <2>4, <3>1 DEF Ends, tables, After
  <2>8. DoneIsComplete'
    BY <1>0, <2>1, <2>3, <2>4 DEF DoneIsComplete, tables
  <2> QED BY <1>1, <2>5, <2>6, <2>7, <2>8 DEF Watched
<1> QED BY <1>3, <1>4, <1>5

LEMMA Bound_watched == ASSUME Base, Watched, LogEnd \/ StatusEnd PROVE Watched'
<1>0. /\ TypeOK /\ Feed /\ Statuses /\ Shows /\ Events /\ Ends /\ DoneIsComplete
      /\ UNCHANGED tables /\ UNCHANGED <<tasks, snap, phase, cur, cpc, seen, history, shown>>
  BY DEF Base, Watched, LogEnd, StatusEnd, page
<1>1. Statuses' BY <1>0 DEF Statuses, tables, End
<1>2. /\ \A r \in log["status"] : r.seq \in Nat /\ r.seq <= End("status")
      /\ until = [s \in Stream |-> until[s]]
  BY <1>0, Ranges, Streams
<1>3. /\ spc \in {"logEnd", "statusEnd"} /\ spc' \in {"statusEnd", "read"} /\ phase = 2
      /\ shown.final /\ tasks /\ run.final
  BY <1>0 DEF LogEnd, StatusEnd, StartRound, Ends, Shows
<1>4. Shows' BY <1>0, <1>3 DEF Shows, tables, After
<1>5. Events' BY <1>0, <1>3 DEF Events, tables, After
<1>6. Ends'
  <2>1. CASE LogEnd
    <3>1. spc' = "statusEnd" /\ until'["task_log"] = End("task_log")
      BY <1>2, <2>1, Streams DEF LogEnd
    <3> QED BY <1>0, <1>3, <3>1 DEF Ends, Statuses, tables, After
  <2>2. CASE StatusEnd
    <3>1. /\ spc' = "read" /\ until'["status"] = End("status")
          /\ until'["task_log"] = until["task_log"] /\ spc = "statusEnd"
      BY <1>2, <2>2, Streams DEF StatusEnd, StartRound
    <3> QED BY <1>0, <1>2, <1>3, <3>1 DEF Ends, tables, After
  <2> QED BY <2>1, <2>2
<1>7. DoneIsComplete' BY <1>0 DEF DoneIsComplete, tables, Mine
<1> QED BY <1>1, <1>4, <1>5, <1>6, <1>7 DEF Watched

LEMMA Turn_watched ==
  ASSUME Base, Watched, Skip \/ Reconnect \/ \E s \in Stream : Notified(s) PROVE Watched'
<1>0. /\ TypeOK /\ Feed /\ Events /\ WatchOK
      /\ UNCHANGED tables /\ UNCHANGED <<tasks, snap, phase, cur, until, seen, history, shown>>
      /\ spc \in {"read", "wait"} /\ spc' \in {"read", "wait", "off"}
  BY Next_cursor DEF Base, Watched, TypeOK, Skip, Reconnect, Resumed, Notified, StartRound, page
<1>1. cpc' = "done" => DoneIsComplete'
  <2>1. CASE Reconnect \/ \E s \in Stream : Notified(s)
    <3>1. cpc' = cpc /\ spc # "off" BY <1>0, <2>1 DEF Reconnect, Notified, page
    <3> QED BY <1>0, <3>1 DEF WatchOK
  <2>2. CASE Skip
    <3>1. CASE spc' # "off"
      <4>1. cpc' = cpc BY <2>2, <3>1, Next_cursor DEF Skip
      <4> QED BY <1>0, <4>1 DEF WatchOK
    <3>2. CASE spc' = "off"
      <4>1. /\ \A s \in {FirstRound, "status"} : Exhausted(s, cur)
            /\ spc = "read"
        BY <2>2, <3>2, Next_cursor DEF Skip
      <4>2. phase = 2 BY <4>1 DEF Exhausted
      <4>3. tasks BY <4>2 DEF Watched, Ends
      <4>4. /\ \A r \in log["task_log"] : Mine(r) /\ r.seq <= cur["task_log"] => r.seq <= cursor
            /\ \A r \in log["status"] : r.key = ActionKey /\ r.seq <= cur["status"] => r \in history
        BY <1>0, <4>1, <4>3 DEF Feed, Sending, Events, After
      <4>5. cur \in [Stream -> Nat] BY <1>0 DEF TypeOK, BoundsOK
      <4> QED BY <1>0, <4>1, <4>2, <4>4, <4>5, Return_complete
    <3> QED BY <3>1, <3>2
  <2> QED BY <2>1, <2>2
<1> QED BY <1>0, <1>1, Idle_watched DEF After

LEMMA Read_watched == ASSUME Base, Watched, Read PROVE Watched'
<1>0. /\ TypeOK /\ Feed /\ Statuses /\ Shows /\ Events /\ Ends /\ DoneIsComplete
      /\ UNCHANGED tables
      /\ UNCHANGED <<tasks, snap, phase, at, cur, until, cpc, seen, history, shown>>
      /\ spc = "read" /\ spc' = "send"
  BY DEF Base, Watched, Read, page
<1>1. Statuses' BY <1>0 DEF Statuses, tables, End
<1>2. Shows' BY <1>0 DEF Shows, tables, After
<1>3. Events'
  <2>1. ASSUME at = "status"
        PROVE  /\ cur["status"] <= inspect'
               /\ \A r \in rows' : r.seq > cur["status"] /\ r.seq <= inspect'
               /\ \A r \in log["status"] :
                    Selects("status", r.key) /\ r.seq > cur["status"] /\ r.seq <= inspect' => r \in rows'
    <3>1. \A r \in log["status"] : r.seq <= End("status") BY <1>0, Ranges, Streams
    <3> QED BY <1>0, <2>1, <3>1, Batch DEF Candidates
  <2> QED BY <1>0, <2>1 DEF Events, Selects, tables, After
<1>4. Ends' BY <1>0 DEF Ends, tables, After
<1>5. DoneIsComplete' BY <1>0 DEF DoneIsComplete, tables, Mine
<1> QED BY <1>1, <1>2, <1>3, <1>4, <1>5 DEF Watched

LEMMA Advance_watched == ASSUME Base, Watched, Advance PROVE Watched'
<1>0. /\ TypeOK /\ Feed /\ Statuses /\ Shows /\ Events /\ Ends /\ DoneIsComplete
      /\ UNCHANGED tables /\ UNCHANGED <<tasks, snap, phase, until, cursor, seen, history, shown>>
      /\ spc = "send" /\ rows = {} /\ cur' = [cur EXCEPT ![at] = inspect]
      /\ NextCursor(cur')
  BY DEF Base, Watched, Advance
<1>1. /\ spc' \in {"read", "wait", "off"}
      /\ \/ spc' # "off" /\ cpc' = cpc
         \/ spc' = "off" /\ at = "status" /\ \A s \in {FirstRound, "status"} : Exhausted(s, cur')
  BY <1>0, Next_cursor
<1>2. /\ at \in Stream /\ inspect \in Nat /\ cur \in [Stream -> Nat] /\ cpc # "done"
      /\ \A r \in log["status"] : r.seq \in Nat
  BY <1>0, Ranges, Streams DEF TypeOK, WatchOK, BoundsOK
<1>3. cur' \in [Stream -> Nat] /\ (at # "status" => cur'["status"] = cur["status"])
      /\ (at = "status" => cur'["status"] = inspect /\ cur'["task_log"] = cur["task_log"])
  BY <1>0, <1>2, Streams
<1>4. Statuses' BY <1>0 DEF Statuses, tables, End
<1>5. cur["status"] <= cur'["status"]
  BY <1>0, <1>2, <1>3, Streams DEF Events
<1>6. Shows'
  <2>1. \A e \in log["status"] : e.seq <= cur["status"] => e.seq <= cur'["status"]
    BY <1>2, <1>3, <1>5, Streams
  <2> QED BY <1>0, <1>1, <2>1 DEF Shows, tables, After
<1>7. tasks => \A r \in log["status"] : r.key = ActionKey /\ r.seq <= cur'["status"] => r \in history
  <2> SUFFICES ASSUME tasks, NEW r \in log["status"], r.key = ActionKey, r.seq <= cur'["status"]
               PROVE  r \in history
    OBVIOUS
  <2>1. CASE r.seq <= cur["status"] BY <1>0, <2>1 DEF Events, After
  <2>2. CASE ~(r.seq <= cur["status"])
    <3>1. at = "status" BY <1>3, <2>2
    <3>2. r.seq > cur["status"] /\ Selects("status", r.key) BY <1>2, <2>2, Streams DEF Selects
    <3> QED BY <1>0, <1>3, <3>1, <3>2 DEF Events
  <2> QED BY <2>1, <2>2
<1>8. Events' BY <1>0, <1>1, <1>7 DEF Events, tables, After
<1>9. Ends' BY <1>0, <1>1 DEF Ends, tables, After
<1>10. DoneIsComplete'
  <2>1. CASE spc' # "off" BY <1>0, <1>1, <1>2, <2>1 DEF DoneIsComplete
  <2>2. CASE spc' = "off"
    <3>1. at = "status" /\ \A s \in {FirstRound, "status"} : Exhausted(s, cur')
      BY <1>1, <2>2
    <3>2. phase = 2 /\ tasks BY <1>0, <3>1 DEF Exhausted, Ends
    <3>3. \A r \in log["task_log"] : Mine(r) /\ r.seq <= cur'["task_log"] => r.seq <= cursor
      BY <1>0, <1>3, <3>1 DEF Feed, Sending
    <3> QED BY <1>0, <1>3, <1>7, <3>1, <3>2, <3>3, Return_complete
  <2> QED BY <2>1, <2>2
<1> QED BY <1>4, <1>6, <1>8, <1>9, <1>10 DEF Watched

\* An event is sent after all that come before it, so those after it stay to be sent and
\* the actions' events up to it have been sent.
LEMMA Sent_status ==
  ASSUME Base, Watched, at = "status", NEW r \in rows, Ready(r)
  PROVE  /\ r \in log["status"] /\ r.seq \in Nat /\ r.seq > cur["status"] /\ r.seq <= inspect
         /\ \A q \in rows \ {r} : q.seq > r.seq /\ q.seq <= inspect
         /\ \A q \in log["status"] :
              Selects("status", q.key) /\ q.seq > r.seq /\ q.seq <= inspect => q \in rows \ {r}
         /\ tasks => \A q \in log["status"] :
                       q.key = ActionKey /\ q.seq <= r.seq => q \in history \/ q = r
<1>1. /\ TypeOK /\ Statuses /\ Events /\ spc = "send" /\ \A q \in rows : r.seq <= q.seq
  BY DEF Base, Watched, Ready
<1>2. /\ rows \subseteq log["status"] /\ inspect \in Nat /\ cur["status"] \in Nat
      /\ \A q \in log["status"] : q.seq \in Nat
  BY <1>1, Ranges, Streams
<1>3. /\ \A q \in rows : q.seq > cur["status"] /\ q.seq <= inspect
      /\ \A q \in log["status"] :
           Selects("status", q.key) /\ q.seq > cur["status"] /\ q.seq <= inspect => q \in rows
      /\ tasks => \A q \in log["status"] : q.key = ActionKey /\ q.seq <= cur["status"] => q \in history
      /\ \A p, q \in log["status"] : p.seq = q.seq => p = q
  BY <1>1 DEF Events, Statuses, After
<1>4. \A q \in rows \ {r} : q.seq > r.seq
  BY <1>1, <1>2, <1>3
<1>5. \A q \in log["status"] :
        Selects("status", q.key) /\ q.seq > r.seq /\ q.seq <= inspect => q \in rows \ {r}
  BY <1>2, <1>3
<1>6. tasks => \A q \in log["status"] :
                 q.key = ActionKey /\ q.seq <= r.seq => q \in history \/ q = r
  <2> SUFFICES ASSUME tasks, NEW q \in log["status"], q.key = ActionKey, q.seq <= r.seq,
                      q \notin history
               PROVE  q = r
    OBVIOUS
  <2>1. q \in rows BY <1>2, <1>3 DEF Selects
  <2> QED BY <1>4, <1>2, <2>1
<1> QED BY <1>2, <1>3, <1>4, <1>5, <1>6

LEMMA Log_sent_watched ==
  ASSUME Base, Watched, NEW r \in rows, SendLog(r) PROVE Watched'
<1>0. /\ TypeOK /\ Statuses /\ Shows /\ Events /\ Ends
      /\ UNCHANGED tables
      /\ UNCHANGED <<tasks, spc, snap, phase, at, until, cpc, history, shown>>
      /\ spc = "send" /\ at = "task_log" /\ cur' = [cur EXCEPT ![at] = r.seq]
  BY DEF Base, Watched, SendLog, Ready, Sent
<1>1. cur'["status"] = cur["status"] BY <1>0, Ranges, Streams
<1>2. Statuses' BY <1>0 DEF Statuses, tables, End
<1>3. Shows' BY <1>0, <1>1 DEF Shows, tables, After
<1>4. Events' BY <1>0, <1>1 DEF Events, tables, After
<1>5. Ends' BY <1>0 DEF Ends, tables, After
<1>6. DoneIsComplete' BY <1>0 DEF DoneIsComplete, TypeOK, WatchOK
<1> QED BY <1>2, <1>3, <1>4, <1>5, <1>6 DEF Watched

LEMMA Event_sent_watched ==
  ASSUME Base, Watched, NEW r \in rows, SendAction(r) \/ Drop(r) PROVE Watched'
<1>0. /\ TypeOK /\ Statuses /\ Shows /\ Events /\ Ends
      /\ UNCHANGED tables
      /\ UNCHANGED <<tasks, spc, snap, phase, at, until, inspect, cpc, shown>>
      /\ Ready(r) /\ spc = "send" /\ at = "status"
      /\ cur' = [cur EXCEPT ![at] = r.seq] /\ rows' = rows \ {r}
      /\ history \subseteq history' /\ (r.key = ActionKey => r \in history')
  BY DEF Base, Watched, SendAction, Drop, Ready, Sent, page, ActionKey, StatusKey
<1>1. cur'["status"] = r.seq /\ cur["status"] \in Nat /\ \A e \in log["status"] : e.seq \in Nat
  BY <1>0, Ranges, Streams
<1>2. Statuses' BY <1>0 DEF Statuses, tables, End
<1>3. Shows'
  <2>1. \A e \in log["status"] : e.seq <= cur["status"] => e.seq <= cur'["status"]
    BY <1>0, <1>1, Sent_status
  <2> QED BY <1>0, <2>1 DEF Shows, tables, After
<1>4. Events'
  <2>1. /\ cur'["status"] <= inspect
        /\ \A q \in rows' : q.seq > cur'["status"] /\ q.seq <= inspect
        /\ \A q \in log["status"] :
             Selects("status", q.key) /\ q.seq > cur'["status"] /\ q.seq <= inspect => q \in rows'
    BY <1>0, <1>1, Sent_status
  <2>2. tasks => \A q \in log["status"] :
                   q.key = ActionKey /\ q.seq <= cur'["status"] => q \in history'
    BY <1>0, <1>1, Sent_status
  <2> QED BY <1>0, <2>1, <2>2 DEF Events, Selects, tables, After
<1>5. Ends' BY <1>0 DEF Ends, tables, After
<1>6. DoneIsComplete' BY <1>0 DEF DoneIsComplete, TypeOK, WatchOK
<1> QED BY <1>2, <1>3, <1>4, <1>5, <1>6 DEF Watched

\* What is sent of the run is after the snapshot, and after what was sent before.
LEMMA Run_newer ==
  ASSUME Base, Watched, NEW r \in rows, SendRun(r)
  PROVE  /\ phase = 1 /\ r \in log["status"] /\ r.value.version >= shown.version
         /\ r.value.version <= run.version /\ (r.value.final => r.value = run)
<1>0. /\ TypeOK /\ Statuses /\ Shows /\ Ready(r) /\ at = "status" /\ spc = "send" /\ ~Stale(r)
  BY DEF Base, Watched, SendRun, Ready
<1>1. r \in log["status"] /\ r.seq \in Nat /\ r.seq > cur["status"]
  BY <1>0, Sent_status
<1>2. /\ phase \in 1..2 /\ snap.end \in Nat /\ cur["status"] \in Nat
      /\ \A e \in log["status"] : e.seq \in Nat
  BY <1>0, Ranges, Streams DEF TypeOK, WatchOK
<1>3. phase = 1 /\ r.seq > snap.end
  BY <1>0, <1>1, <1>2 DEF Stale
<1>4. r.value.version >= shown.version
  <2>1. CASE shown = snap.run BY <1>0, <1>1, <1>3, <2>1 DEF Shows
  <2>2. ASSUME NEW e \in log["status"], e.value = shown, e.seq <= cur["status"]
        PROVE  r.value.version >= shown.version
    <3>1. e.seq <= r.seq BY <1>1, <1>2, <2>2
    <3>2. e.value.version <= r.value.version BY <1>0, <1>1, <3>1 DEF Statuses
    <3>3. e.value.version \in Nat /\ r.value.version \in Nat BY <1>0, <1>1, Ranges
    <3> QED BY <2>2, <3>2, <3>3
  <2> QED BY <1>0, <2>1, <2>2 DEF Shows, After
<1> QED BY <1>0, <1>1, <1>3, <1>4 DEF Statuses

LEMMA Run_sent_watched ==
  ASSUME Base, Watched, NEW r \in rows, SendRun(r) PROVE Watched'
<1>0. /\ TypeOK /\ Statuses /\ Shows /\ Events /\ Ends
      /\ UNCHANGED tables
      /\ UNCHANGED <<tasks, snap, at, until, history, seen>>
      /\ Ready(r) /\ spc = "send" /\ at = "status" /\ r.key = StatusKey
      /\ shown' = r.value /\ cur' = [cur EXCEPT !["status"] = r.seq]
  BY DEF Base, Watched, SendRun, Ready
<1>1. cur'["status"] = r.seq
  BY <1>0, Ranges, Streams
<1>2. /\ phase = 1 /\ r \in log["status"]
      /\ r.value.version <= run.version /\ (r.value.final => r.value = run)
      /\ r.value \in Row
  BY <1>0, Run_newer, Ranges
<1>3. \/ ~r.value.final /\ rows' = rows \ {r} /\ UNCHANGED <<spc, phase, inspect, cpc>>
      \/ r.value.final /\ tasks /\ phase' = 2 /\ spc' = "logEnd" /\ UNCHANGED cpc
      \/ r.value.final /\ ~tasks /\ spc' = "off" /\ UNCHANGED phase
  BY DEF SendRun, Return
<1>4. Statuses' BY <1>0 DEF Statuses, tables, End
<1>5. Shows'
  <2>1. \E e \in log["status"] : e.value = shown' /\ e.seq <= cur'["status"]
    <3>1. r.seq <= cur'["status"] BY <1>0, <1>1, Sent_status
    <3> QED BY <1>0, <1>2, <3>1
  <2> QED BY <1>0, <1>2, <1>3, <2>1 DEF Shows, tables, After
<1>6. Events'
  <2>1. /\ cur'["status"] <= inspect
        /\ \A q \in rows \ {r} : q.seq > cur'["status"] /\ q.seq <= inspect
        /\ \A q \in log["status"] :
             Selects("status", q.key) /\ q.seq > cur'["status"] /\ q.seq <= inspect => q \in rows \ {r}
    BY <1>0, <1>1, Sent_status
  <2>2. tasks => \A q \in log["status"] :
                   q.key = ActionKey /\ q.seq <= cur'["status"] => q \in history
    BY <1>0, <1>1, Sent_status DEF ActionKey, StatusKey
  <2> QED BY <1>0, <1>3, <2>1, <2>2 DEF Events, Selects, tables, After
<1>7. Ends' BY <1>0, <1>2, <1>3 DEF Ends, tables, After
<1>8. DoneIsComplete'
  BY <1>0, <1>2, <1>3 DEF DoneIsComplete, TypeOK, WatchOK, tables
<1> QED BY <1>4, <1>5, <1>6, <1>7, <1>8 DEF Watched

LEMMA Lost_watched ==
  ASSUME Base, Watched, LoseListener \/ Disconnect PROVE Watched'
<1>0. /\ Statuses /\ Shows /\ Events /\ Ends /\ DoneIsComplete
      /\ UNCHANGED tables /\ UNCHANGED <<tasks, shown, seen, history>>
  BY DEF Base, Watched, LoseListener, Disconnect, page
<1>1. Statuses' BY <1>0 DEF Statuses, tables, End
<1>2. CASE LoseListener
  <2>1. UNCHANGED view
    BY <1>2 DEF LoseListener, view, server, batch, page
  <2> QED BY <1>0, <1>1, <2>1 DEF Watched, view, Shows, Events, Ends, DoneIsComplete, tables,
             Selects, Mine
<1>3. CASE Disconnect
  <2>1. spc' = "off" /\ phase' = 1 /\ cpc' # "done"
    BY <1>3 DEF Disconnect
  <2> QED BY <1>0, <1>1, <2>1 DEF Watched, Shows, Events, Ends, DoneIsComplete, tables, After
<1> QED BY <1>2, <1>3

LEMMA Watched_next == ASSUME Base, Watched, [Next]_vars PROVE Watched'
<1>1. CASE WriterStep \/ RunStep
  BY <1>1, Statuses_next, Tables_watched DEF Base, Watched
<1>2. CASE Watch
  <2>1. CASE Send
    BY <2>1, Log_sent_watched, Event_sent_watched, Run_sent_watched DEF Send
  <2> QED BY <1>2, <2>1, Open_watched, Bound_watched, Turn_watched, Read_watched,
             Advance_watched DEF Watch
<1>3. CASE LoseListener \/ Disconnect BY <1>3, Lost_watched
<1>4. CASE UNCHANGED vars
  <2>1. UNCHANGED view /\ UNCHANGED tables
    BY <1>4 DEF vars, view, server, batch, page
  <2> QED BY <2>1 DEF Watched, view, Statuses, Shows, Events, Ends, DoneIsComplete, tables,
             Selects, Mine, End
<1> QED BY <1>1, <1>2, <1>3, <1>4 DEF Next

LEMMA InitWatched == Init => Watched
<1> SUFFICES ASSUME Init PROVE Watched OBVIOUS
<1>1. /\ log["status"] = {Event(1, StatusKey, FirstRun)} /\ run = FirstRun
      /\ shown = [final |-> FALSE, version |-> 0] /\ spc = "off" /\ phase = 1 /\ cpc = "idle"
  BY Streams DEF Init
<1>2. FirstRun.version = 1 /\ FirstRun.final = FALSE BY DEF FirstRun
<1>3. Statuses BY <1>1, <1>2 DEF Statuses, Event
<1> QED BY <1>1, <1>2, <1>3 DEF Watched, Shows, Events, Ends, DoneIsComplete, After

\* A page that is done has all there was to get of its run.
LEMMA Following == Spec => [](Base /\ Watched)
<1>1. Base /\ Watched /\ [Next]_vars => Watched' BY Watched_next
<1>2. TypeOK /\ Locked /\ Unique /\ Feed => Base BY DEF Base
<1> QED BY <1>1, <1>2, InitWatched, Delivery, PTL DEF Spec

\* A page that is done shows the run as it ended and has the wanted log records and the
\* action events committed before that (watchRun, both phases): for any writers, batch
\* size and number of lost connections.
THEOREM DoneHasAll == Spec => []DoneIsComplete
<1>1. Watched => DoneIsComplete BY DEF Watched
<1> QED BY <1>1, Following, PTL

\* What the page shows of the run never goes back to an earlier version (the boundary of
\* the snapshot in watchRun and the events dropped in phase 2).
THEOREM ShownForward == Spec => NeverBackwards
<1>1. Base /\ Watched /\ [Next]_vars => [shown'.version >= shown.version]_vars
  <2> SUFFICES ASSUME Base, Watched, [Next]_vars PROVE shown'.version >= shown.version
    OBVIOUS
  <2>0. shown.version \in Nat /\ snap.run.version \in Nat BY Ranges DEF Base
  <2>1. CASE Greet BY <2>0, <2>1 DEF Greet, Watched, Shows
  <2>2. ASSUME NEW r \in rows, SendRun(r) PROVE shown'.version >= shown.version
    <3>1. shown' = r.value BY <2>2 DEF SendRun
    <3> QED BY <2>2, <3>1, Run_newer
  <2>3. CASE ~Greet /\ \A r \in rows : ~SendRun(r)
    <3>1. shown' = shown
      BY <2>3 DEF Next, WriterStep, Lock, Repeat, Commit, Rollback, Retry, RunStep, Change,
         ActionEvent, Record, Reset, Watch, Connect, Snapshot, LogEnd, StatusEnd, Skip, Read,
         Send, SendLog, SendAction, Drop, Advance, Notified, Reconnect, LoseListener,
         Disconnect, vars, page
    <3> QED BY <2>0, <3>1
  <2> QED BY <2>1, <2>2, <2>3
<1> QED BY <1>1, Following, PTL DEF NeverBackwards, Spec
=============================================================================
