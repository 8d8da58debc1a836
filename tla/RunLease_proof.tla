--------------------------- MODULE RunLease_proof ---------------------------
(***************************************************************************)
(* Proofs about RunLease, for any actions, any number of claims and faults *)
(* and any retry budgets: its types, the inductive invariant, uniqueness   *)
(* of attempt numbers, that the rows keep the promises of RunLedger and    *)
(* only the holder's task decides, and what makes an owner give up.        *)
(***************************************************************************)
EXTENDS RunLease, TLAPS

\* Tokens are drawn in order, and the owner of a token not drawn is not born.
TokensInv ==
  /\ token <= claims
  /\ \A d \in Owner : d > claims => pc[d] = "unborn"
  /\ live => token # 0

\* A row that does not exist was never counted on.
AbsentInv == \A n \in Action : row[n].state = "absent" => row[n] = NoRow

\* The attempts started so far are those the rows have counted.
RanInv ==
  /\ task \subseteq ran
  /\ \A x \in ran : x.attempt > 0 /\ x.attempt <= row[x.action].attempt

\* Only an owner that loaded the run has tasks, and it knows them: each action
\* has at most one, is running, waiting or closed meanwhile, and in its attempt.
TaskInv ==
  /\ \A x \in task : pc[x.owner] \notin {"unborn", "claimed"}
  /\ \A x, y \in task : x.owner = y.owner /\ x.action = y.action => x = y
  /\ \A x \in task : pc[x.owner] = "driving" =>
       LET r == mem[x.owner][x.action]
       IN r.state \in {"running", "waiting"} \cup Final /\ r.attempt = x.attempt

IInv == TypeOK /\ TokensInv /\ AbsentInv /\ RanInv /\ AttemptOnce /\ OwnerKnows /\ TaskInv

-----------------------------------------------------------------------------
(* What the conversions of a row return *)

\* Resetting or restoring a row keeps it a row and touches only its state.
LEMMA Conversions ==
  ASSUME NEW r \in Record
  PROVE  /\ Reset(r) \in Record /\ Restored(r) = Reset(r)
         /\ Reset(r).attempt = r.attempt /\ Reset(r).failures = r.failures
         /\ Reset(r).state = "absent" <=> r.state = "absent"
         /\ r.state = "absent" => Reset(r) = r
         /\ Reset(NewRow) = NewRow
BY DEF Record, Reset, Restored, Open, Final, NewRow, NoRow

\* The values an owner writes are rows.
LEMMA Updates ==
  ASSUME NEW r \in Record, NEW s \in Open \cup Final
  PROVE  /\ [r EXCEPT !.state = s] \in Record
         /\ [r EXCEPT !.state = s, !.attempt = @ + 1] \in Record
         /\ [r EXCEPT !.state = s, !.failures = @ + 1] \in Record
<1>1. r.attempt + 1 \in Nat /\ r.failures + 1 \in Nat
  BY DEF Record
<1>2. [r EXCEPT !.state = s] \in Record
  BY DEF Record
<1>3. [r EXCEPT !.state = s, !.attempt = @ + 1] \in Record
  BY <1>1 DEF Record
<1>4. [r EXCEPT !.state = s, !.failures = @ + 1] \in Record
  BY <1>1 DEF Record
<1>5. QED BY <1>2, <1>3, <1>4

\* A fault that is still allowed can be counted.
LEMMA Counted == ASSUME LeaseAssumption, faults \in 0..MaxFaults, faults < MaxFaults
                 PROVE  faults + 1 \in 0..MaxFaults
BY DEF LeaseAssumption

LEMMA Written_type ==
  ASSUME TypeOK, NEW d \in Owner, NEW n \in Action, NEW r \in Record, Written(d, n, r)
  PROVE  row' \in [Action -> Record] /\ mem' \in [Owner -> [Action -> Record]]
BY DEF TypeOK, Written

LEMMA Failed_type ==
  ASSUME TypeOK, NEW d \in Owner, NEW n \in Action, NEW r \in Record, Failed(d, n, r),
         LeaseAssumption
  PROVE  /\ row' \in [Action -> Record] /\ mem' \in [Owner -> [Action -> Record]]
         /\ pc' \in [Owner -> {"unborn", "claimed", "driving", "stopping", "gone"}]
         /\ closing' \in [Owner -> SUBSET Action] /\ faults' \in 0..MaxFaults
BY DEF TypeOK, Failed, LeaseAssumption

LEMMA Ended_type ==
  ASSUME TypeOK, NEW d \in Owner, NEW n \in Action, NEW r \in Record, Ended(d, n, r),
         LeaseAssumption
  PROVE  /\ row' \in [Action -> Record] /\ mem' \in [Owner -> [Action -> Record]]
         /\ pc' \in [Owner -> {"unborn", "claimed", "driving", "stopping", "gone"}]
         /\ closing' \in [Owner -> SUBSET Action] /\ faults' \in 0..MaxFaults
<1>1. CASE Failed(d, n, r)
  BY <1>1, Failed_type
<1>2. CASE Written(d, n, r) /\ ~Failed(d, n, r)
  <2>1. Below(d, n) \subseteq Action
    BY DEF Below, Child
  <2>2. /\ closing' \in [Owner -> SUBSET Action] /\ faults' = faults
        /\ pc' \in {pc, [pc EXCEPT ![d] = "stopping"]}
    <3> DEFINE open == {m \in IF n = Root THEN Action \ {n} ELSE Below(d, n) : mem[d][m].state \in Open}
    <3>1. open \in SUBSET Action
      BY <2>1
    <3>2. QED BY <1>2, <3>1 DEF Ended, TypeOK
  <2>3. QED BY <1>2, <2>2, Written_type DEF TypeOK
<1>3. QED BY <1>1, <1>2 DEF Ended

-----------------------------------------------------------------------------
(* Type correctness *)

LEMMA Init_type == LeaseAssumption /\ Init => TypeOK
<1> SUFFICES ASSUME LeaseAssumption, Init PROVE TypeOK
  OBVIOUS
<1>1. NoRow \in Record /\ NewRow \in Record
  BY DEF NewRow, NoRow, Record, Open
<1>2. row \in [Action -> Record] /\ mem \in [Owner -> [Action -> Record]]
  BY <1>1 DEF Init, Nothing
<1>3. token \in 0..MaxClaims /\ claims \in 0..MaxClaims /\ faults \in 0..MaxFaults
  BY DEF Init, LeaseAssumption
<1>4. QED BY <1>2, <1>3 DEF Init, TypeOK

\* One lemma for the steps of an owner, one for those of a task.
LEMMA Own_type ==
  ASSUME LeaseAssumption, TypeOK, NEW d \in Owner, Own(d)
  PROVE  TypeOK'
<1> USE LeaseAssumption
<1>1. ASSUME ClaimRun(d) PROVE TypeOK'
  BY <1>1 DEF TypeOK, ClaimRun, Owner, LeaseAssumption
<1>2. ASSUME Load(d) PROVE TypeOK'
  <2>1. row' \in [Action -> Record] /\ [n \in Action |-> Restored(row[n])] \in [Action -> Record]
    BY <1>2, Conversions DEF TypeOK, Load
  <2>2. mem' \in [Owner -> [Action -> Record]]
    BY <1>2, <2>1 DEF TypeOK, Load
  <2>3. QED BY <1>2, <2>1, <2>2 DEF TypeOK, Load, Execution
<1>3. ASSUME Stop(d) \/ Release(d) \/ Crash(d) PROVE TypeOK'
  <2>1. CASE Stop(d)
    BY <2>1, Counted DEF TypeOK, Stop
  <2>2. CASE Release(d)
    BY <2>2 DEF TypeOK, Release, LeaseAssumption
  <2>3. CASE Crash(d)
    BY <2>3, Counted DEF TypeOK, Crash
  <2>4. QED BY <1>3, <2>1, <2>2, <2>3
<1>4. ASSUME CloseRestored(d) PROVE TypeOK'
  BY <1>4 DEF TypeOK, CloseRestored
<1>5. ASSUME NEW n \in Action, Begin(d, n) PROVE TypeOK'
  <2> DEFINE next == [mem[d][n] EXCEPT !.state = "running", !.attempt = @ + 1]
             x == [owner |-> d, action |-> n, attempt |-> next.attempt]
  <2>1. mem[d][n] \in Record /\ next.attempt \in Nat
    BY DEF TypeOK, Record
  <2>2. next \in Record /\ x \in Execution
    BY <2>1, Updates DEF Open, Execution
  <2> HIDE DEF next, x
  <2>3. CASE Written(d, n, next) /\ task' = task \cup {x} /\ ran' = ran \cup {x}
             /\ UNCHANGED <<pc, closing, faults>>
    BY <1>5, <2>2, <2>3, Written_type DEF TypeOK, Begin
  <2>4. CASE Failed(d, n, next) /\ UNCHANGED <<task, ran>>
    BY <1>5, <2>2, <2>4, Failed_type DEF TypeOK, Begin
  <2>5. QED BY <1>5, <2>3, <2>4 DEF Begin, next, x
<1>6. ASSUME NEW n \in Action, NEW from \in Open, NEW to \in Open, Turn(d, n, from, to)
      PROVE TypeOK'
  <2> DEFINE next == [mem[d][n] EXCEPT !.state = to]
  <2>1. next \in Record
    <3>1. mem[d][n] \in Record
      BY DEF TypeOK
    <3>2. QED BY <3>1, Updates
  <2> HIDE DEF next
  <2>2. CASE Written(d, n, next) /\ UNCHANGED <<pc, closing, faults>>
    BY <1>6, <2>1, <2>2, Written_type DEF TypeOK, Turn
  <2>3. CASE Failed(d, n, next)
    BY <1>6, <2>1, <2>3, Failed_type DEF TypeOK, Turn
  <2>4. QED BY <1>6, <2>2, <2>3 DEF Turn, next
<1>7. ASSUME NEW n \in Action, EndEarly(d, n) PROVE TypeOK'
  <2>1. PICK s \in {"done", "failed"} : Ended(d, n, [mem[d][n] EXCEPT !.state = s])
    BY <1>7 DEF EndEarly
  <2>2. [mem[d][n] EXCEPT !.state = s] \in Record
    <3>1. mem[d][n] \in Record
      BY DEF TypeOK
    <3>2. QED BY <3>1, Updates DEF Final
  <2>3. UNCHANGED <<token, live, claims, task, ran>>
    BY <1>7 DEF EndEarly
  <2>4. /\ row' \in [Action -> Record] /\ mem' \in [Owner -> [Action -> Record]]
        /\ pc' \in [Owner -> {"unborn", "claimed", "driving", "stopping", "gone"}]
        /\ closing' \in [Owner -> SUBSET Action] /\ faults' \in 0..MaxFaults
    BY <2>1, <2>2, Ended_type
  <2>5. QED BY <2>3, <2>4 DEF TypeOK
<1>8. ASSUME NEW n \in Action, Close(d, n) PROVE TypeOK'
  <2> DEFINE canceled == [mem[d][n] EXCEPT !.state = "canceled"]
  <2>1. canceled \in Record
    <3>1. mem[d][n] \in Record
      BY DEF TypeOK
    <3>2. QED BY <3>1, Updates DEF Final
  <2> HIDE DEF canceled
  <2>2. CASE Written(d, n, canceled) /\ UNCHANGED faults
             /\ closing' = [closing EXCEPT ![d] = @ \ {n}]
             /\ pc' \in {pc, [pc EXCEPT ![d] = "stopping"]}
    BY <1>8, <2>1, <2>2, Written_type DEF TypeOK, Close
  <2>3. CASE Failed(d, n, canceled)
    BY <1>8, <2>1, <2>3, Failed_type DEF TypeOK, Close
  <2>4. QED BY <1>8, <2>2, <2>3 DEF Close, canceled
<1>9. QED
  BY <1>1, <1>2, <1>3, <1>4, <1>5, <1>6, <1>7, <1>8
  DEF Own, Suspend, Resume, AwaitImage, ImageReady, Open

LEMMA Run_type ==
  ASSUME LeaseAssumption, TypeOK, NEW x \in task, Run(x)
  PROVE  TypeOK'
<1> DEFINE d == x.owner
           n == x.action
           failed == [mem[d][n] EXCEPT !.state = "failed", !.failures = @ + 1]
           retry == [failed EXCEPT !.state = "queued"]
           done == [mem[d][n] EXCEPT !.state = "done"]
<1>1. d \in Owner /\ n \in Action
  BY DEF TypeOK, Execution
<1>2. failed \in Record /\ retry \in Record /\ done \in Record
  <2>1. mem[d][n] \in Record
    BY <1>1 DEF TypeOK
  <2>2. failed \in Record /\ done \in Record
    BY <2>1, Updates DEF Final
  <2> HIDE DEF failed
  <2>3. QED BY <2>2, Updates DEF Open
<1> HIDE DEF failed, retry, done
<1>3. ASSUME Kill(x) PROVE TypeOK'
  BY <1>3 DEF TypeOK, Kill
<1>4. ASSUME Answer(x) PROVE TypeOK'
  <2>1. task' \subseteq Execution /\ UNCHANGED <<token, live, claims, ran>>
    BY <1>4 DEF Answer, TypeOK
  <2>2. CASE UNCHANGED <<row, mem, pc, closing, faults>>
    BY <2>1, <2>2 DEF TypeOK
  <2>3. CASE Ended(d, n, done) \/ Ended(d, n, failed)
    BY <1>1, <1>2, <2>1, <2>3, Ended_type DEF TypeOK
  <2>4. CASE Written(d, n, retry) /\ UNCHANGED <<pc, closing, faults>>
    BY <1>1, <1>2, <2>1, <2>4, Written_type DEF TypeOK
  <2>5. CASE Failed(d, n, retry)
    BY <1>1, <1>2, <2>1, <2>5, Failed_type DEF TypeOK
  <2>6. QED BY <1>4, <2>2, <2>3, <2>4, <2>5 DEF Answer, failed, retry, done
<1>5. ASSUME NEW c \in Child, CreateChild(x, c) PROVE TypeOK'
  BY <1>5 DEF TypeOK, CreateChild, NewRow, NoRow, Record, Open
<1>6. ASSUME NEW c \in Child, AddChild(x, c) PROVE TypeOK'
  <2>1. c \in Action /\ Restored(row[c]) \in Record
    BY Conversions DEF TypeOK, Child
  <2>2. QED BY <1>1, <1>6, <2>1 DEF TypeOK, AddChild
<1>7. QED BY <1>3, <1>4, <1>5, <1>6 DEF Run

LEMMA Next_type == ASSUME LeaseAssumption, TypeOK, [Next]_vars PROVE TypeOK'
<1>1. CASE \E d \in Owner : Own(d)
  BY <1>1, Own_type
<1>2. CASE \E x \in task : Run(x)
  BY <1>2, Run_type
<1>3. CASE Expire
  <2>1. faults' \in 0..MaxFaults /\ live' \in BOOLEAN
    BY <1>3, Counted DEF TypeOK, Expire
  <2>2. QED BY <1>3, <2>1 DEF TypeOK, Expire
<1>4. CASE CancelRun
  <2>1. faults' \in 0..MaxFaults /\ live' \in BOOLEAN
    BY <1>4, Counted DEF TypeOK, CancelRun
  <2>2. token' \in 0..MaxClaims
    BY <1>4 DEF CancelRun, LeaseAssumption
  <2>3. row' \in [Action -> Record]
    <3>1. \A n \in Action : row[n] \in Record /\ [row[n] EXCEPT !.state = "canceled"] \in Record
      BY Updates DEF TypeOK, Final
    <3>2. QED BY <1>4, <3>1 DEF CancelRun
  <2>4. QED BY <1>4, <2>1, <2>2, <2>3 DEF TypeOK, CancelRun
<1>5. CASE UNCHANGED vars
  BY <1>5 DEF TypeOK, vars
<1>6. QED BY <1>1, <1>2, <1>3, <1>4, <1>5 DEF Next

\* Whatever a step does, every variable keeps its type.
THEOREM TypeCorrect == LeaseAssumption /\ Spec => []TypeOK
<1>1. ASSUME LeaseAssumption, TypeOK, [Next]_vars PROVE TypeOK'
  BY <1>1, Next_type
<1>2. QED BY <1>1, Init_type, LeaseAssumption, PTL DEF Spec

-----------------------------------------------------------------------------
(* The inductive invariant. Most steps write one row on behalf of an owner *)
(* that drives the run; the next lemmas are about any such write.          *)

Writes(d, n, r) ==
  \/ Written(d, n, r) /\ pc' \in {pc, [pc EXCEPT ![d] = "stopping"]}
  \/ Failed(d, n, r)

LEMMA Ended_writes ==
  ASSUME NEW d \in Owner, NEW n \in Action, NEW r \in Record, Ended(d, n, r)
  PROVE  Writes(d, n, r)
BY DEF Ended, Writes

\* The rows only count up and are not erased.
RowsGrow ==
  \A n \in Action : /\ row'[n].attempt >= row[n].attempt
                    /\ row'[n].state = "absent" => row'[n] = NoRow

LEMMA Writes_rows ==
  ASSUME TypeOK, AbsentInv, NEW d \in Owner, NEW n \in Action, NEW r \in Record,
         r.state # "absent", r.attempt >= mem[d][n].attempt, Writes(d, n, r)
  PROVE  RowsGrow
<1>1. CASE row' = row
  BY <1>1 DEF RowsGrow, AbsentInv, TypeOK, Record
<1>2. CASE Fence(d, n) /\ row' = [row EXCEPT ![n] = r]
  <2>1. row'[n] = r /\ row[n].attempt = mem[d][n].attempt
    BY <1>2 DEF TypeOK, Fence
  <2>2. \A m \in Action \ {n} : row'[m] = row[m]
    BY <1>2 DEF TypeOK
  <2>3. \A m \in Action : row[m].attempt \in Nat
    BY DEF TypeOK, Record
  <2>4. QED BY <2>1, <2>2, <2>3 DEF RowsGrow, AbsentInv
<1>3. QED BY <1>1, <1>2 DEF Writes, Written, Failed

\* The writer is the holder of the claim or gives up, so the holder's memory
\* and the rows stay together.
LEMMA Writes_known ==
  ASSUME TypeOK, OwnerKnows, NEW d \in Owner, NEW n \in Action, NEW r \in Record,
         Writes(d, n, r), UNCHANGED <<token, live>>
  PROVE  OwnerKnows'
<1> SUFFICES ASSUME NEW e \in Owner, token = e, live, pc'[e] = "driving", NEW m \in Action
             PROVE  mem'[e][m] = row'[m] \/ (mem'[e][m] = NoRow /\ row'[m] = NewRow)
  BY DEF OwnerKnows
<1>0. pc[e] = "driving" => mem[e][m] = row[m] \/ (mem[e][m] = NoRow /\ row[m] = NewRow)
  BY Zenon DEF OwnerKnows
<1>1. CASE Written(d, n, r) /\ pc' \in {pc, [pc EXCEPT ![d] = "stopping"]}
  <2>1. e = d /\ pc[e] = "driving"
    BY <1>1 DEF Written, Fence, TypeOK
  <2>2. CASE m = n
    <3>1. mem' = [mem EXCEPT ![d][n] = r] /\ row' = [row EXCEPT ![n] = r]
      BY <1>1 DEF Written
    <3>2. mem'[d][n] = r /\ row'[n] = r
      BY <3>1 DEF TypeOK
    <3>3. QED BY <2>1, <2>2, <3>2
  <2>3. CASE m # n
    <3>1. mem'[e][m] = mem[e][m] /\ row'[m] = row[m]
      BY <1>1, <2>1, <2>3 DEF Written, TypeOK
    <3>2. QED BY <1>0, <2>1, <3>1
  <2>4. QED BY <2>2, <2>3
<1>2. CASE Failed(d, n, r)
  <2>1. e # d /\ pc[e] = "driving" /\ mem' = mem
    BY <1>2 DEF Failed, TypeOK
  <2>2. row' = row
    BY <1>2, <2>1 DEF Failed, Fence
  <2>3. QED BY <1>0, <2>1, <2>2
<1>3. QED BY <1>1, <1>2 DEF Writes

LEMMA Writes_tokens ==
  ASSUME TypeOK, TokensInv, NEW d \in Owner, NEW n \in Action, NEW r \in Record,
         pc[d] = "driving", Writes(d, n, r), UNCHANGED <<token, live, claims>>
  PROVE  TokensInv'
<1>1. pc' \in {pc, [pc EXCEPT ![d] = "stopping"]}
  BY DEF Writes, Failed
<1>2. \A e \in Owner : pc[e] = "unborn" => pc'[e] = "unborn"
  BY <1>1 DEF TypeOK
<1>3. QED BY <1>2 DEF TokensInv

LEMMA Writes_tasks ==
  ASSUME TypeOK, TaskInv, NEW d \in Owner, NEW n \in Action, NEW r \in Record,
         Writes(d, n, r), task' \subseteq task,
         (\A x \in task' : x.owner = d /\ x.action = n =>
            r.state \in {"running", "waiting"} \cup Final /\ r.attempt = mem[d][n].attempt)
  PROVE  TaskInv'
<1>1. ASSUME NEW x \in task', pc'[x.owner] = "driving"
      PROVE  /\ mem'[x.owner][x.action].state \in {"running", "waiting"} \cup Final
               /\ mem'[x.owner][x.action].attempt = x.attempt
  <2>1. x \in task /\ x.owner \in Owner /\ x.action \in Action
    BY DEF TypeOK, Execution
  <2>2. pc[x.owner] = "driving"
    BY <1>1, <2>1 DEF Writes, Failed, TypeOK
  <2>3. \/ mem'[x.owner][x.action] = mem[x.owner][x.action]
        \/ x.owner = d /\ x.action = n /\ mem'[x.owner][x.action] = r
    BY <2>1 DEF Writes, Written, Failed, TypeOK
  <2>4. QED BY <2>1, <2>2, <2>3 DEF TaskInv
<1>2. \A x \in task' : pc'[x.owner] \notin {"unborn", "claimed"}
  BY DEF TaskInv, Writes, Failed, TypeOK, Execution
<1>3. QED BY <1>1, <1>2 DEF TaskInv

\* Steps that start no attempt keep attempt numbers unique.
LEMMA Growing ==
  ASSUME TypeOK, RanInv, AttemptOnce, RowsGrow, TypeOK', ran' = ran, task' \subseteq task
  PROVE  RanInv' /\ AttemptOnce' /\ AbsentInv'
<1>1. \A x \in ran : x.attempt <= row'[x.action].attempt
  <2> TAKE x \in ran
  <2>1. /\ x.action \in Action /\ x.attempt \in Nat
        /\ row[x.action].attempt \in Nat /\ row'[x.action].attempt \in Nat
    BY DEF TypeOK, Execution, Record
  <2>2. QED BY <2>1 DEF RanInv, RowsGrow
<1>2. QED BY <1>1 DEF RanInv, AttemptOnce, RowsGrow, AbsentInv

LEMMA Init_inv == LeaseAssumption /\ Init => IInv
<1> SUFFICES ASSUME LeaseAssumption, Init PROVE IInv
  OBVIOUS
<1>1. TypeOK
  BY Init_type
<1>2. TokensInv /\ RanInv /\ AttemptOnce /\ OwnerKnows /\ TaskInv
  BY DEF Init, TokensInv, RanInv, AttemptOnce, OwnerKnows, TaskInv
<1>3. AbsentInv
  BY DEF Init, AbsentInv, NewRow, NoRow
<1>4. QED BY <1>1, <1>2, <1>3 DEF IInv

\* A write of an owner that starts no attempt, and maybe ends a task.
LEMMA Writes_inv ==
  ASSUME LeaseAssumption, IInv, TypeOK', NEW d \in Owner, NEW n \in Action, NEW r \in Record,
         pc[d] = "driving", Writes(d, n, r), r.state # "absent", r.attempt = mem[d][n].attempt,
         UNCHANGED <<token, live, claims, ran>>, task' \subseteq task,
         (\A x \in task' : x.owner = d /\ x.action = n => r.state \in {"running", "waiting"} \cup Final)
  PROVE  IInv'
<1>1. r.attempt >= mem[d][n].attempt
  BY DEF Record
<1>2. RowsGrow
  BY <1>1, Writes_rows DEF IInv
<1>3. RanInv' /\ AttemptOnce' /\ AbsentInv'
  BY <1>2, Growing DEF IInv
<1>4. OwnerKnows' /\ TokensInv' /\ TaskInv'
  BY Writes_known, Writes_tokens, Writes_tasks DEF IInv
<1>5. QED BY <1>3, <1>4 DEF IInv

\* The attempt that starts has a number no execution has had before.
LEMMA Begin_inv ==
  ASSUME LeaseAssumption, IInv, TypeOK', NEW d \in Owner, NEW n \in Action, Begin(d, n)
  PROVE  IInv'
<1> DEFINE next == [mem[d][n] EXCEPT !.state = "running", !.attempt = @ + 1]
           x == [owner |-> d, action |-> n, attempt |-> next.attempt]
<1>1. /\ pc[d] = "driving" /\ mem[d][n].state = "queued"
      /\ UNCHANGED <<token, live, claims>>
  BY DEF Begin, Busy
<1>2. mem[d][n] \in Record /\ mem[d][n].attempt \in Nat
  BY DEF IInv, TypeOK, Record
<1>3. next \in Record
  BY <1>2, Updates DEF Open
<1>4. next.state = "running" /\ next.attempt = mem[d][n].attempt + 1
  BY <1>2 DEF Record
<1>5. Writes(d, n, next)
  BY DEF Begin, Writes
<1>6. \A y \in task : ~(y.owner = d /\ y.action = n)
  BY <1>1 DEF IInv, TaskInv, Final
<1> HIDE DEF next
<1>7. RowsGrow
  <2>1. next.attempt >= mem[d][n].attempt
    BY <1>2, <1>4
  <2>2. QED BY <1>3, <1>4, <1>5, <2>1, Writes_rows DEF IInv
<1>8. OwnerKnows' /\ TokensInv'
  BY <1>1, <1>3, <1>5, Writes_known, Writes_tokens DEF IInv
<1>9. CASE UNCHANGED <<task, ran>>
  <2>1. RanInv' /\ AttemptOnce' /\ AbsentInv'
    BY <1>7, <1>9, Growing DEF IInv
  <2>2. TaskInv'
    BY <1>3, <1>5, <1>6, <1>9, Writes_tasks DEF IInv
  <2>3. QED BY <1>8, <2>1, <2>2 DEF IInv
<1>10. CASE Written(d, n, next) /\ task' = task \cup {x} /\ ran' = ran \cup {x}
            /\ UNCHANGED <<pc, closing, faults>>
  <2>1. row[n].attempt = mem[d][n].attempt /\ row'[n].attempt = next.attempt
    BY <1>10 DEF IInv, TypeOK, Written, Fence
  <2>2. x.owner = d /\ x.action = n /\ x.attempt = next.attempt
    OBVIOUS
  <2> HIDE DEF x
  <2>3. \A y \in ran : /\ y.action \in Action /\ y.attempt \in Nat
                      /\ y.attempt > 0 /\ y.attempt <= row[y.action].attempt
                      /\ row[y.action].attempt \in Nat /\ row'[y.action].attempt \in Nat
                      /\ row'[y.action].attempt >= row[y.action].attempt
    BY <1>7 DEF IInv, RanInv, TypeOK, Execution, Record, RowsGrow
  <2>4. RanInv'
    <3>1. x.attempt > 0 /\ x.attempt <= row'[x.action].attempt
      BY <1>2, <1>4, <2>1, <2>2
    <3>2. \A y \in ran : y.attempt > 0 /\ y.attempt <= row'[y.action].attempt
      BY <2>3
    <3>3. QED BY <1>10, <3>1, <3>2 DEF RanInv, IInv
  <2>5. \A y \in ran : y.action = n => y.attempt # x.attempt
    BY <1>2, <1>4, <2>1, <2>2, <2>3
  <2>6. AttemptOnce'
    BY <1>10, <2>2, <2>5 DEF AttemptOnce, IInv
  <2>7. AbsentInv'
    BY <1>7 DEF RowsGrow, AbsentInv
  <2>8. TaskInv'
    <3>1. \A y, z \in task' : y.owner = z.owner /\ y.action = z.action => y = z
      BY <1>6, <1>10, <2>2 DEF IInv, TaskInv
    <3>2. ASSUME NEW y \in task', pc'[y.owner] = "driving"
          PROVE  /\ mem'[y.owner][y.action].state \in {"running", "waiting"} \cup Final
               /\ mem'[y.owner][y.action].attempt = y.attempt
      <4>1. CASE y = x
        <5>1. mem'[d][n] = next
          BY <1>10 DEF IInv, TypeOK, Written
        <5>2. QED BY <1>4, <2>2, <4>1, <5>1
      <4>2. CASE y # x
        <5>1. y \in task /\ y.owner \in Owner /\ y.action \in Action /\ pc[y.owner] = "driving"
          BY <1>10, <3>2, <4>2 DEF IInv, TypeOK, Execution
        <5>2. mem'[y.owner][y.action] = mem[y.owner][y.action]
          BY <1>6, <1>10, <5>1 DEF IInv, TypeOK, Written
        <5>3. QED BY <5>1, <5>2 DEF IInv, TaskInv
      <4>3. QED BY <4>1, <4>2
    <3>3. \A y \in task' : pc'[y.owner] \notin {"unborn", "claimed"}
      BY <1>1, <1>10, <2>2 DEF IInv, TaskInv
    <3>4. QED BY <3>1, <3>2, <3>3 DEF TaskInv
  <2>9. QED BY <1>8, <2>4, <2>6, <2>7, <2>8 DEF IInv
<1>11. QED BY <1>9, <1>10 DEF Begin, next

\* Steps that write no row and start no task leave what is known alone.
LEMMA Quiet_inv ==
  ASSUME IInv, TypeOK', UNCHANGED <<row, ran>>, task' \subseteq task, TokensInv',
         (\A d \in Owner : pc'[d] \in {"unborn", "claimed"} => pc[d] \in {"unborn", "claimed"}),
         (\A d \in Owner : pc'[d] = "driving" => pc[d] = "driving" /\ mem'[d] = mem[d]),
         (\A d \in Owner : token' = d /\ live' => token = d /\ live)
  PROVE  IInv'
<1>1. RowsGrow
  BY DEF RowsGrow, IInv, AbsentInv, TypeOK, Record
<1>2. RanInv' /\ AttemptOnce' /\ AbsentInv'
  BY <1>1, Growing DEF IInv
<1>3. OwnerKnows'
  <2> SUFFICES ASSUME NEW d \in Owner, token' = d, live', pc'[d] = "driving", NEW n \in Action
               PROVE  mem'[d][n] = row'[n] \/ (mem'[d][n] = NoRow /\ row'[n] = NewRow)
    BY DEF OwnerKnows
  <2>1. token = d /\ live /\ pc[d] = "driving" /\ mem'[d] = mem[d]
    OBVIOUS
  <2>2. mem[d][n] = row[n] \/ (mem[d][n] = NoRow /\ row[n] = NewRow)
    BY <2>1, Zenon DEF IInv, OwnerKnows
  <2>3. QED BY <2>1, <2>2
<1>4. TaskInv'
  <2>1. \A x \in task : x.owner \in Owner
    BY DEF IInv, TypeOK, Execution
  <2>2. QED BY <2>1 DEF IInv, TaskInv
<1>5. QED BY <1>2, <1>3, <1>4 DEF IInv

LEMMA Load_inv ==
  ASSUME IInv, TypeOK', NEW d \in Owner, Load(d)
  PROVE  IInv'
<1>1. \A n \in Action : row[n] \in Record
  BY DEF IInv, TypeOK
<1>2. /\ pc[d] = "claimed" /\ pc' = [pc EXCEPT ![d] = "driving"]
      /\ UNCHANGED <<token, live, claims, closing, task, ran>>
      /\ mem' = [mem EXCEPT ![d] = [n \in Action |-> Restored(row[n])]]
      /\ row' = row \/ row' = [n \in Action |-> Reset(row[n])]
  BY DEF Load
<1>3. RowsGrow
  <2>1. CASE row' = row
    BY <2>1 DEF RowsGrow, IInv, AbsentInv, TypeOK, Record
  <2>2. CASE row' = [n \in Action |-> Reset(row[n])]
    <3> SUFFICES ASSUME NEW n \in Action
                 PROVE  /\ row'[n].attempt >= row[n].attempt
                        /\ row'[n].state = "absent" => row'[n] = NoRow
      BY DEF RowsGrow
    <3>1. row[n] \in Record /\ row'[n] = Reset(row[n]) /\ row[n].attempt \in Nat
      BY <1>1, <2>2 DEF Record
    <3>2. row'[n].attempt = row[n].attempt
      BY <3>1, Conversions
    <3>3. row'[n].state = "absent" => row[n].state = "absent" /\ row'[n] = row[n]
      BY <3>1, Conversions
    <3>4. QED BY <3>1, <3>2, <3>3 DEF IInv, AbsentInv
  <2>3. QED BY <1>2, <2>1, <2>2
<1>4. RanInv' /\ AttemptOnce' /\ AbsentInv'
  BY <1>2, <1>3, Growing DEF IInv
<1>5. OwnerKnows'
  <2> SUFFICES ASSUME NEW e \in Owner, token = e, live, pc'[e] = "driving", NEW n \in Action
               PROVE  mem'[e][n] = row'[n] \/ (mem'[e][n] = NoRow /\ row'[n] = NewRow)
    BY <1>2 DEF OwnerKnows
  <2>1. CASE e = d
    <3>1. row'[n] = Reset(row[n])
      BY <2>1 DEF Load
    <3>2. mem'[d][n] = Restored(row[n])
      BY <1>2 DEF IInv, TypeOK
    <3>3. QED BY <1>1, <2>1, <3>1, <3>2, Conversions
  <2>2. CASE e # d
    <3>1. row' = row /\ mem'[e] = mem[e] /\ pc[e] = "driving"
      BY <1>2, <2>2 DEF Load, IInv, TypeOK
    <3>2. mem[e][n] = row[n] \/ (mem[e][n] = NoRow /\ row[n] = NewRow)
      BY <3>1, Zenon DEF IInv, OwnerKnows
    <3>3. QED BY <3>1, <3>2
  <2>3. QED BY <2>1, <2>2
<1>6. TokensInv'
  BY <1>2 DEF IInv, TypeOK, TokensInv
<1>7. TaskInv'
  \* A new owner has no task yet.
  <2>1. ASSUME NEW x \in task, pc'[x.owner] = "driving"
        PROVE  /\ mem'[x.owner][x.action].state \in {"running", "waiting"} \cup Final
               /\ mem'[x.owner][x.action].attempt = x.attempt
    <3>1. x.owner \in Owner /\ x.action \in Action
      BY DEF IInv, TypeOK, Execution
    <3>2. x.owner # d
      BY <1>2, <3>1 DEF IInv, TaskInv
    <3>3. pc[x.owner] = "driving" /\ mem'[x.owner] = mem[x.owner]
      BY <1>2, <2>1, <3>1, <3>2 DEF IInv, TypeOK
    <3>4. QED BY <3>3 DEF IInv, TaskInv
  <2>2. \A x \in task' : pc'[x.owner] \notin {"unborn", "claimed"}
    BY <1>2 DEF IInv, TaskInv, TypeOK, Execution
  <2>3. QED BY <1>2, <2>1, <2>2 DEF IInv, TaskInv
<1>8. QED BY <1>4, <1>5, <1>6, <1>7 DEF IInv

LEMMA Own_inv ==
  ASSUME LeaseAssumption, IInv, TypeOK', NEW d \in Owner, Own(d)
  PROVE  IInv'
<1> USE LeaseAssumption
<1>1. ASSUME ClaimRun(d) PROVE IInv'
  <2>1. pc[d] = "unborn" /\ pc' = [pc EXCEPT ![d] = "claimed"] /\ claims' = d /\ token' = d
    BY <1>1 DEF IInv, TypeOK, TokensInv, ClaimRun, Owner
  <2>2. TokensInv'
    BY <1>1, <2>1 DEF IInv, TypeOK, TokensInv, ClaimRun, Owner
  <2>3. \A e \in Owner : /\ pc'[e] \in {"unborn", "claimed"} => pc[e] \in {"unborn", "claimed"}
                         /\ pc'[e] = "driving" => pc[e] = "driving" /\ e # d
    BY <2>1 DEF IInv, TypeOK
  <2>4. UNCHANGED <<row, ran, task, mem>>
    BY <1>1 DEF ClaimRun
  \* Nobody else drives under the new token.
  <2>5. OwnerKnows'
    BY <2>1, <2>3 DEF OwnerKnows
  <2>6. RowsGrow
    BY <2>4 DEF RowsGrow, IInv, AbsentInv, TypeOK, Record
  <2>7. RanInv' /\ AttemptOnce' /\ AbsentInv'
    BY <2>4, <2>6, Growing DEF IInv
  <2>8. TaskInv'
    BY <2>3, <2>4 DEF IInv, TaskInv, TypeOK, Execution
  <2>9. QED BY <2>2, <2>5, <2>7, <2>8 DEF IInv
<1>2. ASSUME Load(d) PROVE IInv'
  BY <1>2, Load_inv
<1>3. ASSUME Stop(d) PROVE IInv'
  BY <1>3, Quiet_inv DEF IInv, TypeOK, TokensInv, Stop
<1>4. ASSUME Release(d) PROVE IInv'
  <2>1. /\ UNCHANGED <<row, claims, mem, task, ran>> /\ pc[d] = "stopping"
        /\ pc' = [pc EXCEPT ![d] = "gone"]
        /\ token' = (IF token = d THEN 0 ELSE token) /\ (live' => live /\ token # d)
    BY <1>4 DEF Release
  <2>2. TokensInv'
    BY <2>1 DEF IInv, TypeOK, TokensInv, Owner
  <2>3. \A e \in Owner : token' = e /\ live' => token = e /\ live
    BY <2>1 DEF Owner
  <2>4. \A e \in Owner : /\ pc'[e] \in {"unborn", "claimed"} => pc[e] \in {"unborn", "claimed"}
                         /\ pc'[e] = "driving" => pc[e] = "driving" /\ mem'[e] = mem[e]
    BY <2>1 DEF IInv, TypeOK
  <2>5. QED BY <2>1, <2>2, <2>3, <2>4, Quiet_inv
<1>5. ASSUME Crash(d) PROVE IInv'
  BY <1>5, Quiet_inv DEF IInv, TypeOK, TokensInv, Crash
<1>6. ASSUME CloseRestored(d) PROVE IInv'
  BY <1>6, Quiet_inv DEF IInv, TypeOK, TokensInv, CloseRestored
<1>7. ASSUME NEW n \in Action, Begin(d, n) PROVE IInv'
  BY <1>7, Begin_inv
<1>8. ASSUME NEW n \in Action, NEW from \in Open, NEW to \in Open, Turn(d, n, from, to),
             to = "queued" => TasksOf(d, n) = {}
      PROVE  IInv'
  <2> DEFINE next == [mem[d][n] EXCEPT !.state = to]
  <2>1. mem[d][n] \in Record
    BY DEF IInv, TypeOK
  <2>2. next \in Record /\ next.state = to /\ next.attempt = mem[d][n].attempt
    BY <2>1, Updates DEF Record
  <2>3. Writes(d, n, next) /\ pc[d] = "driving" /\ UNCHANGED <<token, live, claims, ran, task>>
    BY <1>8 DEF Turn, Writes, Busy
  <2> HIDE DEF next
  <2>4. \A x \in task : x.owner = d /\ x.action = n => next.state \in {"running", "waiting"}
    BY <1>8, <2>2 DEF TasksOf, Open
  <2>5. next.state # "absent"
    BY <2>2 DEF Open
  <2>6. QED BY <2>2, <2>3, <2>4, <2>5, Writes_inv
<1>9. ASSUME NEW n \in Action, EndEarly(d, n) PROVE IInv'
  <2>1. PICK s \in {"done", "failed"} : Ended(d, n, [mem[d][n] EXCEPT !.state = s])
    BY <1>9 DEF EndEarly
  <2> DEFINE next == [mem[d][n] EXCEPT !.state = s]
  <2>2. mem[d][n] \in Record
    BY DEF IInv, TypeOK
  <2>3. next \in Record /\ next.state = s /\ next.attempt = mem[d][n].attempt
    BY <2>2, Updates DEF Record, Final
  <2>4. pc[d] = "driving" /\ UNCHANGED <<token, live, claims, ran, task>>
    BY <1>9 DEF EndEarly, Busy
  <2> HIDE DEF next
  <2>5. Writes(d, n, next)
    BY <2>1, <2>3, Ended_writes DEF next
  <2>6. QED BY <2>3, <2>4, <2>5, Writes_inv DEF Final
<1>10. ASSUME NEW n \in Action, Close(d, n) PROVE IInv'
  <2> DEFINE next == [mem[d][n] EXCEPT !.state = "canceled"]
  <2>1. mem[d][n] \in Record
    BY DEF IInv, TypeOK
  <2>2. next \in Record /\ next.state = "canceled" /\ next.attempt = mem[d][n].attempt
    BY <2>1, Updates DEF Record, Final
  <2>3. Writes(d, n, next) /\ pc[d] = "driving" /\ UNCHANGED <<token, live, claims, ran, task>>
    BY <1>10 DEF Close, Writes
  <2> HIDE DEF next
  <2>4. QED BY <2>2, <2>3, Writes_inv DEF Final
<1>11. QED
  BY <1>1, <1>2, <1>3, <1>4, <1>5, <1>6, <1>7, <1>8, <1>9, <1>10
  DEF Own, Suspend, Resume, AwaitImage, ImageReady, Open

LEMMA Run_inv ==
  ASSUME LeaseAssumption, IInv, TypeOK', NEW x \in task, Run(x)
  PROVE  IInv'
<1> DEFINE d == x.owner
           n == x.action
<1>1. d \in Owner /\ n \in Action
  BY DEF IInv, TypeOK, Execution
<1>2. ASSUME Kill(x) PROVE IInv'
  BY <1>2, Quiet_inv DEF IInv, TokensInv, Kill
<1>3. ASSUME Answer(x) PROVE IInv'
  <2> DEFINE failed == [mem[d][n] EXCEPT !.state = "failed", !.failures = @ + 1]
             retry == [failed EXCEPT !.state = "queued"]
             done == [mem[d][n] EXCEPT !.state = "done"]
  <2>1. mem[d][n] \in Record
    BY <1>1 DEF IInv, TypeOK
  <2>2. /\ done \in Record /\ done.state = "done" /\ done.attempt = mem[d][n].attempt
        /\ failed \in Record /\ failed.state = "failed" /\ failed.attempt = mem[d][n].attempt
    BY <2>1, Updates DEF Record, Final
  <2> HIDE DEF failed, done
  <2>3. retry \in Record /\ retry.state = "queued" /\ retry.attempt = mem[d][n].attempt
    BY <2>2, Updates DEF Record, Open
  <2> HIDE DEF retry
  <2>4. /\ pc[d] = "driving" /\ UNCHANGED <<token, live, claims, ran>>
        /\ task' = task \ {x}
    BY <1>3 DEF Answer, Busy
  <2>5. \A y \in task' : ~(y.owner = d /\ y.action = n)
    BY <2>4 DEF IInv, TaskInv
  <2>6. CASE UNCHANGED <<row, mem, pc, closing, faults>>
    BY <2>4, <2>6, Quiet_inv DEF IInv, TokensInv
  <2>7. ASSUME NEW r \in {done, failed, retry}, Writes(d, n, r) PROVE IInv'
    <3>1. r \in Record /\ r.state # "absent" /\ r.attempt = mem[d][n].attempt
      BY <2>2, <2>3
    <3> HIDE DEF d, n
    <3>2. QED BY <1>1, <2>4, <2>5, <2>7, <3>1, Writes_inv
  <2>8. CASE Ended(d, n, done) \/ Ended(d, n, failed)
    BY <1>1, <2>2, <2>7, <2>8, Ended_writes
  <2>9. CASE (Written(d, n, retry) /\ UNCHANGED <<pc, closing, faults>>) \/ Failed(d, n, retry)
    BY <2>7, <2>9 DEF Writes
  <2>10. QED BY <1>3, <2>6, <2>8, <2>9 DEF Answer, failed, retry, done
<1>4. ASSUME NEW c \in Child, CreateChild(x, c) PROVE IInv'
  <2>1. /\ c \in Action /\ row[c].state = "absent" /\ row' = [row EXCEPT ![c] = NewRow]
        /\ UNCHANGED <<token, live, claims, pc, mem, closing, task, ran, faults>>
    BY <1>4 DEF CreateChild, Child
  <2>2. row[c] = NoRow
    BY <2>1 DEF IInv, AbsentInv
  <2>3. RowsGrow
    <3> SUFFICES ASSUME NEW m \in Action
                 PROVE  /\ row'[m].attempt >= row[m].attempt
                        /\ row'[m].state = "absent" => row'[m] = NoRow
      BY DEF RowsGrow
    <3>1. CASE m = c
      <4>1. row'[m] = NewRow /\ row[m] = NoRow
        BY <2>1, <2>2, <3>1 DEF IInv, TypeOK
      <4>2. QED BY <4>1 DEF NewRow, NoRow
    <3>2. CASE m # c
      BY <2>1, <3>2 DEF IInv, AbsentInv, TypeOK, Record
    <3>3. QED BY <3>1, <3>2
  <2>4. RanInv' /\ AttemptOnce' /\ AbsentInv'
    BY <2>1, <2>3, Growing DEF IInv
  <2>5. OwnerKnows'
    <3> SUFFICES ASSUME NEW e \in Owner, token = e, live, pc[e] = "driving", NEW m \in Action
                 PROVE  mem[e][m] = row'[m] \/ (mem[e][m] = NoRow /\ row'[m] = NewRow)
      BY <2>1 DEF OwnerKnows
    <3>1. mem[e][m] = row[m] \/ (mem[e][m] = NoRow /\ row[m] = NewRow)
      BY Zenon DEF IInv, OwnerKnows
    <3>2. CASE m = c
      <4>1. row'[m] = NewRow /\ row[m] = NoRow
        BY <2>1, <2>2, <3>2 DEF IInv, TypeOK
      <4>2. NewRow # NoRow
        BY DEF NewRow, NoRow
      <4>3. QED BY <3>1, <4>1, <4>2
    <3>3. CASE m # c
      <4>1. row'[m] = row[m]
        BY <2>1, <3>3 DEF IInv, TypeOK
      <4>2. QED BY <3>1, <4>1
    <3>4. QED BY <3>2, <3>3
  <2>6. TokensInv' /\ TaskInv'
    BY <2>1 DEF IInv, TokensInv, TaskInv
  <2>7. QED BY <2>4, <2>5, <2>6 DEF IInv
<1>5. ASSUME NEW c \in Child, AddChild(x, c) PROVE IInv'
  <2>1. /\ c \in Action /\ row[c].state # "absent" /\ mem[d][c].state = "absent"
        /\ mem' = [mem EXCEPT ![d][c] = Restored(row[c])] /\ pc[d] = "driving"
        /\ UNCHANGED <<row, token, live, claims, pc, closing, task, ran, faults>>
    BY <1>5 DEF AddChild, Child, Busy
  <2>2. RowsGrow
    BY <2>1 DEF RowsGrow, IInv, AbsentInv, TypeOK, Record
  <2>3. RanInv' /\ AttemptOnce' /\ AbsentInv'
    BY <2>1, <2>2, Growing DEF IInv
  <2>4. mem'[d][c] = Restored(row[c])
    BY <1>1, <2>1 DEF IInv, TypeOK
  <2>5. \A e \in Owner, m \in Action : e # d \/ m # c => mem'[e][m] = mem[e][m]
    BY <1>1, <2>1 DEF IInv, TypeOK
  <2>6. OwnerKnows'
    <3> SUFFICES ASSUME NEW e \in Owner, token = e, live, pc[e] = "driving", NEW m \in Action
                 PROVE  mem'[e][m] = row[m] \/ (mem'[e][m] = NoRow /\ row[m] = NewRow)
      BY <2>1 DEF OwnerKnows
    <3>1. mem[e][m] = row[m] \/ (mem[e][m] = NoRow /\ row[m] = NewRow)
      BY Zenon DEF IInv, OwnerKnows
    <3>2. CASE e = d /\ m = c
      <4>1. row[m] = NewRow
        BY <2>1, <3>1, <3>2
      <4>2. NewRow \in Record
        BY DEF NewRow, NoRow, Record, Open
      <4>3. mem'[e][m] = NewRow
        BY <2>4, <3>2, <4>1, <4>2, Conversions
      <4>4. QED BY <4>1, <4>3
    <3>3. CASE e # d \/ m # c
      BY <2>5, <3>1, <3>3
    <3>4. QED BY <3>2, <3>3
  <2>7. TaskInv'
    \* The child has no task of this owner, which did not know it.
    <3>1. ASSUME NEW y \in task, pc[y.owner] = "driving"
          PROVE  /\ mem'[y.owner][y.action].state \in {"running", "waiting"} \cup Final
               /\ mem'[y.owner][y.action].attempt = y.attempt
      <4>1. y.owner \in Owner /\ y.action \in Action
        BY DEF IInv, TypeOK, Execution
      <4>2. /\ mem[y.owner][y.action].state \in {"running", "waiting"} \cup Final
            /\ mem[y.owner][y.action].attempt = y.attempt
        BY <3>1 DEF IInv, TaskInv
      <4>3. y.owner # d \/ y.action # c
        BY <2>1, <4>2 DEF Final
      <4>4. QED BY <2>5, <4>1, <4>2, <4>3
    <3>2. QED BY <2>1, <3>1 DEF IInv, TaskInv
  <2>8. TokensInv'
    BY <2>1 DEF IInv, TokensInv
  <2>9. QED BY <2>3, <2>6, <2>7, <2>8 DEF IInv
<1>6. QED BY <1>2, <1>3, <1>4, <1>5 DEF Run

LEMMA Cancel_inv ==
  ASSUME IInv, TypeOK', CancelRun
  PROVE  IInv'
<1>1. UNCHANGED <<claims, pc, mem, closing, task, ran>> /\ token' = 0 /\ ~live'
  BY DEF CancelRun
<1>2. RowsGrow
  <2> SUFFICES ASSUME NEW n \in Action
               PROVE  /\ row'[n].attempt >= row[n].attempt
                      /\ row'[n].state = "absent" => row'[n] = NoRow
    BY DEF RowsGrow
  <2>1. row[n] \in Record /\ row[n].attempt \in Nat
    BY DEF IInv, TypeOK, Record
  <2>2. row'[n] = row[n] \/ row'[n] = [row[n] EXCEPT !.state = "canceled"]
    BY DEF CancelRun
  <2>3. QED BY <2>1, <2>2 DEF Record, IInv, AbsentInv
<1>3. RanInv' /\ AttemptOnce' /\ AbsentInv'
  BY <1>1, <1>2, Growing DEF IInv
<1>4. TokensInv' /\ OwnerKnows' /\ TaskInv'
  BY <1>1 DEF IInv, TypeOK, TokensInv, OwnerKnows, TaskInv
<1>5. QED BY <1>3, <1>4 DEF IInv

LEMMA Next_inv == ASSUME LeaseAssumption, IInv, [Next]_vars PROVE IInv'
<1>0. TypeOK'
  BY Next_type DEF IInv
<1>1. CASE \E d \in Owner : Own(d)
  BY <1>0, <1>1, Own_inv
<1>2. CASE \E x \in task : Run(x)
  BY <1>0, <1>2, Run_inv
<1>3. CASE Expire
  BY <1>0, <1>3, Quiet_inv DEF IInv, TokensInv, Expire
<1>4. CASE CancelRun
  BY <1>0, <1>4, Cancel_inv
<1>5. CASE UNCHANGED vars
  BY <1>0, <1>5, Quiet_inv DEF IInv, TokensInv, vars
<1>6. QED BY <1>1, <1>2, <1>3, <1>4, <1>5 DEF Next

THEOREM Inductive == LeaseAssumption /\ Spec => []IInv
<1>1. ASSUME LeaseAssumption, IInv, [Next]_vars PROVE IInv'
  BY <1>1, Next_inv
<1>2. QED BY <1>1, Init_inv, LeaseAssumption, PTL DEF Spec

\* No two executions of an action share an attempt number, however many owners
\* follow each other and whatever tasks of lost ones still run.
THEOREM AttemptsAreUnique == LeaseAssumption /\ Spec => []AttemptOnce
<1>1. IInv => AttemptOnce
  BY DEF IInv
<1>2. QED BY <1>1, Inductive, PTL

\* The memory of the owner whose claim is in force agrees with the rows.
THEOREM OwnerIsUpToDate == LeaseAssumption /\ Spec => []OwnerKnows
<1>1. IInv => OwnerKnows
  BY DEF IInv
<1>2. QED BY <1>1, Inductive, PTL

-----------------------------------------------------------------------------
(* The writes of a driving owner. The fence admits a write only while the  *)
(* claim is in force, and then the owner's memory is the row it changes.   *)

LEMMA Fence_known ==
  ASSUME IInv, NEW d \in Owner, NEW n \in Action, pc[d] = "driving", Fence(d, n)
  PROVE  mem[d][n] = row[n] \/ (mem[d][n] = NoRow /\ row[n] = NewRow)
<1>1. token = d /\ live
  BY DEF Fence
<1>2. QED BY <1>1, Zenon DEF IInv, OwnerKnows

LEMMA Writes_fenced ==
  ASSUME IInv, NEW d \in Owner, NEW n \in Action, NEW r \in Record, Writes(d, n, r)
  PROVE  \/ row' = row
         \/ /\ Fence(d, n) /\ row'[n] = r
            /\ \A m \in Action \ {n} : row'[m] = row[m]
BY DEF IInv, TypeOK, Writes, Written, Failed

\* Every action whose task answers is in the state the task was left in.
LEMMA Answer_open ==
  ASSUME IInv, NEW x \in task, pc[x.owner] = "driving", mem[x.owner][x.action].state \in Open,
         Fence(x.owner, x.action)
  PROVE  /\ x.owner \in Owner /\ x.action \in Action
         /\ row[x.action].state \in {"running", "waiting"}
         /\ row[x.action] = mem[x.owner][x.action]
         /\ live /\ x = [owner |-> token, action |-> x.action, attempt |-> row[x.action].attempt]
<1>1. x \in Execution /\ x.owner \in Owner /\ x.action \in Action
  BY DEF IInv, TypeOK, Execution
<1>2. row[x.action] = mem[x.owner][x.action]
  BY <1>1, Fence_known DEF Open, NoRow
<1>3. /\ mem[x.owner][x.action].state \in {"running", "waiting"}
      /\ mem[x.owner][x.action].attempt = x.attempt
  BY DEF IInv, TaskInv, Open, Final
<1>4. token = x.owner /\ live
  BY DEF Fence
<1>5. x = [owner |-> token, action |-> x.action, attempt |-> row[x.action].attempt]
  BY <1>1, <1>2, <1>3, <1>4 DEF Execution
<1>6. QED BY <1>1, <1>2, <1>3, <1>4, <1>5

\* Nothing starts in a run that is over: an owner that starts an attempt takes
\* the root for open, and while its claim is in force it is right.
THEOREM NothingStartsLate == LeaseAssumption /\ Spec => NothingStartsAfterTheEnd
<1>1. ASSUME LeaseAssumption, IInv, Next, ran' # ran PROVE IsOpen(Root)
  <2>1. ASSUME NEW x \in task, Run(x) PROVE FALSE
    BY <1>1, <2>1 DEF Run, Kill, Answer, CreateChild, AddChild
  <2>2. ASSUME NEW d \in Owner, Own(d), \A n \in Action : ~Begin(d, n) PROVE FALSE
    BY <1>1, <2>2 DEF Own, ClaimRun, Load, Stop, Release, Crash, CloseRestored, Suspend, Resume,
                      AwaitImage, ImageReady, Turn, EndEarly, Close
  <2>3. PICK d \in Owner, n \in Action : Begin(d, n)
    BY <1>1, <2>1, <2>2 DEF Next, Expire, CancelRun
  <2>4. pc[d] = "driving" /\ mem[d][Root].state \in Open /\ token = d /\ live
    BY <1>1, <2>3 DEF Begin, Busy, Written, Failed, Fence
  <2>5. mem[d][Root] = row[Root] \/ mem[d][Root] = NoRow
    BY <1>1, <2>4, Zenon DEF IInv, OwnerKnows, LeaseAssumption
  <2>6. QED BY <2>4, <2>5 DEF IsOpen, NoRow, Open
<1>2. ASSUME LeaseAssumption, IInv, [Next]_vars PROVE [ran' # ran => IsOpen(Root)]_vars
  BY <1>1, <1>2 DEF vars
<1>3. QED BY <1>2, Inductive, LeaseAssumption, PTL DEF Spec, NothingStartsAfterTheEnd

-----------------------------------------------------------------------------
(* The owners of a run keep the promises of RunLedger, and only the holder's *)
(* tasks decide: every step that changes rows is a step of the ledger.      *)

\* The abstract rows are the rows.
LEMMA SameRows == /\ Ledger!Row = Record /\ Ledger!NewRow = NewRow /\ Ledger!NoRow = NoRow
                  /\ Ledger!OpenStates = Open /\ Ledger!FinalStates = Final
BY DEF Ledger!Row, Record, Ledger!NewRow, NewRow, Ledger!NoRow, NoRow, Ledger!OpenStates, Open,
       Ledger!FinalStates, Final

\* What one step may do to the row of n: a step of the ledger, and only the
\* holder's task of the latest attempt decides.
Keeps(n) ==
  /\ Ledger!Step(n)
  /\ \/ row'[n].failures # row[n].failures
     \/ row[n].state = "running" /\ row'[n].state \in {"done", "failed"}
     => live /\ [owner |-> token, action |-> n, attempt |-> row[n].attempt] \in task

\* It is enough to look at the rows that change.
AllKeep == \A n \in Action : row'[n] = row[n] \/ Keeps(n)

\* A write of one row keeps the promises if the written row does.
LEMMA Writes_keep ==
  ASSUME IInv, NEW d \in Owner, NEW n \in Action, NEW r \in Record, Writes(d, n, r),
         Fence(d, n) /\ row'[n] = r => Keeps(n)
  PROVE  AllKeep
BY Writes_fenced DEF AllKeep

\* The state of an open row changes, and neither count does.
LEMMA Plain ==
  ASSUME NEW n \in Action, row[n] \in Record, row[n].state \in Open,
         NEW s \in Open \cup {"canceled"}, row'[n] = [row[n] EXCEPT !.state = s]
  PROVE  Keeps(n)
<1>1. row'[n].state = s /\ row'[n].failures = row[n].failures
  BY DEF Record
<1>2. Ledger!Moves(row[n], row'[n]) \/ Ledger!Ends(row[n], row'[n])
  BY <1>1, SameRows DEF Ledger!Moves, Ledger!Ends, Final
<1>3. s \notin {"done", "failed"}
  BY DEF Open
<1>4. QED BY <1>1, <1>2, <1>3 DEF Keeps, Ledger!Step

LEMMA Own_keeps ==
  ASSUME LeaseAssumption, IInv, NEW d \in Owner, Own(d)
  PROVE  AllKeep
<1>1. CASE ClaimRun(d) \/ Stop(d) \/ Release(d) \/ Crash(d) \/ CloseRestored(d)
  BY <1>1 DEF AllKeep, ClaimRun, Stop, Release, Crash, CloseRestored
<1>2. ASSUME Load(d) PROVE AllKeep
  <2> SUFFICES ASSUME NEW n \in Action, row'[n] # row[n] PROVE Keeps(n)
    BY DEF AllKeep
  <2>1. row'[n] = [row[n] EXCEPT !.state = "queued"] /\ row[n].state \in Open
    BY <1>2 DEF Load, Reset, Open
  <2>2. QED BY <2>1, Plain DEF IInv, TypeOK, Open
<1>3. ASSUME NEW n \in Action, Begin(d, n) PROVE AllKeep
  <2> DEFINE next == [mem[d][n] EXCEPT !.state = "running", !.attempt = @ + 1]
  <2>1. mem[d][n] \in Record /\ mem[d][n].state = "queued" /\ pc[d] = "driving"
    BY <1>3 DEF IInv, TypeOK, Begin, Busy
  <2>2. next \in Record /\ Writes(d, n, next)
    BY <1>3, <2>1, Updates DEF Open, Begin, Writes
  <2>3. ASSUME Fence(d, n), row'[n] = next PROVE Keeps(n)
    <3>1. row[n] = mem[d][n]
      BY <2>1, <2>3, Fence_known DEF NoRow
    <3>2. Ledger!Begins(row[n], row'[n])
      BY <2>1, <2>3, <3>1 DEF Ledger!Begins
    <3>3. row'[n].failures = row[n].failures /\ row[n].state = "queued"
      BY <2>1, <2>3, <3>1 DEF Record
    <3>4. QED BY <3>2, <3>3 DEF Keeps, Ledger!Step
  <2> HIDE DEF next
  <2>4. QED BY <2>2, <2>3, Writes_keep
<1>4. ASSUME NEW n \in Action, NEW from \in Open, NEW to \in Open, Turn(d, n, from, to)
      PROVE  AllKeep
  <2> DEFINE next == [mem[d][n] EXCEPT !.state = to]
  <2>1. mem[d][n] \in Record /\ mem[d][n].state = from /\ pc[d] = "driving"
    BY <1>4 DEF IInv, TypeOK, Turn, Busy
  <2>2. next \in Record /\ Writes(d, n, next)
    BY <1>4, <2>1, Updates DEF Turn, Writes
  <2>3. ASSUME Fence(d, n), row'[n] = next PROVE Keeps(n)
    <3>1. row[n] = mem[d][n]
      BY <2>1, <2>3, Fence_known DEF NoRow, Open
    <3>2. QED BY <2>1, <2>3, <3>1, Plain
  <2> HIDE DEF next
  <2>4. QED BY <2>2, <2>3, Writes_keep
<1>5. ASSUME NEW n \in Action, EndEarly(d, n) PROVE AllKeep
  <2>1. PICK s \in {"done", "failed"} : Ended(d, n, [mem[d][n] EXCEPT !.state = s])
    BY <1>5 DEF EndEarly
  <2> DEFINE next == [mem[d][n] EXCEPT !.state = s]
  <2>2. mem[d][n] \in Record /\ mem[d][n].state \in {"queued", "waiting"} /\ pc[d] = "driving"
    BY <1>5 DEF IInv, TypeOK, EndEarly, Busy
  <2>3. next \in Record
    BY <2>2, Updates DEF Final
  <2>4. ASSUME Fence(d, n), row'[n] = next PROVE Keeps(n)
    <3>1. row[n] = mem[d][n]
      BY <2>2, <2>4, Fence_known DEF NoRow
    <3>2. row'[n].state = s /\ row'[n].failures = row[n].failures
      BY <2>2, <2>4, <3>1 DEF Record
    <3>3. Ledger!Ends(row[n], row'[n])
      BY <2>2, <2>4, <3>1, <3>2, SameRows DEF Ledger!Ends, Open, Final
    <3>4. QED BY <2>2, <3>1, <3>2, <3>3 DEF Keeps, Ledger!Step
  <2>5. Writes(d, n, next)
    BY <2>1, <2>3, Ended_writes
  <2> HIDE DEF next
  <2>6. QED BY <2>3, <2>4, <2>5, Writes_keep
<1>6. ASSUME NEW n \in Action, Close(d, n) PROVE AllKeep
  <2> DEFINE next == [mem[d][n] EXCEPT !.state = "canceled"]
  <2>1. mem[d][n] \in Record /\ pc[d] = "driving"
    BY <1>6 DEF IInv, TypeOK, Close
  <2>2. next \in Record /\ Writes(d, n, next)
    BY <1>6, <2>1, Updates DEF Final, Close, Writes
  <2>3. ASSUME Fence(d, n), row'[n] = next PROVE Keeps(n)
    \* Also a child the owner has not heard of would be canceled as it is.
    <3>1. next = [row[n] EXCEPT !.state = "canceled"]
      BY <2>1, <2>3, Fence_known DEF NewRow, NoRow
    <3>2. row[n].state \in Open
      BY <2>3 DEF Fence, IsOpen
    <3>3. QED BY <2>3, <3>1, <3>2, Plain DEF IInv, TypeOK
  <2> HIDE DEF next
  <2>4. QED BY <2>2, <2>3, Writes_keep
<1>7. QED
  BY <1>1, <1>2, <1>3, <1>4, <1>5, <1>6
  DEF Own, Suspend, Resume, AwaitImage, ImageReady, Open

LEMMA Run_keeps ==
  ASSUME LeaseAssumption, IInv, NEW x \in task, Run(x)
  PROVE  AllKeep
<1> DEFINE d == x.owner
           n == x.action
           failed == [mem[d][n] EXCEPT !.state = "failed", !.failures = @ + 1]
           retry == [failed EXCEPT !.state = "queued"]
           done == [mem[d][n] EXCEPT !.state = "done"]
<1>1. x \in Execution /\ d \in Owner /\ n \in Action
  BY DEF IInv, TypeOK, Execution
<1>2. CASE Kill(x) \/ \E c \in Child : AddChild(x, c)
  BY <1>2 DEF AllKeep, Kill, AddChild
<1>3. ASSUME NEW c \in Child, CreateChild(x, c) PROVE AllKeep
  <2>1. /\ c \in Action /\ c # Root /\ Parent[c] = n /\ row[c] = NoRow
        /\ row' = [row EXCEPT ![c] = NewRow]
    BY <1>3 DEF CreateChild, Child, IInv, AbsentInv
  <2>2. /\ row'[c] = NewRow
        /\ \A m \in Action \ {c} : row'[m] = row[m]
    BY <2>1 DEF IInv, TypeOK
  <2>3. row[n].attempt > 0
    BY <1>1 DEF IInv, RanInv, TypeOK, Execution, Record
  <2>4. Ledger!Appears(c)
    BY <2>1, <2>2, <2>3, SameRows DEF Ledger!Appears
  <2>5. NewRow.failures = NoRow.failures /\ NoRow.state = "absent"
    BY DEF NewRow, NoRow
  <2>6. Keeps(c)
    BY <2>1, <2>2, <2>4, <2>5 DEF Keeps, Ledger!Step
  <2>7. QED BY <2>2, <2>6 DEF AllKeep
<1>4. ASSUME Answer(x) PROVE AllKeep
  <2>1. pc[d] = "driving" /\ mem[d][n] \in Record
    BY <1>1, <1>4 DEF Answer, Busy, IInv, TypeOK
  <2>2. /\ mem[d][n].failures + 1 \in Nat
        /\ done = [mem[d][n] EXCEPT !.state = "done"]
        /\ failed = [mem[d][n] EXCEPT !.state = "failed", !.failures = mem[d][n].failures + 1]
        /\ retry = [mem[d][n] EXCEPT !.state = "queued", !.failures = mem[d][n].failures + 1]
        /\ failed.failures = mem[d][n].failures + 1
    <3>1. /\ mem[d][n].failures + 1 \in Nat
          /\ failed = [mem[d][n] EXCEPT !.state = "failed", !.failures = mem[d][n].failures + 1]
      BY <2>1 DEF Record
    <3> HIDE DEF failed
    <3>2. /\ failed.failures = mem[d][n].failures + 1
          /\ retry = [mem[d][n] EXCEPT !.state = "queued", !.failures = mem[d][n].failures + 1]
      BY <2>1, <3>1 DEF Record
    <3>3. QED BY <3>1, <3>2
  <2> HIDE DEF done, failed, retry
  <2>3. done \in Record /\ failed \in Record /\ retry \in Record
    BY <2>1, <2>2 DEF Record, Open, Final
  <2>4. CASE UNCHANGED row
    BY <2>4 DEF AllKeep
  <2>5. ASSUME mem[d][n].state \in Open, NEW r \in {done, failed, retry}, Writes(d, n, r),
               r = retry => failed.failures < MaxAttempts[n]
        PROVE  AllKeep
    <3>1. ASSUME Fence(d, n), row'[n] = r PROVE Keeps(n)
      <4>1. /\ row[n] = mem[d][n] /\ row[n].state \in {"running", "waiting"}
            /\ live /\ [owner |-> token, action |-> n, attempt |-> row[n].attempt] \in task
        BY <2>1, <2>5, <3>1, Answer_open
      <4>2. CASE r = done
        <5>1. row'[n].state = "done" /\ row'[n] = [row[n] EXCEPT !.state = "done"]
          BY <2>1, <2>2, <3>1, <4>1, <4>2 DEF Record
        <5>2. Ledger!Ends(row[n], row'[n])
          BY <4>1, <5>1, SameRows DEF Ledger!Ends, Open, Final
        <5>3. QED BY <4>1, <5>2 DEF Keeps, Ledger!Step
      <4>3. CASE r = failed
        <5>1. /\ row'[n].state = "failed"
              /\ row'[n] = [row[n] EXCEPT !.state = "failed", !.failures = row[n].failures + 1]
          BY <2>1, <2>2, <3>1, <4>1, <4>3 DEF Record
        <5>2. Ledger!Ends(row[n], row'[n])
          BY <4>1, <5>1, SameRows DEF Ledger!Ends, Open, Final
        <5>3. QED BY <4>1, <5>2 DEF Keeps, Ledger!Step
      <4>4. CASE r = retry
        <5>1. Ledger!Retries(row[n], row'[n], MaxAttempts[n])
          BY <2>2, <2>5, <3>1, <4>1, <4>4 DEF Ledger!Retries
        <5>2. QED BY <4>1, <5>1 DEF Keeps, Ledger!Step
      <4>5. QED BY <2>5, <4>2, <4>3, <4>4
    <3>2. r \in Record
      BY <2>3
    <3>3. QED BY <1>1, <2>5, <3>1, <3>2, Writes_keep
  <2>6. CASE mem[d][n].state \in Open /\ (Ended(d, n, done) \/ Ended(d, n, failed))
    <3>1. Ended(d, n, done) => Writes(d, n, done)
      BY <1>1, <2>3, Ended_writes
    <3>2. Ended(d, n, failed) => Writes(d, n, failed)
      BY <1>1, <2>3, Ended_writes
    <3>3. done # retry /\ failed # retry
      BY <2>1, <2>2 DEF Record
    <3>4. QED BY <2>5, <2>6, <3>1, <3>2, <3>3
  <2>7. CASE /\ mem[d][n].state \in Open /\ failed.failures < MaxAttempts[n]
             /\ (Written(d, n, retry) /\ UNCHANGED <<pc, closing, faults>>) \/ Failed(d, n, retry)
    BY <2>5, <2>7 DEF Writes
  <2>8. QED BY <1>4, <2>4, <2>6, <2>7 DEF Answer, done, failed, retry
<1>5. QED BY <1>2, <1>3, <1>4 DEF Run

LEMMA Next_keeps == ASSUME LeaseAssumption, IInv, [Next]_vars PROVE AllKeep
<1>1. CASE \E d \in Owner : Own(d)
  BY <1>1, Own_keeps
<1>2. CASE \E x \in task : Run(x)
  BY <1>2, Run_keeps
<1>3. CASE Expire \/ UNCHANGED vars
  BY <1>3 DEF Expire, vars, AllKeep
<1>4. CASE CancelRun
  <2> SUFFICES ASSUME NEW n \in Action, row'[n] # row[n] PROVE Keeps(n)
    BY DEF AllKeep
  <2>1. row[n].state \in Open /\ row'[n] = [row[n] EXCEPT !.state = "canceled"]
    BY <1>4 DEF CancelRun, IsOpen
  <2>2. QED BY <2>1, Plain DEF IInv, TypeOK
<1>5. QED BY <1>1, <1>2, <1>3, <1>4 DEF Next

\* The rows keep the promises of the ledger, whoever owns the run and however
\* its owners are lost.
THEOREM Implements == LeaseAssumption /\ Spec => KeepsLedger
<1>1. ASSUME LeaseAssumption, Init PROVE Ledger!Init
  BY <1>1, SameRows DEF Init, Ledger!Init
<1>2. ASSUME LeaseAssumption, IInv, [Next]_vars PROVE [Ledger!Next]_row
  <2>1. row' \in [Action -> Ledger!Row]
    BY <1>2, Next_inv, SameRows DEF IInv, TypeOK
  <2>2. \A n \in Action : row'[n] = row[n] \/ Ledger!Step(n)
    BY <1>2, Next_keeps DEF AllKeep, Keeps
  <2>3. QED BY <2>1, <2>2 DEF Ledger!Next
<1>3. QED BY <1>1, <1>2, Inductive, LeaseAssumption, PTL DEF Spec, KeepsLedger, Ledger!Spec

\* Only the holder's task of an action's latest attempt charges a failure to
\* it or ends its running: the answers of lost owners' tasks decide nothing.
THEOREM HolderDecides == LeaseAssumption /\ Spec => ClaimDecides
<1>1. ASSUME LeaseAssumption, IInv, [Next]_vars
      PROVE  [\A n \in Action :
                \/ row'[n].failures # row[n].failures
                \/ row[n].state = "running" /\ row'[n].state \in {"done", "failed"}
                => live /\ [owner |-> token, action |-> n, attempt |-> row[n].attempt] \in task]_vars
  BY <1>1, Next_keeps DEF AllKeep, Keeps
<1>2. QED BY <1>1, Inductive, LeaseAssumption, PTL DEF Spec, ClaimDecides

-----------------------------------------------------------------------------
(* Who gives up. An owner's writes are refused for no other reason than a  *)
(* claim it lost: what it writes is open in its memory, and so in the rows *)
(* while the claim is in force. This holds of what it closes, too.         *)

\* What an owner is about to close is open as far as it knows, and it closes
\* nothing before it has loaded the run.
ClosingInv ==
  \A d \in Owner : /\ \A n \in closing[d] : mem[d][n].state \in Open
                   /\ pc[d] \in {"unborn", "claimed"} => closing[d] = {}

\* An action is not closed with what is below it.
LEMMA Below_proper == ASSUME LeaseAssumption, NEW d, NEW n \in Child PROVE n \notin Below(d, n)
BY DEF LeaseAssumption, Below, Child

\* What the end of an action leaves to be closed stays open in memory.
LEMMA Ended_closing ==
  ASSUME LeaseAssumption, TypeOK, NEW d \in Owner, NEW n \in Action, NEW r \in Record,
         Ended(d, n, r)
  PROVE  /\ \A m \in closing'[d] : mem'[d][m].state \in Open
         /\ \A e \in Owner \ {d} : /\ closing'[e] = closing[e] /\ mem'[e] = mem[e] /\ pc'[e] = pc[e]
         /\ pc'[d] \in {pc[d], "stopping"}
<1>1. CASE Failed(d, n, r)
  BY <1>1 DEF Failed, TypeOK
<1>2. CASE ~Failed(d, n, r)
  <2> DEFINE Left == {m \in IF n = Root THEN Action \ {n} ELSE Below(d, n) : mem[d][m].state \in Open}
  <2>1. /\ mem' = [mem EXCEPT ![d][n] = r] /\ closing' = [closing EXCEPT ![d] = Left]
        /\ pc' \in {pc, [pc EXCEPT ![d] = "stopping"]}
    BY <1>2 DEF Ended, Written
  <2>2. n \notin Left
    BY Below_proper DEF Child
  <2>3. Left \subseteq Action /\ \A m \in Left : mem[d][m].state \in Open
    BY DEF Below, Child
  <2> HIDE DEF Left
  <2>4. closing'[d] = Left /\ \A m \in Action \ {n} : mem'[d][m] = mem[d][m]
    BY <2>1 DEF TypeOK
  <2>5. \A e \in Owner \ {d} : closing'[e] = closing[e] /\ mem'[e] = mem[e] /\ pc'[e] = pc[e]
    BY <2>1 DEF TypeOK
  <2>6. pc'[d] \in {pc[d], "stopping"}
    BY <2>1 DEF TypeOK
  <2>7. QED BY <2>2, <2>3, <2>4, <2>5, <2>6
<1>3. QED BY <1>1, <1>2

\* An owner's own steps.
LEMMA Own_closing ==
  ASSUME LeaseAssumption, IInv, ClosingInv, NEW d \in Owner, Own(d) PROVE ClosingInv'
<1>0. TypeOK
  BY DEF IInv
<1>1. CASE ClaimRun(d)
  <2>1. pc[d] = "unborn" /\ UNCHANGED <<mem, closing>>
    BY <1>0, <1>1 DEF ClaimRun, IInv, TokensInv, TypeOK, Owner
  <2>2. QED BY <1>0, <1>1, <2>1 DEF ClaimRun, ClosingInv, TypeOK
<1>2. CASE Load(d)
  BY <1>0, <1>2 DEF Load, ClosingInv, TypeOK
<1>3. CASE Stop(d) \/ Crash(d) \/ Release(d)
  BY <1>0, <1>3 DEF Stop, Crash, Release, ClosingInv, TypeOK
<1>4. CASE CloseRestored(d)
  BY <1>0, <1>4 DEF CloseRestored, ClosingInv, TypeOK
<1>5. ASSUME NEW n \in Action, NEW r \in Record, Busy(d), Ended(d, n, r) PROVE ClosingInv'
  BY <1>0, <1>5, Ended_closing DEF Busy, ClosingInv
<1>6. ASSUME NEW n \in Action, NEW r \in Record, Busy(d),
             Failed(d, n, r) \/ (Written(d, n, r) /\ UNCHANGED <<pc, closing>>)
      PROVE  ClosingInv'
  BY <1>0, <1>6 DEF Busy, Failed, Written, ClosingInv, TypeOK
<1>7. ASSUME NEW n \in Action, Close(d, n) PROVE ClosingInv'
  <2> DEFINE r == [mem[d][n] EXCEPT !.state = "canceled"]
  <2>1. CASE Failed(d, n, r)
    BY <1>0, <2>1 DEF Failed, ClosingInv, TypeOK
  <2>2. CASE ~Failed(d, n, r)
    <3>1. /\ mem' = [mem EXCEPT ![d][n] = r] /\ closing' = [closing EXCEPT ![d] = closing[d] \ {n}]
          /\ pc' \in {pc, [pc EXCEPT ![d] = "stopping"]} /\ pc[d] = "driving"
      BY <1>7, <2>2 DEF Close, Written
    <3> HIDE DEF r
    <3>2. QED BY <1>0, <3>1 DEF ClosingInv, TypeOK
  <2>3. QED BY <2>1, <2>2
<1>8. ASSUME NEW n \in Action,
             Begin(d, n) \/ Suspend(d, n) \/ Resume(d, n) \/ AwaitImage(d, n) \/ ImageReady(d, n)
      PROVE  ClosingInv'
  <2>1. /\ [mem[d][n] EXCEPT !.state = "running", !.attempt = @ + 1] \in Record
        /\ \A s \in {"running", "waiting", "queued"} : [mem[d][n] EXCEPT !.state = s] \in Record
    <3>1. mem[d][n] \in Record
      BY <1>0 DEF TypeOK
    <3>2. QED BY <3>1, Updates DEF Open
  <2>2. QED BY <1>6, <1>8, <2>1 DEF Begin, Suspend, Resume, AwaitImage, ImageReady, Turn
<1>9. ASSUME NEW n \in Action, EndEarly(d, n) PROVE ClosingInv'
  <2>1. \A s \in {"done", "failed"} : [mem[d][n] EXCEPT !.state = s] \in Record
    <3>1. mem[d][n] \in Record
      BY <1>0 DEF TypeOK
    <3>2. QED BY <3>1, Updates DEF Final
  <2>2. QED BY <1>5, <1>9, <2>1 DEF EndEarly
<1>10. QED BY <1>1, <1>2, <1>3, <1>4, <1>7, <1>8, <1>9 DEF Own

LEMMA Next_closing ==
  ASSUME LeaseAssumption, IInv, ClosingInv, [Next]_vars PROVE ClosingInv'
<1>0. TypeOK
  BY DEF IInv
<1>1. CASE \E d \in Owner : Own(d)
  BY <1>1, Own_closing
<1>2. ASSUME NEW x \in task, Answer(x) PROVE ClosingInv'
  <2> DEFINE d == x.owner
             n == x.action
             failed == [mem[d][n] EXCEPT !.state = "failed", !.failures = @ + 1]
             retry == [failed EXCEPT !.state = "queued"]
             done == [mem[d][n] EXCEPT !.state = "done"]
  <2>1. d \in Owner /\ n \in Action
    BY <1>0 DEF TypeOK, Execution
  <2>2. failed \in Record /\ done \in Record
    <3>1. mem[d][n] \in Record
      BY <1>0, <2>1 DEF TypeOK
    <3>2. QED BY <3>1, Updates DEF Final
  <2>3. retry \in Record
    BY <2>2, Updates DEF Open
  <2>4. /\ Busy(d)
        /\ \/ UNCHANGED <<mem, pc, closing>>
           \/ Ended(d, n, done) \/ Ended(d, n, failed)
           \/ (Written(d, n, retry) /\ UNCHANGED <<pc, closing>>) \/ Failed(d, n, retry)
    BY <1>2 DEF Answer
  <2> HIDE DEF d, n, failed, retry, done
  <2>5. CASE UNCHANGED <<mem, pc, closing>>
    BY <2>5 DEF ClosingInv
  <2>6. CASE Ended(d, n, done) \/ Ended(d, n, failed)
    BY <1>0, <2>1, <2>2, <2>4, <2>6, Ended_closing DEF Busy, ClosingInv
  <2>7. CASE (Written(d, n, retry) /\ UNCHANGED <<pc, closing>>) \/ Failed(d, n, retry)
    BY <1>0, <2>1, <2>3, <2>4, <2>7 DEF Busy, Failed, Written, ClosingInv, TypeOK
  <2>8. QED BY <2>4, <2>5, <2>6, <2>7
<1>3. ASSUME NEW x \in task, NEW c \in Child, AddChild(x, c) PROVE ClosingInv'
  <2>1. x.owner \in Owner /\ closing[x.owner] = {}
    BY <1>0, <1>3 DEF TypeOK, Execution, AddChild, Busy
  <2>2. UNCHANGED <<pc, closing>> /\ \A e \in Owner \ {x.owner} : mem'[e] = mem[e]
    BY <1>0, <1>3 DEF AddChild, TypeOK
  <2>3. QED BY <2>1, <2>2 DEF ClosingInv
<1>4. CASE Expire \/ CancelRun \/ UNCHANGED vars
           \/ \E x \in task : Kill(x) \/ \E c \in Child : CreateChild(x, c)
  BY <1>4 DEF Expire, CancelRun, vars, Kill, CreateChild, ClosingInv
<1>5. QED BY <1>1, <1>2, <1>3, <1>4 DEF Next, Run

\* While its claim is in force, the fence admits what an owner writes of an action that is
\* open in its memory.
LEMMA Admitted ==
  ASSUME IInv, NEW d \in Owner, NEW n \in Action, pc[d] = "driving", token = d, live,
         mem[d][n].state \in Open
  PROVE  Fence(d, n) /\ \A r : Failed(d, n, r) => faults' # faults
<1>1. mem[d][n] = row[n] \/ mem[d][n] = NoRow
  BY Zenon DEF IInv, OwnerKnows
<1>2. Fence(d, n)
  BY <1>1 DEF Fence, IsOpen, NoRow, NewRow, Open
<1>3. faults + 1 # faults
  BY DEF IInv, TypeOK
<1>4. QED BY <1>2, <1>3 DEF Failed

\* An owner that takes the root for final is right.
LEMMA Over_known ==
  ASSUME IInv, NEW d \in Owner, pc[d] = "driving", token = d, live, LeaseAssumption,
         mem[d][Root].state \in Final
  PROVE  ~IsOpen(Root)
<1>1. mem[d][Root] = row[Root] \/ mem[d][Root] = NoRow
  BY Zenon DEF IInv, OwnerKnows, LeaseAssumption
<1>2. QED BY <1>1 DEF IsOpen, NoRow, Open, Final

\* The end of an action stops its owner with the claim in force only with the run.
LEMMA Ended_stops ==
  ASSUME LeaseAssumption, IInv, NEW d \in Owner, NEW n \in Action, NEW r, r.state \in Final,
         pc[d] = "driving", token = d, live, mem[d][n].state \in Open, Ended(d, n, r),
         pc'[d] = "stopping", faults' = faults
  PROVE  ~IsOpen(Root)'
<1>1. ~Failed(d, n, r)
  BY Admitted
<1>2. Written(d, n, r) /\ n = Root
  BY <1>1 DEF Ended
<1>3. row'[Root] = r
  BY <1>2 DEF Written, IInv, TypeOK
<1>4. QED BY <1>3 DEF IsOpen, Open, Final

\* An owner gives up only when its claim is lost, the run is over or something failed: no
\* write of a healthy owner is refused (drive, renew, Executor.fail).
THEOREM OnlyFaultsStopOwners == LeaseAssumption /\ Spec => OnlyFaultsStop
<1>1. ASSUME LeaseAssumption, IInv, ClosingInv, Next, NEW d \in Owner, pc[d] = "driving",
             pc'[d] = "stopping", faults' = faults
      PROVE  token' # d \/ ~live' \/ ~IsOpen(Root)'
  <2> SUFFICES ASSUME token' = d, live' PROVE ~IsOpen(Root)'
    OBVIOUS
  <2>0. TypeOK
    BY <1>1 DEF IInv
  <2>1. ASSUME NEW e \in Owner, Own(e), e # d PROVE FALSE
    <3>1. pc' \in {[pc EXCEPT ![e] = s] : s \in {"claimed", "driving", "stopping", "gone"}} \cup {pc}
      BY <2>1 DEF Own, ClaimRun, Load, Stop, Release, Crash, CloseRestored, Begin, Suspend, Resume,
                  AwaitImage, ImageReady, Turn, EndEarly, Ended, Close, Failed
    <3>2. pc'[d] = pc[d]
      BY <2>0, <2>1, <3>1 DEF TypeOK
    <3>3. QED BY <1>1, <3>2
  <2>2. ASSUME NEW x \in task, Run(x), x.owner # d PROVE FALSE
    <3>1. pc' \in {[pc EXCEPT ![x.owner] = "stopping"], pc}
      BY <2>2 DEF Run, Kill, Answer, CreateChild, AddChild, Ended, Failed
    <3>2. pc'[d] = pc[d]
      BY <2>0, <2>2, <3>1 DEF TypeOK, Execution
    <3>3. QED BY <1>1, <3>2
  <2>3. ASSUME NEW n \in Action, mem[d][n].state \in Open, token = d, live
        PROVE  \A r : ~Failed(d, n, r)
    BY <1>1, <2>3, Admitted
  <2>4. CASE Stop(d) \/ ClaimRun(d) \/ Load(d) \/ Release(d) \/ Crash(d)
    <3>1. faults + 1 # faults
      BY <2>0 DEF TypeOK
    <3>2. ~ClaimRun(d) /\ ~Load(d) /\ ~Release(d) /\ ~Crash(d)
      BY <1>1, <2>0 DEF ClaimRun, Load, Release, Crash, TypeOK
    <3>3. Stop(d) => token' # d \/ ~live'
      BY <1>1, <3>1 DEF Stop
    <3>4. QED BY <2>4, <3>2, <3>3
  <2>5. CASE CloseRestored(d)
    <3>1. mem[d][Root].state \in Final /\ token = d /\ live /\ UNCHANGED row
      BY <2>5 DEF CloseRestored
    <3>2. ~IsOpen(Root)
      BY <1>1, <3>1, Over_known
    <3>3. QED BY <3>1, <3>2 DEF IsOpen
  <2>6. ASSUME NEW n \in Action,
               Begin(d, n) \/ Suspend(d, n) \/ Resume(d, n) \/ AwaitImage(d, n) \/ ImageReady(d, n)
        PROVE  FALSE
    <3>1. mem[d][n].state \in Open /\ token = d /\ live /\ ((\E r : Failed(d, n, r)) \/ pc' = pc)
      BY <2>6 DEF Begin, Suspend, Resume, AwaitImage, ImageReady, Turn, Open
    <3>2. QED BY <1>1, <2>3, <3>1
  <2>7. ASSUME NEW n \in Action, EndEarly(d, n) PROVE ~IsOpen(Root)'
    <3>1. PICK s \in {"done", "failed"} : Ended(d, n, [mem[d][n] EXCEPT !.state = s])
      BY <2>7 DEF EndEarly
    <3>2. mem[d][n].state \in Open /\ token = d /\ live
      BY <2>7 DEF EndEarly, Open
    <3>3. [mem[d][n] EXCEPT !.state = s].state \in Final
      BY <2>0 DEF TypeOK, Record, Final
    <3> DEFINE r == [mem[d][n] EXCEPT !.state = s]
    <3>4. Ended(d, n, r) /\ r.state \in Final
      BY <3>1, <3>3
    <3> HIDE DEF r
    <3>5. QED BY <1>1, <3>2, <3>4, Ended_stops
  <2>8. ASSUME NEW n \in Action, Close(d, n) PROVE ~IsOpen(Root)'
    <3>1. mem[d][n].state \in Open /\ token = d /\ live
      BY <1>1, <2>8 DEF Close, ClosingInv
    <3>2. /\ Written(d, n, [mem[d][n] EXCEPT !.state = "canceled"]) /\ mem[d][Root].state \in Final
      BY <1>1, <2>3, <2>8, <3>1 DEF Close
    <3>3. ~IsOpen(Root) /\ n # Root
      BY <1>1, <3>1, <3>2, Over_known DEF Open, Final
    <3>4. row'[Root] = row[Root]
      BY <1>1, <2>0, <3>2, <3>3 DEF Written, TypeOK, LeaseAssumption
    <3>5. QED BY <3>3, <3>4 DEF IsOpen
  <2>9. ASSUME NEW x \in task, Run(x), x.owner = d PROVE ~IsOpen(Root)'
    <3> DEFINE n == x.action
               failed == [mem[d][n] EXCEPT !.state = "failed", !.failures = @ + 1]
               retry == [failed EXCEPT !.state = "queued"]
               done == [mem[d][n] EXCEPT !.state = "done"]
    <3>1. n \in Action
      BY <2>0 DEF TypeOK, Execution
    <3>2. /\ token = d /\ live /\ mem[d][n].state \in Open
          /\ Ended(d, n, done) \/ Ended(d, n, failed) \/ Failed(d, n, retry)
      BY <1>1, <2>9 DEF Run, Kill, Answer, CreateChild, AddChild
    <3>3. failed.state \in Final /\ done.state \in Final
      BY <2>0, <3>1 DEF TypeOK, Record, Final
    <3> HIDE DEF n, failed, retry, done
    <3>4. QED BY <1>1, <2>3, <3>1, <3>2, <3>3, Ended_stops
  <2>10. QED
    BY <1>1, <2>1, <2>2, <2>4, <2>5, <2>6, <2>7, <2>8, <2>9 DEF Next, Own, Expire, CancelRun
<1>2. ASSUME LeaseAssumption, IInv, ClosingInv, [Next]_vars
      PROVE  [\A d \in Owner : pc[d] = "driving" /\ pc'[d] = "stopping" /\ faults' = faults =>
                token' # d \/ ~live' \/ ~IsOpen(Root)']_vars
  BY <1>1, <1>2
<1>3. Init => ClosingInv
  BY DEF Init, ClosingInv
<1>4. ASSUME LeaseAssumption, IInv, ClosingInv, [Next]_vars PROVE ClosingInv'
  BY <1>4, Next_closing
<1>5. QED BY <1>2, <1>3, <1>4, Inductive, LeaseAssumption, PTL DEF Spec, OnlyFaultsStop
=============================================================================
