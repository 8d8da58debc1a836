------------------------------ MODULE RunLease ------------------------------
(***************************************************************************)
(* The ownership of one run among all workers: the claim token and lease   *)
(* of lutra.runs, the owners that run_worker.go starts for it (drive and   *)
(* renew), and what each of them, knowing only what it loaded, does to the *)
(* rows. An owner that lost its claim may still have tasks running.        *)
(*                                                                         *)
(* Every statement on the rows runs in a transaction that locks the run    *)
(* first (LockRun), so a transaction is one step. GraphExec looks inside   *)
(* one owner; here an owner's executor is reduced to the writes it makes.  *)
(***************************************************************************)
EXTENDS Naturals

CONSTANTS
  Action,       \* the actions the run may consist of
  Root,         \* its root action
  Parent,       \* the caller of every other action
  MaxAttempts,  \* ActionSpec.max_attempts
  MaxClaims,    \* bound: how often the run is claimed
  MaxFaults     \* bound: expired leases, crashes, lost writes, cancellations

ASSUME LeaseAssumption ==
  /\ Root \in Action
  /\ Parent \in [Action \ {Root} -> Action]
  \* No action is its own ancestor.
  /\ \A n \in Action \ {Root} : \E S \in SUBSET (Action \ {Root}) :
       n \notin S /\ \A c \in Action \ {Root} : Parent[c] \in S \cup {n} => c \in S
  /\ MaxAttempts \in [Action -> Nat \ {0}]
  /\ MaxClaims \in Nat /\ MaxFaults \in Nat

VARIABLES
  row,      \* lutra.task_actions
  token,    \* lutra.runs.claim_token, 0 for NULL
  live,     \* lease_until > now()
  claims,   \* how many tokens were drawn; the owner with token d is called d
  pc,       \* where an owner stands
  mem,      \* the graph an owner keeps in memory
  closing,  \* the descendants an owner is about to cancel (closeLocked)
  task,     \* the tasks that run: who started them, action and attempt
  ran,      \* every attempt that was ever started
  faults

vars == <<row, token, live, claims, pc, mem, closing, task, ran, faults>>

Ledger == INSTANCE RunLedger WITH ledger <- row

-----------------------------------------------------------------------------
(* State formulae. An operator whose name ends in Bug is a wrong variant of *)
(* the one that follows it, used only to try whether a property notices.   *)

Owner == 1..MaxClaims
Child == Action \ {Root}
Open == {"queued", "running", "waiting"}
Final == {"done", "failed", "canceled"}
Record == [state : Open \cup Final \cup {"absent"}, attempt : Nat, failures : Nat]
NoRow == [state |-> "absent", attempt |-> 0, failures |-> 0]
NewRow == [NoRow EXCEPT !.state = "queued"]
Execution == [owner : Owner, action : Action, attempt : Nat]

Nothing == [n \in Action |-> NoRow]

TypeOK ==
  /\ row \in [Action -> Record]
  /\ token \in 0..MaxClaims /\ live \in BOOLEAN
  /\ claims \in 0..MaxClaims
  /\ pc \in [Owner -> {"unborn", "claimed", "driving", "stopping", "gone"}]
  /\ mem \in [Owner -> [Action -> Record]]
  /\ closing \in [Owner -> SUBSET Action]
  /\ task \subseteq Execution /\ ran \subseteq Execution
  /\ faults \in 0..MaxFaults

Init ==
  /\ row = [n \in Action |-> IF n = Root THEN NewRow ELSE NoRow]
  /\ token = 0 /\ live = FALSE /\ claims = 0
  /\ pc = [d \in Owner |-> "unborn"] /\ mem = [d \in Owner |-> Nothing]
  /\ closing = [d \in Owner |-> {}]
  /\ task = {} /\ ran = {} /\ faults = 0

IsOpen(n) == row[n].state \in Open
TasksOf(d, n) == {x \in task : x.owner = d /\ x.action = n}

\* The actions below p in the graph that owner d knows (closeLocked's walk).
Below(d, p) ==
  {n \in Child : \A S \in SUBSET Child :
     (\A c \in Child : Parent[c] \in S \cup {p} => c \in S) => n \in S}

-----------------------------------------------------------------------------
(* The claim *)

ClaimRun(d) ==
  /\ d = claims + 1
  /\ token = 0 \/ ~live
  /\ \E n \in Action : IsOpen(n)
  /\ claims' = d /\ token' = d /\ live' = TRUE
  /\ pc' = [pc EXCEPT ![d] = "claimed"]
  /\ UNCHANGED <<row, mem, closing, task, ran, faults>>

\* Rows a lost owner left running go back to the queue. The statement checks
\* the claim, but drive does not look at how many rows it changed.
ResetBug(r) == IF r.state \in {"running", "waiting"} THEN NewRow ELSE r
Reset(r) == IF r.state \in {"running", "waiting"} THEN [r EXCEPT !.state = "queued"] ELSE r

\* graphNode: whatever is not final is pending in the new owner's graph.
RestoredBug(r) == IF r.state \in Open THEN [r EXCEPT !.state = "queued", !.attempt = 0] ELSE r
Restored(r) == IF r.state \in Open THEN [r EXCEPT !.state = "queued"] ELSE r

Load(d) ==
  /\ pc[d] = "claimed" /\ pc' = [pc EXCEPT ![d] = "driving"]
  /\ row' = IF token = d /\ live THEN [n \in Action |-> Reset(row[n])] ELSE row
  /\ mem' = [mem EXCEPT ![d] = [n \in Action |-> Restored(row[n])]]
  /\ UNCHANGED <<token, live, claims, closing, task, ran, faults>>

\* The context of drive ends: renew found the claim lost, or the worker stops.
Stop(d) ==
  /\ pc[d] \in {"claimed", "driving"}
  /\ pc' = [pc EXCEPT ![d] = "stopping"]
  /\ \/ (token # d \/ ~live) /\ UNCHANGED faults
     \/ faults < MaxFaults /\ faults' = faults + 1
  /\ closing' = [closing EXCEPT ![d] = {}]
  /\ UNCHANGED <<row, token, live, claims, mem, task, ran>>

\* A task of an owner that stops is killed; it may run on for a while.
Kill(x) ==
  /\ x \in task /\ pc[x.owner] = "stopping"
  /\ task' = task \ {x}
  /\ UNCHANGED <<row, token, live, claims, pc, mem, closing, ran, faults>>

\* The deferred ReleaseRunClaim, of the owner's own token only, after Run waited for its goroutines.
Release(d) ==
  /\ pc[d] = "stopping" /\ \A x \in task : x.owner # d
  /\ pc' = [pc EXCEPT ![d] = "gone"]
  /\ token' = IF token = d THEN 0 ELSE token
  /\ live' = (live /\ token # d)
  /\ UNCHANGED <<row, claims, mem, closing, task, ran, faults>>

-----------------------------------------------------------------------------
(* Transition: an owner's write of one row                                 *)

FenceBug(d, n) == token # 0 /\ live /\ IsOpen(n)

\* TransitionRunTaskAction changes the row only for the holder of the claim,
\* and only if it is open and in the attempt the holder believes it to be in.
Fence(d, n) == token = d /\ live /\ IsOpen(n) /\ row[n].attempt = mem[d][n].attempt

\* The write succeeds, and only then the owner's memory follows.
Written(d, n, r) ==
  /\ Fence(d, n)
  /\ row' = [row EXCEPT ![n] = r] /\ mem' = [mem EXCEPT ![d][n] = r]

\* The write is refused, or fails with or without effect: the owner gives up.
Failed(d, n, r) ==
  /\ pc' = [pc EXCEPT ![d] = "stopping"] /\ closing' = [closing EXCEPT ![d] = {}]
  /\ \/ ~Fence(d, n) /\ UNCHANGED <<row, faults>>
     \/ /\ Fence(d, n) /\ faults < MaxFaults /\ faults' = faults + 1
        /\ row' = row \/ row' = [row EXCEPT ![n] = r]
  /\ UNCHANGED mem

BusyBug(d) == pc[d] = "driving" /\ closing[d] = {}

\* Run goes on: nothing is being closed and the root is not final.
Busy(d) == pc[d] = "driving" /\ closing[d] = {} /\ mem[d][Root].state \in Open

\* The next attempt of a queued action: its task starts after the write.
Begin(d, n) ==
  LET next == [mem[d][n] EXCEPT !.state = "running", !.attempt = @ + 1]
      x == [owner |-> d, action |-> n, attempt |-> next.attempt]
  IN /\ Busy(d) /\ mem[d][n].state = "queued"
     /\ \/ /\ Written(d, n, next)
           /\ task' = task \cup {x} /\ ran' = ran \cup {x}
           /\ UNCHANGED <<pc, closing, faults>>
        \/ Failed(d, n, next) /\ UNCHANGED <<task, ran>>
     /\ UNCHANGED <<token, live, claims>>

\* The attempt waits for children or runs again; a queued action waits for its
\* image or is ready.
Turn(d, n, from, to) ==
  LET next == [mem[d][n] EXCEPT !.state = to]
  IN /\ Busy(d) /\ mem[d][n].state = from
     /\ \/ Written(d, n, next) /\ UNCHANGED <<pc, closing, faults>>
        \/ Failed(d, n, next)
     /\ UNCHANGED <<token, live, claims, task, ran>>
Suspend(d, n) == TasksOf(d, n) # {} /\ Turn(d, n, "running", "waiting")
Resume(d, n) == TasksOf(d, n) # {} /\ Turn(d, n, "waiting", "running")
AwaitImage(d, n) == Turn(d, n, "queued", "waiting")
ImageReady(d, n) == TasksOf(d, n) = {} /\ Turn(d, n, "waiting", "queued")

\* An action ends: its row first, then everything open below it, or in the
\* whole graph if it is the root. A failed write stops the owner.
Ended(d, n, r) ==
  \/ /\ Written(d, n, r)
     /\ closing' = [closing EXCEPT ![d] =
          {m \in IF n = Root THEN Action \ {n} ELSE Below(d, n) : mem[d][m].state \in Open}]
     /\ pc' = IF n = Root /\ closing'[d] = {} THEN [pc EXCEPT ![d] = "stopping"] ELSE pc
     /\ UNCHANGED faults
  \/ Failed(d, n, r)

\* A cached result, a failed image or a failed prerequisite: no attempt.
EndEarly(d, n) ==
  /\ Busy(d) /\ mem[d][n].state \in {"queued", "waiting"} /\ TasksOf(d, n) = {}
  /\ \E s \in {"done", "failed"} : Ended(d, n, [mem[d][n] EXCEPT !.state = s])
  /\ UNCHANGED <<token, live, claims, task, ran>>

\* The task answers. The owner has forgotten it if the action was closed.
Answer(x) ==
  LET d == x.owner
      n == x.action
      failed == [mem[d][n] EXCEPT !.state = "failed", !.failures = @ + 1]
      retry == [failed EXCEPT !.state = "queued"]
  IN /\ x \in task /\ Busy(d) /\ task' = task \ {x}
     /\ \/ /\ mem[d][n].state \notin Open
           /\ UNCHANGED <<row, mem, pc, closing, faults>>
        \/ /\ mem[d][n].state \in Open
           /\ Ended(d, n, [mem[d][n] EXCEPT !.state = "done"]) \/ Ended(d, n, failed)
        \/ /\ mem[d][n].state \in Open /\ failed.failures < MaxAttempts[n]
           /\ \/ Written(d, n, retry) /\ UNCHANGED <<pc, closing, faults>>
              \/ Failed(d, n, retry)
     /\ UNCHANGED <<token, live, claims, ran>>

\* closeLocked goes through the descendants in any order.
Close(d, n) ==
  LET canceled == [mem[d][n] EXCEPT !.state = "canceled"]
  IN /\ pc[d] = "driving" /\ n \in closing[d]
     /\ \/ /\ Written(d, n, canceled) /\ UNCHANGED faults
           /\ closing' = [closing EXCEPT ![d] = @ \ {n}]
           /\ pc' = IF closing'[d] = {} /\ mem[d][Root].state \in Final
                    THEN [pc EXCEPT ![d] = "stopping"] ELSE pc
        \/ Failed(d, n, canceled)
     /\ UNCHANGED <<token, live, claims, task, ran>>

\* A restored graph whose root is final is closed at once.
CloseRestored(d) ==
  /\ pc[d] = "driving" /\ closing[d] = {} /\ mem[d][Root].state \in Final
  /\ LET open == {n \in Action : mem[d][n].state \in Open}
     IN /\ closing' = [closing EXCEPT ![d] = open]
        /\ pc' = IF open = {} THEN [pc EXCEPT ![d] = "stopping"] ELSE pc
  /\ UNCHANGED <<row, token, live, claims, mem, task, ran, faults>>

-----------------------------------------------------------------------------
(* CreateTaskAction, called by a running task *)

\* GetActiveCaller, under the lock of the run.
CallerActive(x) ==
  /\ token = x.owner /\ live
  /\ row[x.action].state \in {"running", "waiting"} /\ row[x.action].attempt = x.attempt

CreateChild(x, c) ==
  /\ x \in task /\ Parent[c] = x.action /\ row[c].state = "absent"
  /\ IsOpen(Root) /\ CallerActive(x)
  /\ row' = [row EXCEPT ![c] = NewRow]
  /\ UNCHANGED <<token, live, claims, pc, mem, closing, task, ran, faults>>

\* identity.add: the row, as it is now, enters the graph of the caller's owner.
AddChild(x, c) ==
  LET d == x.owner
  IN /\ x \in task /\ Parent[c] = x.action /\ row[c].state # "absent"
     /\ Busy(d) /\ mem[d][x.action].state \in Open /\ mem[d][c].state = "absent"
     /\ mem' = [mem EXCEPT ![d][c] = Restored(row[c])]
     /\ UNCHANGED <<row, token, live, claims, pc, closing, task, ran, faults>>

-----------------------------------------------------------------------------
(* The environment *)

\* now() passes lease_until before the owner renewed.
Expire ==
  /\ token # 0 /\ live /\ live' = FALSE
  /\ faults < MaxFaults /\ faults' = faults + 1
  /\ UNCHANGED <<row, token, claims, pc, mem, closing, task, ran>>

\* The worker of an owner dies; nobody releases the claim.
Crash(d) ==
  /\ pc[d] \in {"claimed", "driving", "stopping"} /\ pc' = [pc EXCEPT ![d] = "gone"]
  /\ task' = {x \in task : x.owner # d} /\ closing' = [closing EXCEPT ![d] = {}]
  /\ faults < MaxFaults /\ faults' = faults + 1
  /\ UNCHANGED <<row, token, live, claims, mem, ran>>

\* CancelRun: all open rows unless the root is final, and the claim in any case.
CancelRun ==
  /\ faults < MaxFaults /\ faults' = faults + 1
  /\ row' = [n \in Action |-> IF IsOpen(Root) /\ IsOpen(n)
                              THEN [row[n] EXCEPT !.state = "canceled"] ELSE row[n]]
  /\ token' = 0 /\ live' = FALSE
  /\ UNCHANGED <<claims, pc, mem, closing, task, ran>>

-----------------------------------------------------------------------------

Own(d) ==
  \/ ClaimRun(d) \/ Load(d) \/ Stop(d) \/ Release(d) \/ Crash(d) \/ CloseRestored(d)
  \/ \E n \in Action : \/ Begin(d, n) \/ Suspend(d, n) \/ Resume(d, n) \/ AwaitImage(d, n)
                       \/ ImageReady(d, n) \/ EndEarly(d, n) \/ Close(d, n)

Run(x) == Kill(x) \/ Answer(x) \/ \E c \in Child : CreateChild(x, c) \/ AddChild(x, c)

Next ==
  \/ \E d \in Owner : Own(d)
  \/ \E x \in task : Run(x)
  \/ Expire \/ CancelRun

Spec == Init /\ [][Next]_vars

-----------------------------------------------------------------------------
(* Properties *)

\* An attempt number is used for one execution only, whoever started it: logs,
\* results and API calls that name an attempt never mean two tasks, although
\* the tasks of a lost owner run beside those of the next one.
AttemptOnce ==
  \A x, y \in ran : x.action = y.action /\ x.attempt = y.attempt => x = y

\* While an owner's claim is in force, what it keeps in memory is what the rows
\* say; an action it does not know was just created and never started.
OwnerKnows ==
  \A d \in Owner : token = d /\ live /\ pc[d] = "driving" =>
    \A n \in Action : \/ mem[d][n] = row[n]
                      \/ mem[d][n] = NoRow /\ row[n] = NewRow

\* The answer of a lost owner's task decides nothing: a failure is charged, and
\* a running action succeeds or fails, only while the claim is in force and by
\* the holder's task of the action's latest attempt.
ClaimDecides ==
  [][\A n \in Action :
       \/ row'[n].failures # row[n].failures
       \/ row[n].state = "running" /\ row'[n].state \in {"done", "failed"}
       => live /\ [owner |-> token, action |-> n, attempt |-> row[n].attempt] \in task]_vars

\* A healthy owner is never stopped by its own writes: it gives up only when
\* the claim is lost, something failed, or the run is over.
OnlyFaultsStop ==
  [][\A d \in Owner : pc[d] = "driving" /\ pc'[d] = "stopping" /\ faults' = faults =>
       token' # d \/ ~live' \/ ~IsOpen(Root)']_vars

\* No attempt starts in a run that is over, whichever worker finished or
\* canceled it and whatever its owners still believe.
NothingStartsAfterTheEnd == [][ran' # ran => IsOpen(Root)]_vars

\* The rows keep the promises of RunLedger.
KeepsLedger == Ledger!Spec
=============================================================================
