# Lutra: a verification development

Lutra runs *task graphs*. A client creates a **run**; its root **action** executes in a task
process, which may create child actions, wait for them and use their results. PostgreSQL holds all
durable state. Stateless **workers** claim runs, keep a lease on them, and execute the graph in
memory with one `graphexec.Executor` per run. Any worker may die at any moment and any other may
take the run over.

This directory holds TLA+ models of that core, the TLC configurations that check them, and TLAPS
proofs. Paths below are relative to the repository root without the leading `src/`.

## 1. Inventory

| Part | State it keeps | Operations | Talks to |
|---|---|---|---|
| **Graph executor** `internal/graphexec/executor.go` | `nodes`, `active` attempts, wake channel, retry timers, `err`, context; a slot pool shared by all runs of a worker | `Run` (dispatch loop), `execute` (one goroutine per dispatched node: cache, image, slot, attempt, finish), `Add`, `Wait`/`resume`, `closeLocked`, `Cancel`, `CancelSubtree`, timers | store, runner, image and cache back ends through interfaces |
| **Graph store** `internal/lutra/graphexec_store.go`, `db/queries/runs.sql` | rows of `lutra.task_actions`, `lutra.runs` (claim token, lease) | `Transition` = lock the run, fenced update of one row, status events, commit | executor above, log below |
| **Run worker** `internal/lutra/run_worker.go` | owners, image waits per run | `loop` (ClaimRun), `drive` (lock, reset, load, run, release), `renew`, `sweep`, `runDriver.Run/Ensure/Lookup/Store` | all of the above |
| **Runs API** `internal/lutra/runs.go` | the rows | `CreateRun`, `CreateTaskAction`, `CancelRun`, reads, `WatchRun` | store, `graph.Add` and `graph.Wait` of the owner in the same process |
| **Task cache** `internal/lutra/task_cache.go` | `lutra.task_cache`: building/ready, token, lease | `Lookup` (wait, claim, renew), `Store` (finish or release) | executor (`Cache`) |
| **Image builds** `internal/lutra/image.go`, `db/queries/image.sql` | `lutra.image_builds`: building/ready/failed, token, lease | `ensureImage`, `claimImageBuild`, `buildImage`, sweep | executor (`Images`) |
| **Run log, status stream** `internal/runlog` | `lutra.run_logs` per run and stream, sequence numbers | append (in the caller's transaction or alone), tail by LISTEN/NOTIFY and re-reading, `WatchRun` | API, task processes |
| **Task transport** `internal/taskstdio` | calls in flight in both directions over one pipe pair | open, message, half close, end, cancel, shutdown | task process |
| **Task execution** `internal/lutra/executor.go`, `worker.go` | a local process, its directory | build image, start, wait, kill | transport |
| **Blob uploads** `internal/blob` | `blobs`, `blob_uploads`, objects in S3 | create, presign, complete, abort, sweep, `Put` | S3 |
| **Environment registration** `internal/lutra/environments.go` | `task_environments`: name, version (a hash of the declaration), spec | `RegisterEnvironment`, lookups | blobs, `CreateRun` |
| **Settings**, **server and worker mains**, **S3 client**, **migrations** | configuration rows | single statements, wiring | |
| **Python SDK** `sdk/` | context of the running task, checkpoints | `runtime.py` (child calls, waits), `serve/_host.py` (peer of the transport), client, values, archives | transport, HTTP API |
| **Web UI** `ui/` | the page's cursor and what it shows of a run (`watch-run.ts`); otherwise presentation | follow a run | HTTP API |

What is hard here:

* **Concurrency under one lock.** The executor releases `e.mu` around every wait (cache, image,
  slot, task, a `Wait` call), and acts on what it saw before when it comes back.
* **Memory and database.** Each commit writes the row first and the memory second, one row at a
  time. A write may fail, or take effect and still be reported as failed; closing a subtree is many
  writes.
* **Two owners of one run.** A lease may expire while its owner still runs tasks and has writes in
  flight. Nothing kills the tasks at that moment; only the fence of `TransitionRunTaskAction` and
  the token check of `CreateTaskAction` stand between the old owner and the rows.
* **Crash and restart** between any two steps, with rows in any state.
* **A shared, bounded slot pool** which a parent gives up while it waits and must take again.
* **One pipe, five goroutines, two directions.** A job's call, the task's own calls, cancellations,
  the death of the process and the shutdown meet in any order, and the job's end waits for all of them.
* **Two stores without a common transaction.** An upload changes the object store before, and a
  duplicate is removed after the commit in PostgreSQL.

Per component, what makes it correct:

* *Executor*: every slot is accounted for; an action has at most one attempt; memory never runs
  ahead of the rows; finishing an action ends everything below it; retries stay within the budget;
  every run whose tasks finish comes to an end; the executor does not stop itself without a fault, but for a
  withdrawn `Wait` and a node with two failed prerequisites (section 3).
* *Store, worker, API*: attempt numbers are never reused; only the holder of the claim decides; the
  holder's memory is the truth while the claim is in force; a finished run stays finished and
  starts nothing; every row only moves along the documented lifecycle; a run with open rows is
  found again.
* *Cache*: one action computes at a time while its claim is renewed; the others get its result or
  take over; a lost claim never publishes; a published result stays.
* *Image builds*: once an image is ready no other is built and everybody gets it; a builder that dies
  or loses its lease keeps nobody waiting and publishes nothing.
* *Log*: a watch delivers every record of its streams once and in order, never shows an older
  version of the run, has everything when it says it is done, and ends when the run does; a repeated
  append leaves one copy.
* *Transport and job*: a result is reported only if all of it arrived, an error only if there was one;
  nothing the attempt started outlives it; a job that ends lets go of everything.
* *Blobs*: what is published under a digest stays and is what the digest says; an object that lost the
  race, or was abandoned, is removed; every session ends.
* *Registration, CreateRun*: what is confirmed can be run; a key has one run.

`PROJECT.json` lists the hazards by line.

## 2. The modules

| Module | What it is |
|---|---|
| `RunLedger` | abstract specification: what the rows of one run promise to every reader |
| `GraphExec` | one executor in detail, with the worker that drives it and the rows it writes |
| `RunLease` | one run and all of its successive owners: claim, lease, fence, take-over, zombie tasks |
| `TaskCache` | one key of the result cache and all actions that share it |
| `ImageBuild` | one image key, the claim transaction statement by statement |
| `RunLog` | the log of one run, its writers, `watchRun` and a page that follows it |
| `TaskProcess` | one job: `localJob.Wait`, the transport's goroutines, the pipes and the task host |
| `ContentStore` | abstract specification: what the blob store promises |
| `BlobStore` | upload sessions, `Put` and stored log values over PostgreSQL and the object store |
| `Registry` | registration of environments and creation of runs on top of `BlobStore` |
| `MCGraphExec`, `MCRunLease`, `MCTaskCache`, `MCImageBuild`, `MCRunLog`, `MCTaskProcess`, `MCRegistry` | instances for TLC |
| `GraphExec_proof` | all safety properties of the executor, when it gives up, `GraphExec` implements `RunLedger` |
| `RunLease_proof` | all safety properties of the lease, when an owner gives up, `RunLease` implements `RunLedger` |
| `TaskCache_proof`, `ImageBuild_proof`, `RunLog_proof` | all safety properties of `TaskCache`, of `ImageBuild` and of `RunLog` |
| `TaskProcess_proof` | every goroutine is counted and gone when `Wait` returns, and what `Execute` returns is what happened |
| `BlobStore_proof`, `Registry_proof` | types, `BlobStore` implements `ContentStore`, little is left behind, what is registered can be run, one run per key |

`GraphExec` and `RunLease` look at the same rows at two scales and both implement `RunLedger`
(`KeepsLedger`, checked by TLC and proved for both). `TaskProcess` is what `GraphExec`
takes as `TaskExits` and the drained handlers in `Finish`. `Registry` extends `BlobStore` and is
checked together with it: the sources of an environment are blobs.

### GraphExec

The actions follow the critical sections of `executor.go`: whatever happens between `e.mu.Lock()`
and `Unlock()` is one step, and what runs without the lock is a program counter.

| Variable | Code |
|---|---|
| `node` | `e.nodes`: state, attempt, failures, and whether `NextAttemptAt` lies in the future |
| `stored` | the rows (`graphStatus` maps states to row statuses) |
| `exec[n]` | where the `execute` goroutine of `n` stands: `start`, `cache`, `image`, `slot`, `got` (slot taken, `e.mu` not yet), `run`, `exit` (the runner returned) |
| `active[n]` | `e.active[n]`: present, `held`, `cancel` called, `waiters` |
| `call[c]` | the parent's `GetTaskAction(wait)` for `c` in `Wait` and `resume` |
| `adding` | `CreateTaskAction` calls between their transaction and `graph.Add` |
| `timers`, `free`, `outside` | retry timers; the slot pool; slots in use by the worker's other runs |
| `run`, `wake`, `err`, `ctx` | the loop of `Run`, `e.wake`, `e.err`, `e.ctx` |
| `lease`, `claims`, `faults` | whether the claim is in force; bounds |

Actions: `Claim` (ClaimRun, reset, load, `New`), `Dispatch`, `CloseRun`, `Abandon`, `Wake`,
`Return`; `Start`, `CacheReply`, `ImageReply`, `AcquireSlot`, `Begin`, `TaskExits`, `Finish`,
`Elapse`, `TimerFires` per node; `CreateRow`, `AddNode`, `Wait`, `StopWaiting`, `LockResume`,
`LeaveResumeLoop`, `LookAgain`, `AcquireResume`, `Resume` per child; and the environment: `LoseLease`,
`StopDriver`, `Crash`, `CancelRun`, `CancelSubtree`, `Cancel`, other runs taking slots.

A commit of several rows under one hold of the lock (`closeLocked`, a dispatch round) is one step
when it succeeds. When it fails it stops after any prefix of rows the code's order allows, with the
last one in the database or not (`CommitFails`). A task may give a call up at any time (`Withdrawn`), which
cancels its context; so does the end of its process. `AddNode` and `StopWaiting` end for it, and `Wait` writes
with this context without looking at it, so that its commit may fail (`CommitWithdrawn`). `Cancel` and `CancelSubtree` belong to the
executor's API and are called by tests only; `graphNode` loads no prerequisites, so prerequisites
too are reached through the executor's API only.

### RunLease

Every statement on the rows runs in a transaction that first locks the run (`LockRun`), so a
transaction is a step. Tokens are drawn in order; the owner with token `d` is called `d`. Each owner
has `pc[d]` (`claimed` before `drive` loaded the graph, `driving`, `stopping` while its tasks are
killed, `gone`), its memory `mem[d]`, and the descendants it is about to cancel, `closing[d]`.
`task` is the set of task processes that really run, with the owner that started them; `ran` is the
history of all attempts.

`Fence` is the `WHERE` clause of `TransitionRunTaskAction`. A write either passes it and changes
row and memory, or is refused, or fails with or without effect; the latter two stop the owner
(`commitLocked` sets `e.err`). `Load` is `drive`'s transaction: the reset changes nothing when the
claim is already lost, *and the graph is loaded and driven anyway*, as in the code. `Expire` makes a
lease run out at any time (renewal itself is the absence of `Expire`; an expired lease cannot be
renewed), `Stop` is `renew` noticing, a failed renewal or a shutdown, `Crash` kills a worker
without releasing anything. A stopped owner's tasks go on until `Kill`. `CancelRun` cancels open
rows unless the root is final and clears the claim in any case, as `runs.go` does.

`AddChild` reads the row and adds the node in one step. The code reads it shortly before; while the
claim is in force only this owner could change the row, so the value is the same, and an owner whose
claim is lost can write nothing.

### RunLedger

One variable, one record per action. A row may move between open states, begin its next attempt
from `queued`, go back to `queued` charged with a failure while the budget lasts, end, or appear
when its caller has run. Final rows have no step. One transaction may move several rows.

### TaskCache

One row of `lutra.task_cache` (`entry`) and the actions of any runs on any workers with its key.
Every statement of `task_cache.go` is a step: `Get`, `Insert` and `Expire` are the loop of `Lookup`,
`Publish` and `GiveUp` the two ways of `Store`. `pc` follows `execute` around them: `work` covers the
image, the slot and the task, `stored` lies between `Store` and the commit of the node. Each dispatch
draws a new owner token, `<<action, turn>>`. `renewing` holds the owners whose renewal goroutine
runs, `leaving` those whose deferred `Store(context.Canceled)` is still to come: `execute` commits
the retry first, so it may come after the next claim. `Lapse` is the passing of `lease_until`: free
when nobody renews, a fault when somebody does. A failed statement may have taken effect. `Stop`,
`Crash` and `TakenOver` are what happens to the run's owner; a task of a lost owner goes on in
`strays` and may still publish, and a lookup that polled goes on in `asking` and may still make a claim,
which its deferred release gives up (`StrayAsks`).

### ImageBuild

The rows of `lutra.image_builds` with one key (`builds`, in the order of `created_at`) and the
goroutines that run `ensureImage`. A row is appended when the transaction of its claim commits; a row
deleted in its own transaction never appears. The statements of `claimImageBuild` are separate steps
(`Expire`, `LatestRow`, `Insert`, `Check`, `Commit`), because under READ COMMITTED each sees what others
committed before it. `expiring` and `inserting` are what PostgreSQL makes transactions wait for: the
lock of the row that `ExpireImageBuilds` changes, and the uncommitted entry in the unique index.
`Finish` is the end of `buildImage`; a renewal that fails cancels the build, which is one of the ways it
may fail. The failed status is split in `failed` and `expired` because `ensureImage` tells them apart by
the error text. A run that is driven again after its worker died is another caller; `Ensure` uses the
worker's context, so a run that is taken over does not stop its goroutine.

### RunLog

One run, its task log and its status stream. `log`, `next` and `appends` are the committed rows of
`run_log_records`, `run_log_streams` and `run_log_appends`; `run` is the row of the root action.
`AppendTx` takes two steps, because other transactions run in between: `Lock` (the stream's row is locked and
its next numbers are read) and `Commit` or `Repeat`; `Rollback` and a lost answer leave the caller not
knowing, and it may ask again (`Retry`). The status events are written under the lock of the run, in
the transaction of the change they report: `Change` (root), `ActionEvent` (others); `Reset` is
`ResetRunActions`, which raises the row's version and writes no event.

`spc` follows `watchRun` and `Subscription.Run` from one query or message to the next: `Connect`
(`LISTEN`), `Snapshot` (the repeatable-read transaction), `Greet` (the snapshot is sent), `Read` (one
batch), `SendLog`, `SendAction`, `SendRun` or `Drop` per row, `Advance`, `Skip`, `Notified`,
`Reconnect`, and between the phases `LogEnd` and `StatusEnd`, the two reads that fix `UntilSeq`. `cpc`, `cursor`, `seen`,
`history`, `shown` are the page (`watch-run.ts`). `queue` holds the streams with an undelivered
notification; `NOTIFY` reaches it with the commit. `LoseListener` and `Disconnect` break one of the two
connections at any time.

A batch is any set of candidates that is closed downwards, with `BatchSize` of them or with all; this is
`ORDER BY seq LIMIT n` without sequences. The content of the values, their storage in the object store, and
the `Read` and `Tail` calls on their own are left out; so are a user who leaves the page, and the end
of the 64-bit sequence numbers.

### TaskProcess

One attempt in its sandbox, from `taskstdio.Start` to the return of `localJob.Wait`. Each goroutine has
a program counter, and a section under `t.mu`, a send and a select are steps.

| Variable | Code |
|---|---|
| `call` | the `call` struct of `Execute`: whether `t.calls` lists it, `done`, `notify`, the queue, whether `headers` came, what is in `ready`, the state of the body's pipe and what was written to it |
| `pc` | `job` (`Wait` and `Process.Close`), `do`, `receive` (`receiveCall`), `send` (`sendRequest`), `read` (`readLoop`) |
| `served`, `incoming`, `stopped` | `serveIncoming` of each call of the task, `t.incomingCalls`, their canceled contexts |
| `err`, `workers` | `t.err`, the counter of the wait group |
| `link` | the two pipes, as the frames written and not read, and which ends are closed |
| `host`, `api` | the process and the state of `Execute` in it (`_Call`), the task's own calls (`TaskAPIClient.unary`) |

`Register`, `Open`, `Respond`, `GiveUp` are `Do`; `ReadBody` and `ReadEnd` the generated client, which reads a
response to its end; `Pop`, `Notified`, `ContextDone`, `Disconnected`, `Exit` are `receiveCall` (a select
with several ready cases takes any). `ReadFrame` gives a frame to `push` or to `handleIncomingFrame`.
`CloseWrite`, `Reap`, `Shutdown`, `Join` are `Process.Close`. The host reads its input at all times
(`Dispatch`); its answers (`Replies`), the calls of the task and their withdrawal come whenever they like.
`Cancel` cancels the attempt's context, which `Do` selects on and which kills the process (`Killed`);
`Die` is a death of its own. `send` refuses a frame of 32 MiB or more, on both sides: the Go side then fails
the transport under a living task (`SendFails`, remembered in `refused`: the request, or the answer to a
call, may be that large), the host ends its answer without a body (`no_body`). A pipe write fails once either end
is closed; that a full pipe blocks is
left out, since both sides read whatever else they do. `remove` and the two sends of `cancel` are one
step with the select that leads to them. The contents of frames and streaming calls, which nobody makes, are
left out. So are malformed frames: after one, `readLoop` fails the transport and nobody drains the
process's output any more (`transport.go:291`); the host writes none.

### BlobStore and ContentStore

`blobs` and `session` are the rows, `object`, `multi` and `parts` the object store. An id stands for a drawn
object key with the session that has it. `tx[i]` is the operation that is under way for an id: the transaction of
`CompleteUpload` (`complete`, `stat`, `checked`, `inserted` or `duplicate`, then `drop` after the
commit), of `abortSession` (`abort`, `emptied`), or the steps of `Put` and `storeValue`. The lock of the session's row
allows one at a time (`Lockable`), the unique index makes an insert wait for an uncommitted one
(`Pending`). Clients PUT with presigned URLs at any time, also late; a single PUT carries the signed
checksum and `If-None-Match`, parts may be of any content. `Rollback` is any failed call or statement,
canceled request or crash; a lost answer is the second half of `Commit`, `PutInsert` and `CreateFails`, whose row
nobody knows and the sweep finds.
Content is `right`, `wrong` (other bytes of the same size) or `short`.

`ContentStore` is what all this is for: a digest is published once, what is published never changes
or disappears, and a URI is given out only for a published digest. Contents uploaded in parts may be
wrong, as a comment in `CompleteUpload` says.

### Registry

`op[c]` is the call client `c` has under way, with the statement it is at. Registering: `LookUp` (the
reads before the transaction), `InsertEnvironment`, `Confirm` (dependencies and commit). Creating:
`CreateRun` (validation and `lookupTask`), `InsertRun` (the insert or the run that has the key),
`InsertRootAction` (to the commit), `ReadRun`. `CallFails` ends a call at any statement, with the commit
made or not. Runs without a key are left out: nothing finds them again.

### Modelling conventions

Outputs, errors, keys and timestamps are abstracted away. Operators ending in `Bug` are wrong
variants of the definition that follows them (a dropped guard, a missing reset) used to try whether
the properties notice. Models are bounded by `MaxClaims`, `MaxFaults`, `MaxCalls`, `MaxOutside`,
`MaxVersions`, `MaxEvents`; these appear in guards only.

## 3. What TLC checks

| Run | Instance | Question | Properties |
|---|---|---|---|
| `executor_recovery` | chain of 3, 1 slot, one API call at a time, 2 claims, 1 fault | does an end reach the whole subtree, and what survives failed writes, crashes and take-over | `SubtreeClosed`, `KeepsLedger` (with it the upper end of the retry budget) |
| `executor_slots` | root, 2 children, 2 slots, 2 concurrent API calls that may be withdrawn, other runs on the pool, no faults | does the bookkeeping hold in every interleaving | `TypeOK`, `SlotConservation`, `HeldIffRunning`, `OneAttempt`, `NeverPoisoned` |
| `executor_settles` | root waiting for a child that is cached, has an image and 2 attempts; 1 slot shared with another run, up to 3 claims, 1 fault | is any wake-up, timer, slot or row lost; does memory agree with the rows | `RunSettles`, `CommittedIsVisible` |
| `lease_takeover` | chain of 3, one action with 2 attempts; 2 owners, 1 fault | what a lost owner and its tasks can still do; lifecycle and end of the run under take-over | `AttemptOnce`, `OwnerKnows`, `ClaimDecides`, `OnlyFaultsStop`, `NothingStartsAfterTheEnd`, `KeepsLedger` |
| `cache_claims` | 2 actions with one key and 2 attempts, 1 fault | what a lost claim can still do, is work done twice, is a claim forgotten, does everybody end | `OneResult`, `ResultsStay`, `OneComputes`, `ClaimsAreUsed`, `EverybodyEnds` |
| `image_builds` | 3 callers, any 2 faults | does the claim transaction exclude a second build | `SameImage`, `OneBuilder`, `ReadyIsFinal`, `EverybodyEnds` |
| `log_watch` | a request of 2 entries with an id and one without, a batch of 1, the run changes once, 1 action event, 1 fault | can a watch miss, repeat or reorder anything, or never end | `NothingSkipped`, `SentOnce`, `DoneIsComplete`, `AppendedOnce`, `NeverBackwards`, `WatchEnds`, `CatchesUp` |
| `task_process` | one job whose task calls the API once, may be canceled, may die, may meet a frame that is too large | can an outcome be wrong, a goroutine or handler be left, a wait be endless | `TruthfulOutcome`, `NothingOutlives`, `HandlersStop`, `WaitReturnsUnlessAbandoned` |
| `deploy` | 2 ids, a small and a large content, 2 environments (one depends on the other), 2 clients, 1 key, 2 inputs, 1 fault | can content be lost or left behind, a session stay, a registration be unusable, a key have two runs | `KeepsContent`, `FewLeftBehind`, `SessionsEnd`, `RegisteredIsUsable`, `OneRunPerKey` |
| `task_cancel` | as `task_process` | **violated**: finding 3 | `WaitReturns` |
| `executor_concurrent_waits` | root, 2 children, 2 calls at once and 1 slot | **violated**: finding 1 | `RootFinishes` |
| `executor_two_prerequisites` | a node with 2 prerequisites that both fail, no call withdrawn | **violated**: finding 2 | `FailedPrerequisiteIsLocal` |

Why the bounds are enough to be interesting: every hazard needs at most a parent and two children
(two waiters of one parent, two contenders for one slot), a chain of three (an end that must reach a
grandchild), two owners (the old and the new one), one retry, and one or two faults (one to lose the
first owner and one in the second). For a build or a cached result two suffice to compete and the third
to take over; the safety properties of all modules are proved without bounds; the bounds limit what is known of liveness. For the log, one request
holds the lock while another wants it, a batch of one row makes every limit a full batch, and one
fault breaks either connection, loses an answer or fails a statement. A repetition of an id with other
values needs a third request; with it the safety properties hold on 2.4 million states, too many for
liveness, and `log_watch` leaves it out. For a job, one call of the API meets the job's own call in every
way; with two, many millions of states, the calls only meet each other in the wait group. For blobs, two
ids compete for a digest, one is the loser; the second content shows that a digest does not disturb
another, and uploads in parts. Prerequisites appear in `executor_two_prerequisites` only. Deadlock is not checked: a finished run really stops.

### Fairness

`FairSpec` of `GraphExec` assumes what the Go runtime, the database and the tasks provide: each
goroutine that can go on does (`WF`), a worker polls for runs (`WF(Claim)` in `Driver`), a mutex and
a channel serve those who wait (`SF` on taking a slot and on `resumeMu`: Go's channel and mutex
queues are first in first out), retry deadlines pass, a lost lease is noticed by the renewal
ticker, other runs give slots back. With `Joins` set, tasks wait for the children they created,
withdraw no call, and their processes do not die by themselves. No fault is ever fair. `RunLease` states no liveness: there an owner may idle
for ever, and that a run settles is the business of `GraphExec`. `TaskCache` assumes that lookups
poll, statements return, tasks answer, deferred releases run and time passes; `ImageBuild` that
statements return, builds end and leases nobody renews run out; `RunLog` that the handler and the
page go on while they can (`WF(Watch)`: queries return, messages are sent, the loops of both
reconnect). Nothing is assumed of the writers or of the run. `TaskProcess` assumes that each goroutine
that can go on does, that the host reads its input and exits with it, and that a process that is
killed dies; not that the task ever answers, nor that a handler returns before its context is canceled
(a `GetTaskAction` may wait for another action). `BlobStore` assumes that handlers go on, that time
passes (`Expire`) and, strongly, that the sweep gets the lock of a session's row
however often clients ask for it: `FOR UPDATE` waiters of PostgreSQL queue up.

### Findings

1. **Concurrent waits may deadlock on one slot** (`executor.go:678`, run
   `executor_concurrent_waits`). `resume` leaves its loop when no waiter is left, releases the lock
   and takes a slot. A second `Wait` of the same attempt may register in between; it finds
   `a.held` false and gives no slot back. The first one then takes the slot and returns, and the
   parent holds its slot while the second child needs one. `executor_test.go:356`
   (`TestConcurrentChildWaitsWithOneSlot`) states that this configuration completes. It needs a
   parent that does not return from the first wait's continuation before the second ends, such as
   `asyncio.gather`.
2. **Two failed prerequisites stop the run's executor** (`executor.go:334`, run
   `executor_two_prerequisites`). The loop over prerequisites does not stop after it failed the
   node; the second broken prerequisite commits the failure again, the fence refuses a change of a
   final row, and the executor takes this for a lost lease. `executor_test.go:262`
   (`TestFailedPrerequisiteDoesNotStopUnrelatedBranch`) states that a failed prerequisite is local.
   Nothing in the worker loads prerequisites yet, so it is reached through the executor's API only.

3. **A canceled job may never return** (`transport.go:158`, run `task_cancel`). When the attempt is
   canceled while the headers and the message of its response are queued, `Do` may leave by
   `ctx.Done()`, which removes the call. `receiveCall` goes on with the queued frames and blocks in
   `c.writer.Write`: the response was never handed out, nobody reads or closes its body.
   `closeResponses` closes the readers of the calls still listed, and this one is not. `Shutdown`
   then waits for its workers for ever, although its comment (`transport.go:358`) says that it fails all
   in-flight calls and waits for the workers to finish, and with it `Process.Close` and `localJob.Wait`
   ("blocks until the task finishes, releasing resources", `internal/lutra/executor.go:87`). The
   attempt keeps its slot, and the run's executor waits for it. `WaitReturnsUnlessAbandoned` shows
   that this is the only way.

Observations that are not violations of anything the repository states:

* `storeValue` leaves its object behind when another transaction published the digest, and when the
  append is rolled back; `Put` and `CompleteUpload` remove a duplicate. `FewLeftBehind` excepts log values.
* A failed `AbortMultipartUpload` is ignored and the session deleted: nothing finds its parts again.
  A presigned PUT that arrives after its session ended leaves an object nobody knows.
* A client that repeats `CompleteUpload` after a lost answer is told that the session does not exist,
  although the blob was published.
* Two appends that store the same two large values in opposite orders wait for each other's uncommitted
  row; PostgreSQL aborts one of them.
* `Do` and `receiveCall` may both send `cancel` for one call; the host ignores the second.

* `CancelRun` clears the claim also when the root is already final, which stops an owner that is
  still closing the descendants; the next claim finishes the work (`RunSettles`).
* A child's row that was inserted while its parent was being closed is in no executor's graph; it
  stays queued until another claim closes it (`RunSettles` holds because `ClaimRun` looks at any
  open row, not at the root's).
* After a crash between a parent's last commit and the close of its children the next owner
  dispatches those children again, below a finished parent, until the root ends. `SubtreeClosed`
  therefore speaks of the first claim.
* `Wait` commits "waiting" with the context of the RPC (`executor.go:611`) and does not look at it before. A task
  that withdraws its call, or dies, between the start of the handler and the end of this write makes the commit
  fail, and a commit that fails sets `e.err`: the whole run stops, although the task had only lost interest in
  one child, and is claimed again. This takes no fault. `NeverPoisoned` names the step (`GivesUpWait`) and says that
  it is the only one: the attempt must hold its slot, since a `Wait` beside another one commits nothing.
* A result, a request or an answer to a task of 32 MiB or more ends the attempt with an error: `send` refuses
  the frame, and where the Go side sends it, it fails the transport under a living task. `TruthfulOutcome`
  lists this among the reasons of an error. A log page of many large values is such an answer.
* A deferred release of a cache claim that fails is ignored (`executor.go:379`) while the renewal goes
  on as long as the run is driven: all lookups of that key, the retry of the same action included,
  wait until then. `ClaimsAreUsed` and `EverybodyEnds` of `TaskCache` speak of the time before that.
* A task that lost its cache claim is charged a failure (`ErrLeaseLost`) although it succeeded, and
  a database error in `Lookup` fails the action without a retry.
* A worker that shuts down, or fails to renew, publishes its canceled image build as failed
  (`image.go:152`). Waiters on other workers take this for a failed build and fail their actions; only
  the text "build lease expired" makes them claim again.
* Children that are closed after the root's terminal commit write their events behind the terminal
  one. A watch that reads the stream's end before that (`runs.go:626`) ends without them, and the page
  goes on showing these children as running. `DoneIsComplete` promises what came before the terminal
  event.
* `ResetRunActions` writes no status event: after a take-over a watch shows the old state until the
  next transition (`NeverBackwards` holds, since versions only grow).
* The page's test for records it already has (`watch-run.ts:30`) is never needed (`SentOnce`).
* Token and expected attempt in the fence are two lines of defence; with the token alone every
  property above still holds.

## 4. What is proved

Every safety property that a passing run checks is also a theorem, for every value of the constants
under the assumptions below.
The assumptions are those on the constants:

* `GraphAssumption`: there are finitely many actions, the root is one, every other action has a caller,
  prerequisites are actions, retry budgets and the number of slots are positive, bounds are naturals.
* `LeaseAssumption`: the same of actions, callers and budgets; and no action is its own ancestor, as a
  child's row is created by a task of a caller that exists. It is stated with the set of actions below
  one, since a transitive closure is not a first-order notion.
* `CacheAssumption`: the retry budget is positive, bounds are naturals. `ImageAssumption`: `Nobody` is not a
  caller, the bound is a natural. `LogAssumption`: the batch size is positive, a request has at least one
  entry, `Nobody` is not a writer, bounds are naturals.
* `ProcessAssumption`: a task makes finitely many calls, and none has the id of the job's own, which
  the two sides draw from disjoint sets.
* `BlobAssumption`: there are finitely many object keys, `"none"` is not one of them, large digests are
  digests, the bound is a natural. `RegistryAssumption`: sources are sets of digests and dependencies sets of
  environments, with cycles or without.

So the theorems hold for every tree, every relation of prerequisites, any number of owners, slots, writers,
callers and faults. Two of them have a hypothesis of their own: `OnlyFaultsPoison` and `FailureIsLocal` ask that no
action has two prerequisites (the property of the second is about tasks that withdraw no call), and `executor_two_prerequisites` (finding 2) shows that they need it.

| Theorem | Statement |
|---|---|
| `TypesCorrect` | `Spec => []TypeOK` (`GraphExec`) |
| `Invariant` | `Spec => []Inv` |
| `SlotsConserved` | `Spec => []SlotConservation` |
| `HeldRunning` | `Spec => []HeldIffRunning` |
| `AttemptsExclusive` | `Spec => []OneAttempt` |
| `VisibleCommitted` | `Spec => []CommittedIsVisible` |
| `SubtreesClosed` | `Spec => []SubtreeClosed` |
| `GivesUp` | an executor gives up after a fault, by `RepeatedCommit` in `Dispatch` or by `GivesUpWait`, and by nothing else |
| `OnlyFaultsPoison` | `Spec => []NeverPoisoned`, with at most one prerequisite each |
| `FailureIsLocal` | `Spec => []FailedPrerequisiteIsLocal`, with at most one prerequisite each |
| `Implements` | `Spec => KeepsLedger`, the refinement of `RunLedger` |
| `TypeCorrect` | `Spec => []TypeOK` (`RunLease`) |
| `Inductive` | `Spec => []IInv` |
| `AttemptsAreUnique` | `Spec => []AttemptOnce` |
| `OwnerIsUpToDate` | `Spec => []OwnerKnows` |
| `NothingStartsLate` | `Spec => NothingStartsAfterTheEnd` |
| `HolderDecides` | `Spec => ClaimDecides` |
| `OnlyFaultsStopOwners` | `Spec => OnlyFaultsStop` |
| `Implements` | `Spec => KeepsLedger`, the refinement of `RunLedger` |
| `CacheTypes` | `Spec => []TypeOK` (`TaskCache`) |
| `ResultsAgree` | `Spec => []OneResult` |
| `ResultsAreFinal` | `Spec => ResultsStay` |
| `NoDuplicateWork` | `Spec => []OneComputes` |
| `NoClaimForgotten` | `Spec => []ClaimsAreUsed` |
| `ImageTypes` | `Spec => []TypeOK` (`ImageBuild`) |
| `ImagesAgree` | `Spec => []SameImage` |
| `ImageIsFinal` | `Spec => ReadyIsFinal` |
| `OneBuilds` | `Spec => []OneBuilder` |
| `LogTypes` | `Spec => []TypeOK` (`RunLog`) |
| `DeliversAll` | `Spec => []NothingSkipped` |
| `DeliversOnce` | `Spec => []SentOnce` |
| `AppendsOnce` | `Spec => []AppendedOnce` |
| `DoneHasAll` | `Spec => []DoneIsComplete` |
| `ShownForward` | `Spec => NeverBackwards` |
| `ProcessTypes` | `Spec => []TypeOK` (`TaskProcess`) |
| `NoneOutlives` | `Spec => []NothingOutlives` |
| `TellsTheTruth` | `Spec => []TruthfulOutcome` |
| `BlobTypes` | `Spec => []TypeOK` (`BlobStore`) |
| `Keeps` | `Spec => KeepsContent`, the refinement of `ContentStore` |
| `LeavesLittle` | `Spec => []FewLeftBehind` |
| `DeployUsable` | `DeploySpec => []RegisteredIsUsable` |
| `DeployOneRun` | `DeploySpec => []OneRunPerKey` |
| `DeployKeeps` | `DeploySpec => KeepsContent` |

**`GraphExec`.** Most of its twenty-odd actions do one of a few things to the graph, so the proof is layered. `Lawful`
says what a critical section may make of one open node (move it, start the next attempt, charge a failure),
`Writing` that a step does only this, to rows and memory alike unless the executor gives up, and `Good` adds that
an end takes along what is below it (`Closing`) and that each node fits its goroutine and attempt (`LocalInv`,
which is `ExecInv`, `ActiveInv`, `OneAttempt` and `HeldIffRunning` node by node). Each action is shown `Good` once.
The rest then follows without looking at actions again:

* of the graph (`GraphInv`): a row in memory is the stored one while the claim holds
  (`CommittedIsVisible`), rows outside the graph are untouched (`RestInv`: the reset at a claim, and
  rows created since), callers have run and prerequisites of what was dispatched are done (`RowInv`,
  `NodeInv`). These are needed because `graph.Add` takes a row that was written before the lock was taken:
  without `RestInv` it could bring in a running one, without `NodeInv` a child below an action that never ran.
  `FirstInv` ties `SubtreeClosed` to the first claim;
* of goroutines and slots (`ControlInv`): a call in flight belongs to an attempt that runs (`BusyInv`),
  one call at a time resumes an attempt and only one without a slot (`ResumeInv`), and the waiters
  counted are the calls that wait (`WaitersInv`). `SlotConservation` needs the last two: a slot given back by
  the first waiter and taken again by the last one is the same;
* of the life of an executor (`RunInv`): what is left of one that ended, and of one about to.

`GivesUp` goes back to the fence: while the claim holds and memory is the row, a lawful write is not
refused (`Not_refused`), so an action that commits a node once with a live context cannot fail but for a fault; `Wait`
with a withdrawn call is the exception. `FailureIsLocal` needs that without withdrawn calls no context dies at the
wrong moment: `StopInv` says that an attempt is told to stop only with its action closed, when `Wait` commits nothing,
and that without a fault the executor's context ends only when all it knows is final. For the refinement,
`KeepsRow` is shown for one lawful write, whatever action made it, and for the steps around a run (`Outer`).

**`RunLease`.**
`AttemptOnce` is not inductive: it needs to know that a new attempt's number is larger than every
number used before. `IInv` adds that

* `TokensInv`: tokens are drawn in order and an owner whose token was not drawn does not exist, so a
  new token belongs to nobody who already drives;
* `AbsentInv`: a row that does not exist has counted nothing;
* `RanInv`: every attempt started is positive and at most what its row has counted;
* `OwnerKnows`: the memory of the driving owner whose claim is in force equals the rows, except for
  a child that was just created. Together with the fence it says that the value an owner computed
  from its memory is computed from the row it replaces;
* `TaskInv`: an owner has at most one task per action, in the action's latest attempt, and knows the
  action as running, waiting or closed.

Most steps write one row for a driving owner. The lemmas `Writes_rows`, `Writes_known`,
`Writes_tokens`, `Writes_tasks` treat any such write once, `Writes_inv` combines them, and each action only
shows that its record is a row with the right attempt. `Begin_inv` and `Load_inv` are the two steps
with an argument of their own: the new number, and the new owner's memory after the reset
(`Restored(row) = Reset(row)`, lemma `Conversions`). `Quiet_inv` treats the steps that write nothing.
For the refinement, `Fence_known` and `Answer_open` turn a written record into an update of the row
itself, and `Writes_keep` reduces a step to that one row. `OnlyFaultsStop` needs one more invariant, `ClosingInv`:
what an owner is about to close is open in its memory, which with `OwnerKnows` makes the fence admit the
write (`Admitted`). This is where the tree must have no cycle: an action is not closed with what is below it.

**`TaskCache`.** `OneResult` follows from `AgreedInv`, which says the same of results not yet
committed; it is inductive because only the holder of a claim publishes, and no claim exists beside
a published result. `OneComputes` needs `InForceInv` (without a fault the claim of a task stays in
force and renewed) and `FreshInv` (no token of a running lookup or task is among those being given
up, so a late release never hits a later claim). `BudgetInv` bounds the failures. One step per
action and conjunct.

**`ImageBuild`.** The heart is `CheckedInv`: between the check for a ready image and the commit of the
claim nothing is published. It holds because a build can only be published while its row is building,
the index then admits the claim's row only if the same transaction expires that build (`IndexInv`), and
its lock keeps `FinishImageBuild` waiting (`LockInv`). `LastInv` says that all rows but the last are over.
`Effects` reduces a step to one of four changes of the rows, `Table` and `States` say what each does to
them, and the remaining conjuncts never look into the sequence.

**`RunLog`.** The types need `Locked`: a writer between its two steps holds the stream's lock and the numbers
it was given are still the next ones. From it follows `Unique`, one record per number, and that a
commit only adds records beyond the end, which no cursor has passed (`BoundsOK`). `Feed` relates the
page to the watch: the page's cursor is at most the server's, no wanted record lies between the two, and
(`Sending`) while a batch is being sent its unsent rows are exactly the wanted records between the cursor and
the position the batch will advance to. `Read` is the step with an argument: a full batch reaches to its
last row, one that is not full to the end, and one cut at `UntilSeq` to there.

`AppendedOnce` follows from `Repeats`: a committed request with an id has its copies at its range and nowhere
else, so that a repetition finds the range it is answered with. `DoneIsComplete` and `NeverBackwards` concern the
status stream. `Statuses`: there is one terminal event, later events have no lower version, and none is newer than the run.
`Shows` and `Events`: the page shows the snapshot or an event sent since, and everything up to the cursor was sent or is
in the batch. `Ends`: phase 2 is bounded by ends that were read after the run had ended. The last is the
point of the two phases: a bound read earlier would still be a bound, and a log committed meanwhile would be lost.

**`TaskProcess`.** `NothingOutlives` needs `Goroutines`: the wait group's counter is the number of goroutines, namely
`receiveCall`, `sendRequest`, `readLoop` and one per request that is served. A request's goroutine is counted once
because each request is made once (`Asked`: its frame is on its way before it is served, and there is one of it).
`TruthfulOutcome` needs both ends of the job's call and everything between them. `Order`: what `receiveCall`
has handled, what is queued for it, what is in the pipe and what the task has still to write follow each
other without a gap (`Rank` gives each frame its place, `Script` says it of a pipe). `Ends`: until `Do`
leaves, whatever failed did so because the process died, the attempt was canceled or a frame was too large.
`Finished`: a body ends without an error only after the whole answer, or after `no_body`, where there is nothing to
take for a result; so an end of file in the middle of an answer is never taken for its end. `Fresh`, `Opened` and
`Says` are about the beginning: nothing is heard before the task was told and has spoken.

**`BlobStore`.** That no step touches a published object is not visible in the published row alone: `PublishedInv`
says that its id is the digest's own, that the object was accepted (`Good`), that no operation is under way for it
and that its session is over. A commit establishes this, which takes `TxInv` (what an operation knows at each of
its steps: after the stat the object is good, an inserted row is for a digest that has none), `IndexInv` (one
uncommitted row per digest) and `IdInv` (an id is drawn once, only an upload has a session). `Effects`
then shows that a step changes no content (`Silent`), gives out a URI of a published digest (`Tells`), or publishes
(`Publishes`), and that these are the steps of `ContentStore`. `FewLeftBehind` counts objects nobody owns; what is
inductive is the count of `Behind`, which includes a session whose object could not be removed and whose row is not
yet deleted (`"emptied"`), since that fault has been spent already. `PartsInv` places multipart uploads.

**`Registry`.** `Blobs` lifts the blob store's invariant to the composed system and says that a published digest stays so.
`UsableInv` carries what a registration has seen to its commit. `OneRunPerKey` needs
`CallInv` (a call past its insert has a run that is still unused and a key without a run) and `AloneInv` (no two such
calls share a key or an id), which are the unique index on the key and the fresh ids.

Only model-checked are the liveness properties: `RunSettles`, `EverybodyEnds` of `TaskCache` and of `ImageBuild`, `WatchEnds`,
`CatchesUp`, `HandlersStop`, `WaitReturnsUnlessAbandoned` and `SessionsEnd`. Liveness under fairness is out of the prover's
reach, as are `ENABLED` and induction over data. The three properties that the code violates are no theorems, of course;
`FailedPrerequisiteIsLocal` is one where no action has two prerequisites.

## 5. What is not modelled, and the plan

Not modelled for good: the web UI apart from `watch-run.ts`, the S3 client, migrations, settings, process wiring, archives,
value encoding and the validation of declarations. These are I/O, presentation, checks of one message or single-row
statements without interaction. The SDK's client builds requests and polls; its checkpoints are files
of keys and values in a log stream.

Next, in this order:

1. Proofs: that `RunLog`'s watch shows exactly a prefix of each stream (an abstract log that it implements),
   and `SubtreeClosed` for later claims, with the exception of what was restored as the invariant itself.
2. Safety and liveness of `RunLog` in runs of their own, the former with a third request.
3. The collection of log lines (`worker.go`): batches that fail are dropped.
