------------------------------ MODULE GraphExec ------------------------------
(***************************************************************************)
(* The executor of one run's action graph: internal/graphexec/executor.go  *)
(* driven by internal/lutra/run_worker.go (drive) over the rows that       *)
(* internal/lutra/graphexec_store.go writes.                               *)
(*                                                                         *)
(* e.mu makes every critical section of the executor one step; what runs   *)
(* outside the lock (a goroutine waiting for the cache, an image, a slot   *)
(* or the task, a Wait call between its sections) is a program counter.    *)
(* Every commit goes through commitLocked: the row is written first, the   *)
(* in-memory node only after the write succeeded.                          *)
(***************************************************************************)
EXTENDS Naturals, FiniteSets

CONSTANTS
  Node,         \* the actions a run may consist of
  Root,         \* the run's root action
  Parent,       \* the caller of every other action
  Prereq,       \* Node.Prerequisites
  MaxAttempts,  \* Node.MaxAttempts
  UsesImage,    \* the actions with an ImageKey
  Cached,       \* the actions with a CacheKey
  Slots,        \* the capacity of the worker's slot pool
  MaxCalls,     \* how many API calls a task has in flight at most
  Joins,        \* TRUE: a task returns only after it waited for all children and
                \* withdraws no call, and its process does not die by itself
  MaxOutside,   \* bound: slots held by the worker's other runs
  MaxClaims,    \* bound: how often the run is claimed
  MaxFaults     \* bound: failed writes, lost leases, shutdowns, cancellations

ASSUME GraphAssumption ==
  /\ IsFiniteSet(Node) /\ Root \in Node
  /\ Parent \in [Node \ {Root} -> Node]
  /\ Prereq \in [Node -> SUBSET Node]
  /\ MaxAttempts \in [Node -> Nat \ {0}]
  /\ UsesImage \subseteq Node /\ Cached \subseteq Node
  /\ Slots \in Nat \ {0}
  /\ Joins \in BOOLEAN
  /\ {MaxCalls, MaxOutside, MaxClaims, MaxFaults} \subseteq Nat

VARIABLES
  node,     \* e.nodes; state "absent" for an action that is not in the map
  stored,   \* the rows of lutra.task_actions
  exec,     \* where the execute goroutine of a node stands
  active,   \* e.active: the running attempt of a node
  call,     \* the GetTaskAction(wait) call the parent makes for a node
  adding,   \* CreateTaskAction calls between their commit and graph.Add
  timers,   \* nodes with a timerLocked goroutine
  free,     \* free slots of the pool
  outside,  \* slots held by other runs of the same worker
  run,      \* where Run stands; "down" while no worker drives the run
  wake,     \* the token in e.wake
  err,      \* e.err # nil
  ctx,      \* e.ctx is not canceled
  lease,    \* the driver's claim token is the run's and its lease has not expired
  claims,
  faults

driver == <<run, wake, err, ctx, lease, claims, faults>>
pool == <<free, outside>>
vars == <<node, stored, exec, active, call, adding, timers, pool, driver>>

-----------------------------------------------------------------------------
(* State formulae *)

Final == {"done", "failed", "canceled"}
States == Final \cup {"absent", "pending", "ready", "running", "image", "children"}
Rows == Final \cup {"absent", "queued", "running", "waiting"}
Pcs == {"none", "start", "cache", "image", "slot", "got", "run", "exit"}
CallPcs == {"idle", "wait", "left", "mutex", "look", "acquire", "have", "returned"}

Absent == [state |-> "absent", attempt |-> 0, failures |-> 0, backoff |-> FALSE]
Inactive == [on |-> FALSE, held |-> FALSE, canceled |-> FALSE, waiters |-> 0]

Child == Node \ {Root}
Children(p) == {c \in Child : Parent[c] = p}

\* Operators whose name ends in Bug are deliberately wrong variants of the one
\* that follows them; nothing uses them. They serve to try whether a property
\* notices the mistake.
DescendantsBug == [p \in Node |-> Children(p)]

\* The proper descendants of every node: closeLocked's breadth-first walk.
Descendants ==
  [p \in Node |-> {n \in Child :
     \A S \in SUBSET Child :
       (\A c \in Child : Parent[c] \in S \cup {p} => c \in S) => n \in S}]

Known == {n \in Node : node[n].state # "absent"}
Terminal(n) == node[n].state \in Final
RowTerminal(n) == stored[n].state \in Final

StatusBug(s) == CASE s \in {"pending", "ready"} -> "queued"
                  [] s = "image" -> "waiting"
                  [] OTHER -> s

\* graphStatus: the row status of an in-memory state.
Status(s) == CASE s \in {"pending", "ready"} -> "queued"
               [] s \in {"image", "children"} -> "waiting"
               [] OTHER -> s
RowOf(r) == [r EXCEPT !.state = Status(r.state)]

NodeOfBug(r) == IF r.state \in Final \cup {"absent"} THEN r
                ELSE [r EXCEPT !.state = "pending", !.failures = 0]

\* graphNode: what a loaded row becomes; anything unfinished is pending again.
NodeOf(r) == IF r.state \in Final \cup {"absent"} THEN r
             ELSE [r EXCEPT !.state = "pending"]

\* The attempt's context (a.ctx) is canceled by closeLocked or with e.ctx.
Dead(p) == active[p].canceled \/ ~ctx

\* resumeMu of a node's attempt is held by one of its Wait calls.
ResumeLocked(p) == \E c \in Children(p) : call[c] \in {"mutex", "look", "acquire", "have"}

\* Handlers of the task's API calls that have not returned.
InFlight(p) == {c \in Children(p) : call[c] \notin {"idle", "returned"} \/ c \in adding}

TypeOK ==
  /\ node \in [Node -> [state : States, attempt : Nat, failures : Nat, backoff : BOOLEAN]]
  /\ stored \in [Node -> [state : Rows, attempt : Nat, failures : Nat, backoff : BOOLEAN]]
  /\ exec \in [Node -> Pcs]
  /\ active \in [Node -> [on : BOOLEAN, held : BOOLEAN, canceled : BOOLEAN, waiters : Nat]]
  /\ call \in [Child -> CallPcs]
  /\ adding \subseteq Child /\ timers \subseteq Node
  /\ free \in Nat /\ outside \in Nat
  /\ run \in {"down", "eval", "wait", "drain"}
  /\ {wake, err, ctx, lease} \subseteq BOOLEAN
  /\ claims \in Nat /\ faults \in Nat

Init ==
  /\ node = [n \in Node |-> Absent]
  /\ stored = [n \in Node |-> IF n = Root THEN [Absent EXCEPT !.state = "queued"] ELSE Absent]
  /\ exec = [n \in Node |-> "none"]
  /\ active = [n \in Node |-> Inactive]
  /\ call = [c \in Child |-> "idle"]
  /\ adding = {} /\ timers = {}
  /\ free = Slots /\ outside = 0
  /\ run = "down" /\ wake = FALSE /\ err = FALSE /\ ctx = FALSE /\ lease = FALSE
  /\ claims = 0 /\ faults = 0

-----------------------------------------------------------------------------
(* commitLocked: a batch of writes made inside one critical section.       *)
(* upd maps every node the section commits to its new value; order is the  *)
(* set of subsets that may have been written when a write fails.           *)

\* TransitionRunTaskAction matches no row, or the call's context is dead.
Refused(upd, live) ==
  \/ err \/ ~live \/ ~lease
  \/ \E n \in DOMAIN upd : stored[n].attempt # node[n].attempt \/ RowTerminal(n)

NodesWith(upd, S) == [n \in Node |-> IF n \in S THEN upd[n] ELSE node[n]]
RowsWith(upd, S) == [n \in Node |-> IF n \in S THEN RowOf(upd[n]) ELSE stored[n]]

Writes(upd, live) ==
  /\ DOMAIN upd = {} \/ ~Refused(upd, live)
  /\ node' = NodesWith(upd, DOMAIN upd)
  /\ stored' = RowsWith(upd, DOMAIN upd)
  /\ wake' = (wake \/ DOMAIN upd # {})
  /\ UNCHANGED <<err, faults>>
Commit(upd, live) == Writes(upd, live) /\ UNCHANGED ctx

\* The first failing write sets e.err and cancels e.ctx. A write that failed
\* on its commit may have reached the database all the same (T \ S).
CommitFails(upd, order, live) ==
  \E S \in order :
    /\ S # DOMAIN upd
    /\ \/ /\ Refused(upd, live) /\ S = {}
          /\ UNCHANGED <<stored, faults>>
       \/ /\ ~Refused(upd, live)
          /\ faults < MaxFaults /\ faults' = faults + 1
          /\ \E T \in order : /\ S \subseteq T /\ Cardinality(T \ S) <= 1
                              /\ stored' = RowsWith(upd, T)
    /\ node' = NodesWith(upd, S)
    /\ err' = TRUE /\ ctx' = FALSE
    /\ wake' = (wake \/ ~err)

One(n, r) == [m \in {n} |-> r]
OneOrder(n) == {{}, {n}}

\* closeLocked on a set of nodes, and a node's last commit followed by it.
Open(K) == {n \in K \cap Known : ~Terminal(n)}
Canceled(n) == [node[n] EXCEPT !.state = "canceled"]
Close(K) == [n \in Open(K) |-> Canceled(n)]
End(n, r) == [m \in {n} \cup Open(Descendants[n]) |-> IF m = n THEN r ELSE Canceled(m)]
EndOrder(n) == {S \in SUBSET ({n} \cup Open(Descendants[n])) : S # {} => n \in S}
CancelAttempts(K) ==
  [n \in Node |-> IF n \in Open(K) THEN [active[n] EXCEPT !.canceled = active[n].on]
                  ELSE active[n]]

-----------------------------------------------------------------------------
(* drive, Run and dispatchLocked *)

Reset(r) == IF r.state \in {"running", "waiting"} THEN [r EXCEPT !.state = "queued"] ELSE r

ClaimableBug == ~RowTerminal(Root)
Claimable == \E n \in Node : stored[n].state \notin Final \cup {"absent"}

\* loop/drive: a worker claims the run, resets the rows that were running and
\* restores the graph from them (ClaimRun, ResetRunActions, LoadRunGraph, New,
\* and the first section of Run, which arms the timers of restored retries).
Claim ==
  /\ run = "down" /\ claims < MaxClaims /\ Claimable
  /\ claims' = claims + 1
  /\ stored' = [n \in Node |-> Reset(stored[n])]
  /\ node' = [n \in Node |-> NodeOf(stored[n])]
  /\ timers' = {n \in Node : NodeOf(stored[n]).state = "pending" /\ stored[n].backoff}
  /\ run' = "eval" /\ wake' = FALSE /\ err' = FALSE /\ ctx' = TRUE /\ lease' = TRUE
  /\ UNCHANGED <<exec, active, call, adding, pool, faults>>

Due == {n \in Node : node[n].state = "pending" /\ ~node[n].backoff}

\* A prerequisite that can no longer be satisfied.
Broken(p) == node[p].state \in {"absent", "failed", "canceled"}

\* Due nodes with a broken prerequisite, propagated until nothing changes.
Doomed ==
  {n \in Due : \A S \in SUBSET Due :
     (\A m \in Due : (\E p \in Prereq[m] : Broken(p) \/ p \in S) => m \in S) => n \in S}
Runnable == {n \in Due \ Doomed : \A p \in Prereq[n] : node[p].state = "done"}

Dispatched ==
  [n \in Doomed \cup Runnable |->
     [node[n] EXCEPT !.state = IF n \in Doomed THEN "failed" ELSE "ready"]]
DispatchOrder ==
  {S \in SUBSET (Doomed \cup Runnable) :
     \A n \in S \cap Doomed : \E p \in Prereq[n] : Broken(p) \/ p \in S}

\* The loop over the prerequisites does not stop at the first broken one: it
\* commits "failed" again for the next, which finds the row terminal.
BrokenFor(n, S) == {p \in Prereq[n] : Broken(p) \/ p \in S \cap Doomed}
RepeatedCommit ==
  \E S \in DispatchOrder :
    /\ ~Refused(Dispatched, ctx)
    /\ \E n \in S \cap Doomed : Cardinality(BrokenFor(n, S)) > 1
    /\ node' = NodesWith(Dispatched, S) /\ stored' = RowsWith(Dispatched, S)
    /\ exec' = [n \in Node |-> IF n \in S \cap Runnable THEN "start" ELSE exec[n]]
    /\ err' = TRUE /\ ctx' = FALSE /\ wake' = TRUE
    /\ UNCHANGED faults

Spawned(new) == [n \in Node |-> IF new[n].state = "ready" /\ node[n].state = "pending"
                                THEN "start" ELSE exec[n]]

Dispatch ==
  /\ run = "eval" /\ ~err /\ ctx /\ ~Terminal(Root)
  /\ run' = "wait"
  /\ \/ /\ \A n \in Doomed : Cardinality(BrokenFor(n, {})) <= 1
        /\ Commit(Dispatched, ctx) /\ exec' = Spawned(node')
     \/ CommitFails(Dispatched, DispatchOrder, ctx) /\ exec' = Spawned(node')
     \/ RepeatedCommit
  /\ UNCHANGED <<active, call, adding, timers, pool, lease, claims>>

\* The root is finished: everything else in the graph is closed.
CloseRun ==
  /\ run = "eval" /\ ~err /\ ctx /\ Terminal(Root)
  /\ run' = "drain" /\ active' = CancelAttempts(Node)
  /\ \/ Writes(Close(Node), TRUE) /\ ctx' = FALSE
     \/ CommitFails(Close(Node), SUBSET Open(Node), TRUE)
  /\ UNCHANGED <<exec, call, adding, timers, pool, lease, claims>>

\* e.err is set or the context is canceled: leave the loop.
Abandon ==
  /\ run = "eval" /\ (err \/ ~ctx)
  /\ run' = "drain" /\ ctx' = FALSE
  /\ UNCHANGED <<node, stored, exec, active, call, adding, timers, pool, wake, err, lease, claims, faults>>

Wake ==
  /\ run = "wait" /\ (wake \/ ~ctx)
  /\ run' = "eval"
  /\ wake' \in IF ctx THEN {FALSE} ELSE {wake, FALSE}
  /\ UNCHANGED <<node, stored, exec, active, call, adding, timers, pool, err, ctx, lease, claims, faults>>

\* e.wg is drained, Run returns and drive releases the claim.
Return ==
  /\ run = "drain" /\ \A n \in Node : exec[n] = "none"
  /\ run' = "down" /\ lease' = FALSE /\ timers' = {}
  /\ node' = [n \in Node |-> Absent] /\ wake' = FALSE /\ err' = FALSE
  /\ UNCHANGED <<stored, exec, active, call, adding, pool, ctx, claims, faults>>

-----------------------------------------------------------------------------
(* execute *)

Goto(n, pc) == exec' = [exec EXCEPT ![n] = pc]

\* Record that the node waits for its image, or go for a slot at once.
SeekImage(n) ==
  \/ n \notin UsesImage /\ Goto(n, "slot") /\ UNCHANGED <<node, stored, wake, err, ctx, faults>>
  \/ /\ n \in UsesImage
     /\ LET waiting == One(n, [node[n] EXCEPT !.state = "image"])
        IN \/ Commit(waiting, ctx) /\ Goto(n, "image")
           \/ CommitFails(waiting, OneOrder(n), ctx) /\ Goto(n, "none")

\* A node's last commit, and the end of everything below it.
Finished(n, r) ==
  /\ Commit(End(n, r), ctx) \/ CommitFails(End(n, r), EndOrder(n), ctx)
  /\ Goto(n, "none")

Start(n) ==
  /\ exec[n] = "start"
  /\ \/ /\ node[n].state # "ready" \/ ~ctx
        /\ Goto(n, "none") /\ UNCHANGED <<node, stored, wake, err, ctx, faults>>
     \/ /\ node[n].state = "ready" /\ ctx /\ n \in Cached
        /\ Goto(n, "cache") /\ UNCHANGED <<node, stored, wake, err, ctx, faults>>
     \/ /\ node[n].state = "ready" /\ ctx /\ n \notin Cached
        /\ SeekImage(n)
  /\ UNCHANGED <<active, call, adding, timers, pool, run, lease, claims>>

\* Cache.Lookup returned: a cached value, a cached or a lookup failure, a miss.
CacheReply(n) ==
  /\ exec[n] = "cache"
  /\ \/ /\ Terminal(n) \/ ~ctx
        /\ Goto(n, "none") /\ UNCHANGED <<node, stored, active, wake, err, ctx, faults>>
     \/ /\ ~Terminal(n) /\ ctx
        /\ \E s \in {"done", "failed"} : Finished(n, [node[n] EXCEPT !.state = s])
        /\ active' = CancelAttempts(Descendants[n])
     \/ /\ ~Terminal(n) /\ ctx
        /\ SeekImage(n) /\ UNCHANGED active
  /\ UNCHANGED <<call, adding, timers, pool, run, lease, claims>>

\* Images.Ensure returned.
ImageReply(n) ==
  /\ exec[n] = "image"
  /\ \/ /\ Terminal(n) \/ ~ctx
        /\ Goto(n, "none") /\ UNCHANGED <<node, stored, active, wake, err, ctx, faults>>
     \/ /\ ~Terminal(n) /\ ctx
        /\ Finished(n, [node[n] EXCEPT !.state = "failed"])
        /\ active' = CancelAttempts(Descendants[n])
     \/ /\ ~Terminal(n) /\ ctx
        /\ LET ready == One(n, [node[n] EXCEPT !.state = "ready"])
           IN \/ Commit(ready, ctx) /\ Goto(n, "slot")
              \/ CommitFails(ready, OneOrder(n), ctx) /\ Goto(n, "none")
        /\ UNCHANGED active
  /\ UNCHANGED <<call, adding, timers, pool, run, lease, claims>>

\* SlotPool.Acquire(e.ctx): a slot, or the executor's context.
AcquireSlot(n) ==
  /\ exec[n] = "slot"
  /\ \/ free > 0 /\ free' = free - 1 /\ Goto(n, "got")
     \/ ~ctx /\ Goto(n, "none") /\ UNCHANGED free
  /\ UNCHANGED <<node, stored, active, call, adding, timers, outside, driver>>

\* With a slot in hand: start the next attempt, unless the node was closed.
Begin(n) ==
  /\ exec[n] = "got"
  /\ LET attempt == One(n, [node[n] EXCEPT !.state = "running", !.attempt = @ + 1,
                                          !.backoff = FALSE])
     IN \/ /\ node[n].state # "ready" \/ ~ctx
           /\ Goto(n, "none") /\ free' = free + 1
           /\ UNCHANGED <<node, stored, active, call, wake, err, ctx, faults>>
        \/ /\ node[n].state = "ready" /\ ctx /\ Commit(attempt, ctx)
           /\ Goto(n, "run")
           /\ active' = [active EXCEPT ![n] = [Inactive EXCEPT !.on = TRUE, !.held = TRUE]]
           /\ call' = [c \in Child |-> IF Parent[c] = n THEN "idle" ELSE call[c]]
           /\ UNCHANGED free
        \/ /\ node[n].state = "ready" /\ ctx /\ CommitFails(attempt, OneOrder(n), ctx)
           /\ Goto(n, "none") /\ free' = free + 1
           /\ UNCHANGED <<active, call>>
  /\ UNCHANGED <<adding, timers, outside, run, lease, claims>>

\* The task answers or its process ends; its open API calls are canceled.
\* A joining task does so only after it waited for every child it created.
TaskExits(n) ==
  /\ exec[n] = "run"
  /\ Joins => \/ Dead(n)
              \/ \A c \in Children(n) : \/ call[c] = "returned"
                                        \/ stored[c].state # "absent" /\ c \notin Known \cup adding
  /\ Goto(n, "exit")
  /\ UNCHANGED <<node, stored, active, call, adding, timers, pool, driver>>

LeakBug(n) == 0
\* The slot the attempt still holds.
Refund(n) == IF active[n].held THEN 1 ELSE 0

DetachBug(n) == [active EXCEPT ![n].held = FALSE]
\* delete(e.active, id)
Detach(n) == [active EXCEPT ![n] = Inactive]

SupersededBug(n) == ~ctx
\* The executor stopped, or the node was closed while its task ran.
Superseded(n) == ~ctx \/ Terminal(n)

RetriesBug(n) == node[n].failures + 1 <= MaxAttempts[n]
\* The failure of this attempt leaves another one.
Retries(n) == node[n].failures + 1 < MaxAttempts[n]

Rearm(n) == timers \cup {n}

\* Runner.Run returned (after its API handlers did), its result is published
\* to the cache if there is one, and the attempt ends under resumeMu and mu.
Finish(n) ==
  LET failed == [node[n] EXCEPT !.state = "failed", !.failures = @ + 1]
      retry == One(n, [failed EXCEPT !.state = "pending", !.backoff = TRUE])
  IN /\ exec[n] = "exit" /\ InFlight(n) = {} /\ ~ResumeLocked(n)
     /\ free' = free + Refund(n)
     /\ \/ /\ Superseded(n)
           /\ Goto(n, "none") /\ active' = Detach(n)
           /\ UNCHANGED <<node, stored, timers, wake, err, ctx, faults>>
        \/ /\ ~Superseded(n)
           /\ \/ Finished(n, [node[n] EXCEPT !.state = "done"])
              \/ Finished(n, failed)  \* a cacheable failure is final at once
           /\ active' = [CancelAttempts(Descendants[n]) EXCEPT ![n] = Detach(n)[n]]
           /\ UNCHANGED timers
        \/ /\ ~Superseded(n) /\ Retries(n)
           /\ active' = Detach(n) /\ Goto(n, "none")
           /\ \/ Commit(retry, ctx) /\ timers' = Rearm(n)
              \/ CommitFails(retry, OneOrder(n), ctx) /\ UNCHANGED timers
     /\ UNCHANGED <<call, adding, outside, run, lease, claims>>

\* The retry's backoff ends, and the timer goroutine wakes the dispatcher.
Elapse(n) ==
  /\ stored[n].backoff \/ node[n].backoff
  /\ stored' = [stored EXCEPT ![n].backoff = FALSE]
  /\ node' = [node EXCEPT ![n].backoff = FALSE]
  /\ UNCHANGED <<exec, active, call, adding, timers, pool, driver>>

TimerFires(n) ==
  /\ n \in timers /\ ~node[n].backoff
  /\ timers' = timers \ {n}
  /\ wake' = (wake \/ node[n].state = "pending")
  /\ UNCHANGED <<node, stored, exec, active, call, adding, pool, run, err, ctx, lease, claims, faults>>

-----------------------------------------------------------------------------
(* The API calls of a running task: CreateTaskAction with Add, and         *)
(* GetTaskAction(wait) with Wait and resume.                               *)

\* The context of a task's API call may be canceled: the task gives the call up
\* (handleIncomingFrame), or its process is gone (Transport.fail).
Withdrawn(p) == ~Joins \/ Dead(p)

MayCall(p) == exec[p] = "run" /\ Cardinality(InFlight(p)) < MaxCalls

\* The parent's attempt may still act on the graph.
Acting(p) == active[p].on /\ ~Terminal(p)

\* CreateTaskAction's transaction. A key used before finds its row again. A
\* child's prerequisites are actions that exist.
CreateRow(c) ==
  LET p == Parent[c]
  IN /\ MayCall(p) /\ c \notin Known /\ Prereq[c] \subseteq Known
     /\ lease /\ stored[p].state \in {"running", "waiting"}
     /\ stored[p].attempt = node[p].attempt /\ ~RowTerminal(Root)
     /\ stored' = IF stored[c].state # "absent" THEN stored
                  ELSE [stored EXCEPT ![c].state = "queued"]
     /\ adding' = adding \cup {c}
     /\ UNCHANGED <<node, exec, active, call, timers, pool, driver>>

\* active.add: the committed row enters the graph if its parent still acts, and
\* the handler gets there: its context is alive and it can read the row again.
AddNode(c) ==
  /\ c \in adding /\ adding' = adding \ {c}
  /\ \/ /\ ~err /\ Acting(Parent[c])
        /\ node' = [node EXCEPT ![c] = NodeOf(stored[c])]
        /\ timers' = IF node'[c].state = "pending" /\ node'[c].backoff
                     THEN timers \cup {c} ELSE timers
        /\ wake' = TRUE /\ UNCHANGED faults
     \/ /\ err \/ ~Acting(Parent[c]) \/ Withdrawn(Parent[c])
        /\ UNCHANGED <<node, timers, wake, faults>>
     \/ /\ faults < MaxFaults /\ faults' = faults + 1
        /\ UNCHANGED <<node, timers, wake>>
  /\ UNCHANGED <<stored, exec, active, call, pool, run, err, ctx, lease, claims>>

SetCall(c, pc) == call' = [call EXCEPT ![c] = pc]

\* A write with the context of a call that is withdrawn before or during it fails
\* like any other: e.err is set. The row may have been written all the same.
CommitWithdrawn(p, upd) ==
  /\ Withdrawn(p)
  /\ \/ UNCHANGED stored
     \/ ~Refused(upd, TRUE) /\ stored' = RowsWith(upd, DOMAIN upd)
  /\ err' = TRUE /\ ctx' = FALSE /\ wake' = (wake \/ ~err)
  /\ UNCHANGED <<node, faults>>

\* Wait's first section. A finished child leads straight to resume; otherwise
\* the attempt gives its slot back (once) and counts one more waiter.
Wait(c) ==
  LET p == Parent[c]
      waiting == One(p, [node[p] EXCEPT !.state = "children"])
  IN /\ MayCall(p) /\ c \in Known /\ c \notin adding /\ call[c] = "idle"
     /\ \/ /\ ~Acting(p) /\ SetCall(c, "returned")
           /\ UNCHANGED <<node, stored, active, free, wake, err, ctx, faults>>
        \/ /\ Acting(p) /\ Terminal(c) /\ SetCall(c, "left")
           /\ UNCHANGED <<node, stored, active, free, wake, err, ctx, faults>>
        \/ /\ Acting(p) /\ ~Terminal(c) /\ ~active[p].held
           /\ active' = [active EXCEPT ![p].waiters = @ + 1] /\ SetCall(c, "wait")
           /\ UNCHANGED <<node, stored, free, wake, err, ctx, faults>>
        \/ /\ Acting(p) /\ ~Terminal(c) /\ active[p].held /\ Commit(waiting, TRUE)
           /\ active' = [active EXCEPT ![p].held = FALSE, ![p].waiters = @ + 1]
           /\ free' = free + 1 /\ SetCall(c, "wait")
        \/ /\ Acting(p) /\ ~Terminal(c) /\ active[p].held
           /\ CommitFails(waiting, OneOrder(p), TRUE) \/ CommitWithdrawn(p, waiting)
           /\ SetCall(c, "returned") /\ UNCHANGED <<active, free>>
     /\ UNCHANGED <<exec, adding, timers, outside, run, lease, claims>>

\* The loop of Wait ends: the child finished, or waitCtx was canceled with the
\* attempt or the call.
StopWaiting(c) ==
  LET p == Parent[c]
  IN /\ call[c] = "wait"
     /\ Terminal(c) \/ Withdrawn(p)
     /\ active' = [active EXCEPT ![p].waiters = @ - 1] /\ wake' = TRUE
     /\ SetCall(c, "left")
     /\ UNCHANGED <<node, stored, exec, adding, timers, pool, run, err, ctx, lease, claims, faults>>

LockResume(c) ==
  /\ call[c] = "left" /\ ~ResumeLocked(Parent[c])
  /\ SetCall(c, "mutex")
  /\ UNCHANGED <<node, stored, exec, active, adding, timers, pool, driver>>

\* resume, before the slot: wait for the other waiters.
LeaveResumeLoop(c) ==
  /\ call[c] = "mutex" /\ (active[Parent[c]].waiters = 0 \/ Dead(Parent[c]))
  /\ SetCall(c, "look")
  /\ UNCHANGED <<node, stored, exec, active, adding, timers, pool, driver>>

\* Under the lock again: is a slot still needed?
LookAgain(c) ==
  LET p == Parent[c]
  IN /\ call[c] = "look"
     /\ SetCall(c, IF err \/ Terminal(p) \/ Dead(p) \/ active[p].held
                   THEN "returned" ELSE "acquire")
     /\ UNCHANGED <<node, stored, exec, active, adding, timers, pool, driver>>

\* SlotPool.Acquire(a.ctx)
AcquireResume(c) ==
  /\ call[c] = "acquire"
  /\ \/ free > 0 /\ free' = free - 1 /\ SetCall(c, "have")
     \/ Dead(Parent[c]) /\ SetCall(c, "returned") /\ UNCHANGED free
  /\ UNCHANGED <<node, stored, exec, active, adding, timers, outside, driver>>

RunningAgainBug(p) == node[p]
RunningAgain(p) == [node[p] EXCEPT !.state = "running"]

\* resume, with the slot: the attempt runs again, unless it was closed.
Resume(c) ==
  LET p == Parent[c]
      running == One(p, RunningAgain(p))
  IN /\ call[c] = "have" /\ SetCall(c, "returned")
     /\ \/ /\ Terminal(p) \/ Dead(p)
           /\ free' = free + 1
           /\ UNCHANGED <<node, stored, active, wake, err, ctx, faults>>
        \/ /\ ~Terminal(p) /\ ~Dead(p)
           /\ active' = [active EXCEPT ![p].held = TRUE] /\ UNCHANGED free
           /\ Commit(running, TRUE) \/ CommitFails(running, OneOrder(p), TRUE)
     /\ UNCHANGED <<exec, adding, timers, outside, run, lease, claims>>

-----------------------------------------------------------------------------
(* What happens around the executor *)

\* The other runs of the worker share its slots.
TakeOutside ==
  /\ free > 0 /\ outside < MaxOutside
  /\ free' = free - 1 /\ outside' = outside + 1
  /\ UNCHANGED <<node, stored, exec, active, call, adding, timers, driver>>
GiveBackOutside ==
  /\ outside > 0 /\ outside' = outside - 1 /\ free' = free + 1
  /\ UNCHANGED <<node, stored, exec, active, call, adding, timers, driver>>

\* The lease runs out before the driver renews it.
LoseLease ==
  /\ lease /\ faults < MaxFaults /\ faults' = faults + 1
  /\ lease' = FALSE
  /\ UNCHANGED <<node, stored, exec, active, call, adding, timers, pool, run, wake, err, ctx, claims>>

\* renew finds the lease gone, or the worker shuts down: drive's context ends.
StopDriver ==
  /\ ctx /\ run # "down" /\ ctx' = FALSE
  /\ \/ ~lease /\ UNCHANGED faults
     \/ lease /\ faults < MaxFaults /\ faults' = faults + 1
  /\ UNCHANGED <<node, stored, exec, active, call, adding, timers, pool, run, wake, err, lease, claims>>

\* The worker's process dies with everything in it; its claims expire.
Crash ==
  /\ run # "down" /\ faults < MaxFaults /\ faults' = faults + 1
  /\ run' = "down" /\ wake' = FALSE /\ err' = FALSE /\ ctx' = FALSE /\ lease' = FALSE
  /\ node' = [n \in Node |-> Absent] /\ exec' = [n \in Node |-> "none"]
  /\ active' = [n \in Node |-> Inactive] /\ call' = [c \in Child |-> "idle"]
  /\ adding' = {} /\ timers' = {} /\ free' = Slots /\ outside' = 0
  /\ UNCHANGED <<stored, claims>>

\* The CancelRun call of a client: every open row is canceled and the claim
\* cleared; the driver learns of it from its next write or renewal.
CancelRun ==
  /\ ~RowTerminal(Root) /\ faults < MaxFaults /\ faults' = faults + 1
  /\ stored' = [n \in Node |-> IF stored[n].state \in Final \cup {"absent"} THEN stored[n]
                               ELSE [stored[n] EXCEPT !.state = "canceled"]]
  /\ lease' = FALSE
  /\ UNCHANGED <<node, exec, active, call, adding, timers, pool, run, wake, err, ctx, claims>>

\* Executor.CancelSubtree and Executor.Cancel.
CancelSubtree(n) ==
  /\ n \in Known /\ faults < MaxFaults
  /\ LET all == {n} \cup Descendants[n]
         order == IF Terminal(n) THEN SUBSET Open(all) ELSE EndOrder(n)
     IN /\ Open(all) # {} /\ active' = CancelAttempts(all)
        /\ Commit(Close(all), TRUE) \/ CommitFails(Close(all), order, TRUE)
  /\ UNCHANGED <<exec, call, adding, timers, pool, run, lease, claims>>
Cancel ==
  /\ run # "down" /\ ctx /\ faults < MaxFaults
  /\ active' = CancelAttempts(Node)
  /\ \/ Writes(Close(Node), TRUE) /\ ctx' = FALSE
     \/ CommitFails(Close(Node), SUBSET Open(Node), TRUE)
  /\ UNCHANGED <<exec, call, adding, timers, pool, run, lease, claims>>

-----------------------------------------------------------------------------

Driver == Claim \/ Dispatch \/ CloseRun \/ Abandon \/ Wake \/ Return
Execute(n) ==
  \/ Start(n) \/ CacheReply(n) \/ ImageReply(n) \/ AcquireSlot(n) \/ Begin(n)
  \/ TaskExits(n) \/ Finish(n) \/ Elapse(n) \/ TimerFires(n)
Api(c) ==
  \/ CreateRow(c) \/ AddNode(c) \/ Wait(c) \/ StopWaiting(c) \/ LockResume(c)
  \/ LeaveResumeLoop(c) \/ LookAgain(c) \/ AcquireResume(c) \/ Resume(c)
Environment ==
  \/ TakeOutside \/ GiveBackOutside \/ LoseLease \/ StopDriver \/ Crash
  \/ CancelRun \/ Cancel \/ \E n \in Node : CancelSubtree(n)

Next ==
  \/ Driver \/ Environment
  \/ \E n \in Node : Execute(n)
  \/ \E c \in Child : Api(c)

Spec == Init /\ [][Next]_vars

\* Fairness. Goroutines run, the database and the tasks answer, time passes and
\* the renewal ticker ticks; a channel's blocked senders and a mutex's blocked
\* lockers are served in turn, which needs strong fairness. No fault is fair.
Fairness ==
  /\ WF_vars(Driver) /\ WF_vars(~lease /\ StopDriver) /\ WF_vars(GiveBackOutside)
  /\ \A n \in Node :
       /\ WF_vars(Start(n)) /\ WF_vars(CacheReply(n)) /\ WF_vars(ImageReply(n))
       /\ SF_vars(AcquireSlot(n)) /\ WF_vars(Begin(n)) /\ WF_vars(TaskExits(n))
       /\ WF_vars(Finish(n)) /\ WF_vars(Elapse(n)) /\ WF_vars(TimerFires(n))
  /\ \A c \in Child :
       /\ WF_vars(CreateRow(c)) /\ WF_vars(AddNode(c)) /\ WF_vars(Wait(c))
       /\ WF_vars(StopWaiting(c)) /\ SF_vars(LockResume(c))
       /\ WF_vars(LeaveResumeLoop(c)) /\ WF_vars(LookAgain(c)) /\ SF_vars(AcquireResume(c)) /\ WF_vars(Resume(c))
FairSpec == Spec /\ Fairness

-----------------------------------------------------------------------------
(* Properties *)

Holding == {n \in Node : active[n].held}
Taking == {n \in Node : exec[n] = "got"}
Returning == {c \in Child : call[c] = "have"}

\* Every slot is either free or held by exactly one of: an attempt, a goroutine
\* about to start one, a Wait about to resume one, another run. A Release too
\* many would block under e.mu forever (slotPool.Release), one too few would
\* shrink the worker's capacity for good.
SlotConservation ==
  free + outside + Cardinality(Holding) + Cardinality(Taking) + Cardinality(Returning) = Slots

\* While the executor is live an attempt holds a slot exactly when its action
\* is shown as running; a parent that waits for children holds none, and an
\* action without an attempt is shown as neither (Wait, resume, execute).
HeldIffRunning ==
  ctx => \A n \in Node :
           IF active[n].on /\ ~Terminal(n)
           THEN node[n].state = IF active[n].held THEN "running" ELSE "children"
           ELSE node[n].state \notin {"running", "children"}

\* "Holding the graph lock through the write makes committed state the only
\* state visible": until a write fails or the claim is lost, what the executor
\* acts on is what the rows say, also after a crash and a restored graph.
CommittedIsVisible ==
  ~err /\ lease => \A n \in Known : stored[n] = RowOf(node[n])

\* A node the dispatcher may pick has no goroutine and no attempt left from
\* before ("remove the attempt before a retry can be dispatched"), so no two
\* attempts of an action ever run at once.
OneAttempt ==
  \A n \in Node : node[n].state = "pending" => exec[n] = "none" /\ active[n] = Inactive

\* An action that ended took every action below it along: nothing runs, waits
\* or is dispatched below a finished one, unless a write failed on the way or
\* the graph was restored from rows of a driver that died on the way.
SubtreeClosed ==
  ~err /\ claims <= 1 =>
    \A n \in Known : Terminal(n) => \A d \in Descendants[n] \cap Known : Terminal(d)

\* While it holds the claim no write of its own is refused by the fence of
\* TransitionRunTaskAction. What makes an executor give up is a fault, or a task
\* that withdraws a Wait before its attempt has given its slot back.
GivesUpWait ==
  \E c \in Child : /\ Withdrawn(Parent[c]) /\ Acting(Parent[c]) /\ active[Parent[c]].held
                   /\ call[c] = "idle" /\ call'[c] = "returned"
NeverPoisoned == [][~err /\ err' => faults' > 0 \/ GivesUpWait]_vars

\* A failed prerequisite fails its dependents and nothing else: without a fault
\* from outside, and without withdrawn calls, the executor goes on.
FailedPrerequisiteIsLocal ==
  Joins /\ faults = 0 /\ (\E n \in Known : node[n].state = "failed") => ~err

\* A run whose tasks wait for their children comes to an end: no slot, wake-up,
\* timer or resumption is lost on the way.
RootFinishes == <>RowTerminal(Root)

\* In the end every row of the run is final, also the row of a child created
\* while its parent was being closed, which no executor had in its graph.
RunSettles == <>[](\A n \in Node : stored[n].state \in Final \cup {"absent"})

\* The rows keep the promises of RunLedger; backoff is the executor's own.
Ledger == INSTANCE RunLedger WITH
  Action <- Node,
  ledger <- [n \in Node |-> [state |-> stored[n].state, attempt |-> stored[n].attempt,
                             failures |-> stored[n].failures]]
KeepsLedger == Ledger!Spec
=============================================================================
