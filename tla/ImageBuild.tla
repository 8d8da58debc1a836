----------------------------- MODULE ImageBuild -----------------------------
(***************************************************************************)
(* Image builds of one image key: ensureImage, claimImageBuild, buildImage *)
(* (internal/lutra/image.go) over the rows of lutra.image_builds, as the   *)
(* goroutines that runDriver.Ensure starts on any workers run them.        *)
(*                                                                         *)
(* A caller claims the build in a transaction of several statements, each  *)
(* of which sees what is committed by then (READ COMMITTED). What keeps    *)
(* two claims apart is the unique index on the row that is building.       *)
(***************************************************************************)
EXTENDS Naturals, Sequences

CONSTANTS
  Caller,    \* the goroutines that call ensureImage
  Nobody,    \* not a caller
  MaxFaults  \* bound: failed statements, late renewals and crashes

ASSUME ImageAssumption == Nobody \notin Caller /\ MaxFaults \in Nat

VARIABLES
  builds,     \* the committed rows, oldest first; only the last may be building
  pc,         \* where a caller stands in ensureImage
  observed,   \* the build a caller polls or builds, 0: none
  got,        \* what ensureImage returned: an image is known by its build
  expiring,   \* the transaction that holds the lock of the row it expires
  inserting,  \* the transaction whose row is in the unique index
  faults

vars == <<builds, pc, observed, got, expiring, inserting, faults>>

-----------------------------------------------------------------------------
(* State formulae. An operator whose name ends in Bug is a wrong variant of *)
(* the one that follows it, used only to try whether a property notices.   *)

\* A build that failed has its error, or ran out of its lease.
Build == [status : {"building", "ready", "failed", "expired"}, owner : Caller, live : BOOLEAN]

InTransaction == {"expire", "latest", "insert", "check", "commit"}
Ended == {"over", "dead"}

NoAnswer == [kind |-> "none", build |-> 0]
Error == [kind |-> "error", build |-> 0]
Answer == [kind : {"none", "error", "image"}, build : Nat]

TypeOK ==
  /\ builds \in Seq(Build)
  /\ pc \in [Caller -> InTransaction \cup Ended \cup {"idle", "poll", "build"}]
  /\ observed \in [Caller -> 0..Len(builds)] /\ got \in [Caller -> Answer]
  /\ expiring \in Caller \cup {Nobody} /\ inserting \in Caller \cup {Nobody}
  /\ faults \in 0..MaxFaults

Init ==
  /\ builds = <<>>
  /\ pc = [c \in Caller |-> "idle"] /\ observed = [c \in Caller |-> 0]
  /\ got = [c \in Caller |-> NoAnswer]
  /\ expiring = Nobody /\ inserting = Nobody /\ faults = 0

Goto(c, l) == pc' = [pc EXCEPT ![c] = l]
Observe(c, i) == observed' = [observed EXCEPT ![c] = i]
Fault == faults < MaxFaults /\ faults' = faults + 1
Return(c, a) == Goto(c, "over") /\ got' = [got EXCEPT ![c] = a]

Rows == 1..Len(builds)
Latest == builds[Len(builds)]
LatestStatus == IF builds = <<>> THEN "none" ELSE Latest.status
InFlight == LatestStatus = "building"
LapsedBug == FALSE
Lapsed == InFlight /\ ~Latest.live

ReadyRowsBug == {}

\* ReadyImageBuild
ReadyRows == {i \in Rows : builds[i].status = "ready"}

\* The latest row, with another status.
Marked(s) == [builds EXCEPT ![Len(builds)] = [@ EXCEPT !.status = s]]
Expired == Marked("expired")

\* What the transaction of a caller leaves behind when it commits.
AfterExpire(c) == IF expiring = c THEN Expired ELSE builds
Unlock(c) ==
  /\ expiring' = IF expiring = c THEN Nobody ELSE expiring
  /\ inserting' = IF inserting = c THEN Nobody ELSE inserting

ConflictsBug(c) == FALSE

\* ON CONFLICT (image_key) WHERE status = 'building': the row that is building,
\* unless this transaction expired it.
Conflicts(c) == InFlight /\ expiring # c

HoldsBug(c) == InFlight

\* FinishImageBuild and RenewImageBuild: the build is the caller's and its lease in
\* force.
Holds(c) == observed[c] = Len(builds) /\ InFlight /\ Latest.owner = c /\ Latest.live

-----------------------------------------------------------------------------
(* claimImageBuild *)

Ensure(c) ==
  /\ pc[c] = "idle" /\ Goto(c, "expire")
  /\ UNCHANGED <<builds, observed, got, expiring, inserting, faults>>

\* ExpireImageBuilds locks the row it changes, and waits for whoever did so first.
Expire(c) ==
  /\ pc[c] = "expire" /\ Goto(c, "latest")
  /\ \/ Lapsed /\ expiring = Nobody /\ expiring' = c
     \/ ~Lapsed /\ UNCHANGED expiring
  /\ UNCHANGED <<builds, observed, got, inserting, faults>>

\* LatestImageBuild: what is ready or in flight ends the transaction.
LatestRow(c) ==
  /\ pc[c] = "latest"
  /\ \/ /\ LatestStatus \in {"none", "failed", "expired"} \/ expiring = c
        /\ Goto(c, "insert") /\ UNCHANGED <<observed, got>>
     \/ /\ LatestStatus = "ready"
        /\ Return(c, [kind |-> "image", build |-> Len(builds)]) /\ Observe(c, Len(builds))
     \/ /\ InFlight /\ expiring # c
        /\ Goto(c, "poll") /\ Observe(c, Len(builds)) /\ UNCHANGED got
  /\ UNCHANGED <<builds, expiring, inserting, faults>>

\* InsertImageBuild waits for a transaction that has a row in the index or
\* changes the row that is there. On a conflict the claim starts again.
Insert(c) ==
  /\ pc[c] = "insert" /\ inserting = Nobody /\ expiring \in {c, Nobody}
  /\ IF Conflicts(c) THEN Goto(c, "expire") /\ UNCHANGED inserting
                     ELSE Goto(c, "check") /\ inserting' = c
  /\ UNCHANGED <<builds, observed, got, expiring, faults>>

\* A competing build may have finished before the insert: its image is returned
\* and the new row deleted.
Check(c) ==
  /\ pc[c] = "check"
  /\ \/ /\ ReadyRows = {} /\ Goto(c, "commit")
        /\ UNCHANGED <<builds, observed, got, expiring, inserting>>
     \/ \E i \in ReadyRows :
          /\ \A j \in ReadyRows : j <= i
          /\ Return(c, [kind |-> "image", build |-> i]) /\ Observe(c, i)
          /\ builds' = AfterExpire(c) /\ Unlock(c)
  /\ UNCHANGED faults

Claimed(c) == Append(AfterExpire(c), [status |-> "building", owner |-> c, live |-> TRUE])

Commit(c) ==
  /\ pc[c] = "commit" /\ Goto(c, "build")
  /\ builds' = Claimed(c) /\ Observe(c, Len(builds) + 1) /\ Unlock(c)
  /\ UNCHANGED <<got, faults>>

\* A statement fails, or the worker stops: the transaction is rolled back, or it
\* was committed and its answer lost.
ClaimFails(c) ==
  /\ pc[c] \in InTransaction /\ Fault /\ Return(c, Error) /\ Unlock(c)
  /\ \/ UNCHANGED builds
     \/ pc[c] = "commit" /\ builds' = Claimed(c)
  /\ UNCHANGED observed

-----------------------------------------------------------------------------
(* buildImage and polling *)

\* The build ends, or was canceled by its renewal or its worker: FinishImageBuild
\* publishes the outcome, unless the lease was lost.
Finish(c, status) ==
  /\ pc[c] = "build" /\ expiring = Nobody
  /\ \/ /\ Holds(c) /\ builds' = Marked(status) /\ UNCHANGED faults
        /\ Return(c, IF status = "ready" THEN [kind |-> "image", build |-> observed[c]] ELSE Error)
     \/ ~Holds(c) /\ Return(c, Error) /\ UNCHANGED <<builds, faults>>
     \/ /\ Fault /\ Return(c, Error)
        /\ builds' \in {builds} \cup IF Holds(c) THEN {Marked(status)} ELSE {}
  /\ UNCHANGED <<observed, expiring, inserting>>

\* GetImageBuild, every 100 ms: a build that expired, or will, is claimed anew.
Poll(c) ==
  /\ pc[c] = "poll"
  /\ LET row == builds[observed[c]]
     IN \/ /\ row.status = "ready"
           /\ Return(c, [kind |-> "image", build |-> observed[c]]) /\ UNCHANGED observed
        \/ row.status = "failed" /\ Return(c, Error) /\ UNCHANGED observed
        \/ /\ row.status = "expired" \/ (row.status = "building" /\ ~row.live)
           /\ Goto(c, "expire") /\ Observe(c, 0) /\ UNCHANGED got
  /\ UNCHANGED <<builds, expiring, inserting, faults>>

\* The statement of a poll fails, or the worker stops.
PollFails(c) ==
  /\ pc[c] = "poll" /\ Fault /\ Return(c, Error)
  /\ UNCHANGED <<builds, observed, expiring, inserting>>

-----------------------------------------------------------------------------

\* SweepExpiredImageBuilds, by any worker.
Sweep ==
  /\ Lapsed /\ expiring = Nobody /\ builds' = Expired
  /\ UNCHANGED <<pc, observed, got, expiring, inserting, faults>>

Renewed == pc[Latest.owner] = "build" /\ observed[Latest.owner] = Len(builds)

\* now() passes lease_until: nobody renews the build, or somebody too late.
Lapse ==
  /\ InFlight /\ Latest.live
  /\ builds' = [builds EXCEPT ![Len(builds)] = [@ EXCEPT !.live = FALSE]]
  /\ IF Renewed THEN Fault ELSE UNCHANGED faults
  /\ UNCHANGED <<pc, observed, got, expiring, inserting>>

\* A worker dies; the run is driven by another worker, that is another caller.
Crash(c) ==
  /\ pc[c] \in InTransaction \cup {"poll", "build"} /\ Fault
  /\ Goto(c, "dead") /\ Unlock(c)
  /\ UNCHANGED <<builds, observed, got>>

Step(c) ==
  \/ Expire(c) \/ LatestRow(c) \/ Insert(c) \/ Check(c) \/ Commit(c) \/ Poll(c)
  \/ \E status \in {"ready", "failed"} : Finish(c, status)

Next ==
  \/ \E c \in Caller : Ensure(c) \/ Step(c) \/ ClaimFails(c) \/ PollFails(c) \/ Crash(c)
  \/ Sweep \/ Lapse

Spec == Init /\ [][Next]_vars

\* Statements return, builds end, callers poll, leases nobody renews run out.
Fairness ==
  /\ \A c \in Caller : WF_vars(Step(c))
  /\ WF_vars(Lapse /\ UNCHANGED faults)
FairSpec == Spec /\ Fairness

-----------------------------------------------------------------------------
(* Properties *)

Published == {i \in 1..Len(builds) : builds[i].status = "ready"}

\* Once an image is ready nothing about the key changes any more: no second
\* build starts, none replaces it, and no late owner, sweep or rollback touches it.
ReadyIsFinal == [][Published # {} => builds' = builds]_vars

\* Every caller that got an image got the one that is ready.
SameImage == \A c \in Caller : got[c].kind = "image" => Published = {got[c].build}

\* Without a fault an image is built by one caller at a time.
OneBuilder ==
  faults = 0 => \A c, d \in Caller : pc[c] = "build" /\ pc[d] = "build" => c = d

\* Transactions do not block one another for ever, and whoever crashed while it
\* claimed or built does not keep the others waiting.
EverybodyEnds == \A c \in Caller : pc[c] = "expire" ~> pc[c] \in Ended
=============================================================================
