-------------------------- MODULE ImageBuild_proof --------------------------
(***************************************************************************)
(* Proofs about ImageBuild, for any number of callers and faults.          *)
(***************************************************************************)
EXTENDS ImageBuild, TLAPS

\* Of all rows only the last is anything but over: it is building or ready.
LastInv == \A i \in 1..Len(builds) : builds[i].status \in {"building", "ready"} => i = Len(builds)

\* Only transactions hold locks: on the expired row from the first statement on,
\* in the index from the insert on.
LockInv ==
  /\ expiring # Nobody => pc[expiring] \in {"latest", "insert", "check", "commit"} /\ Lapsed
  /\ inserting # Nobody => pc[inserting] \in {"check", "commit"}
  /\ \A c \in Caller : pc[c] \in {"check", "commit"} => inserting = c

\* A row in the index excludes another, but for the one the same transaction expires.
IndexInv == inserting # Nobody /\ InFlight => expiring = inserting

\* What a claim has checked stays so until it commits.
CheckedInv == \A c \in Caller : pc[c] = "commit" => Published = {}

\* Who polls or builds knows a row.
SeenInv == \A c \in Caller : pc[c] \in {"poll", "build"} => observed[c] # 0

\* A build belongs to one caller, and without a fault stays its own until it ends.
OwnInv == faults = 0 => \A c \in Caller : pc[c] = "build" => Holds(c)

IInv == TypeOK /\ LastInv /\ LockInv /\ IndexInv /\ CheckedInv /\ SeenInv /\ SameImage /\ OwnInv

-----------------------------------------------------------------------------
(* The rows *)

\* Changing the status of the last row keeps its place and its owner.
LEMMA Marking ==
  ASSUME builds \in Seq(Build), builds # <<>>, NEW s \in {"ready", "failed", "expired"}
  PROVE  /\ Marked(s) \in Seq(Build) /\ Len(Marked(s)) = Len(builds)
         /\ Len(builds) \in 1..Len(builds)
         /\ Marked(s)[Len(builds)].status = s
         /\ \A i \in 1..Len(builds) : i # Len(builds) => Marked(s)[i] = builds[i]
<1>1. Len(builds) \in Nat /\ Len(builds) > 0 /\ builds \in [1..Len(builds) -> Build]
  OBVIOUS
<1>2. builds[Len(builds)] \in Build
  BY <1>1
<1>3. [builds[Len(builds)] EXCEPT !.status = s] \in Build
  BY <1>2 DEF Build
<1>4. QED BY <1>1, <1>2, <1>3 DEF Marked, Build

Lapses == builds' = [builds EXCEPT ![Len(builds)] = [@ EXCEPT !.live = FALSE]]

\* A lapsed row stays where it is.
LEMMA Lapsing ==
  ASSUME builds \in Seq(Build), builds # <<>>, Lapses
  PROVE  /\ builds' \in Seq(Build) /\ Len(builds') = Len(builds)
         /\ \A i \in 1..Len(builds) : builds'[i].status = builds[i].status
<1>1. Len(builds) \in Nat /\ Len(builds) > 0 /\ builds \in [1..Len(builds) -> Build]
  OBVIOUS
<1>2. [builds[Len(builds)] EXCEPT !.live = FALSE] \in Build
  <2>1. builds[Len(builds)] \in Build
    BY <1>1
  <2>2. QED BY <2>1 DEF Build
<1>3. QED BY <1>1, <1>2 DEF Build, Lapses

\* What a committed claim leaves behind: the rows as before, or with the last one
\* expired, and a new one.
LEMMA Claiming ==
  ASSUME TypeOK, NEW c \in Caller, expiring = c => Lapsed
  PROVE  /\ AfterExpire(c) \in Seq(Build) /\ Len(AfterExpire(c)) = Len(builds)
         /\ \A i \in 1..Len(builds) : AfterExpire(c)[i] = builds[i] \/ AfterExpire(c)[i].status = "expired"
         /\ Claimed(c) \in Seq(Build) /\ Len(Claimed(c)) = Len(builds) + 1
         /\ Claimed(c)[Len(builds) + 1] = [status |-> "building", owner |-> c, live |-> TRUE]
         /\ \A i \in 1..Len(builds) : Claimed(c)[i] = AfterExpire(c)[i]
<1>1. expiring = c => builds # <<>>
  BY DEF Lapsed, InFlight, LatestStatus
<1>2. /\ AfterExpire(c) \in Seq(Build) /\ Len(AfterExpire(c)) = Len(builds)
      /\ \A i \in 1..Len(builds) : AfterExpire(c)[i] = builds[i] \/ AfterExpire(c)[i].status = "expired"
  BY <1>1, Marking DEF TypeOK, AfterExpire, Expired
<1>3. [status |-> "building", owner |-> c, live |-> TRUE] \in Build
  BY DEF Build
<1>4. QED BY <1>2, <1>3 DEF Claimed

\* Whatever ensureImage returns is an answer.
LEMMA Answers ==
  /\ Error \in Answer /\ NoAnswer \in Answer
  /\ \A i \in Nat : [kind |-> "image", build |-> i] \in Answer
BY DEF Error, NoAnswer, Answer

-----------------------------------------------------------------------------
(* What a step does to the rows *)

Changes ==
  \/ builds' = builds
  \/ InFlight /\ \E s \in {"ready", "failed", "expired"} : builds' = Marked(s)
  \/ InFlight /\ Lapses
  \/ \E c \in Caller : pc[c] = "commit" /\ builds' = Claimed(c)

\* A step leaves the rows alone, ends or lapses the build in flight, or commits a
\* claim.
LEMMA Effects ==
  ASSUME LockInv, [Next]_vars
  PROVE  Changes
<1> USE DEF Changes, LockInv, ImageAssumption
<1>1. ASSUME NEW c \in Caller, Ensure(c) PROVE Changes
  BY <1>1, ImageAssumption DEF Ensure
<1>2. ASSUME NEW c \in Caller, Expire(c) PROVE Changes
  BY <1>2, ImageAssumption DEF Expire, Lapsed, InFlight
<1>3. ASSUME NEW c \in Caller, LatestRow(c) PROVE Changes
  BY <1>3, ImageAssumption DEF LatestRow
<1>4. ASSUME NEW c \in Caller, Insert(c) PROVE Changes
  BY <1>4, ImageAssumption DEF Insert, Conflicts
<1>5. ASSUME NEW c \in Caller, Check(c) PROVE Changes
  BY <1>5, ImageAssumption DEF Check, ReadyRows, Rows, AfterExpire, Expired, Lapsed
<1>6. ASSUME NEW c \in Caller, Commit(c) PROVE Changes
  BY <1>6, ImageAssumption DEF Commit
<1>7. ASSUME NEW c \in Caller, Poll(c) PROVE Changes
  BY <1>7, ImageAssumption DEF Poll
<1>8. ASSUME NEW c \in Caller, ClaimFails(c) PROVE Changes
  BY <1>8, ImageAssumption DEF ClaimFails, Fault
<1>9. ASSUME NEW c \in Caller, PollFails(c) PROVE Changes
  BY <1>9, ImageAssumption DEF PollFails, Fault
<1>10. ASSUME NEW c \in Caller, Crash(c) PROVE Changes
  BY <1>10, ImageAssumption DEF Crash, Fault, Unlock
<1>11. ASSUME NEW c \in Caller, NEW s \in {"ready", "failed"}, Finish(c, s) PROVE Changes
  BY <1>11, ImageAssumption DEF Finish, Fault, Holds
<1>12. ASSUME Sweep PROVE Changes
  BY <1>12, ImageAssumption DEF Sweep, Expired, Lapsed
<1>13. ASSUME Lapse PROVE Changes
  BY <1>13, ImageAssumption DEF Lapse, Fault, Lapses
<1>14. CASE UNCHANGED vars
  BY <1>14 DEF vars
<1>15. QED BY <1>1, <1>2, <1>3, <1>4, <1>5, <1>6, <1>7,
           <1>8, <1>9, <1>10, <1>11, <1>12, <1>13, <1>14 DEF Next, Step

\* Whatever a step does, the rows but the last are over, and a ready one stays.
LEMMA Table ==
  ASSUME IInv, [Next]_vars
  PROVE  /\ builds' \in Seq(Build) /\ Len(builds') >= Len(builds) /\ LastInv'
         /\ Published # {} => builds' = builds
<1>1. builds \in Seq(Build) /\ Len(builds) \in Nat
  BY DEF IInv, TypeOK
<1>2. InFlight => builds # <<>> /\ Published = {}
  <2>1. SUFFICES ASSUME InFlight, NEW i \in Published PROVE FALSE
    BY DEF InFlight, LatestStatus
  <2>2. i \in 1..Len(builds) /\ builds[i].status = "ready" /\ i = Len(builds)
    BY <2>1 DEF Published, IInv, LastInv
  <2>3. QED BY <2>1, <2>2 DEF InFlight, LatestStatus, Latest
<1>3. CASE builds' = builds
  BY <1>1, <1>3 DEF IInv, LastInv
<1>4. ASSUME InFlight, NEW s \in {"ready", "failed", "expired"}, builds' = Marked(s)
      PROVE  builds' \in Seq(Build) /\ Len(builds') >= Len(builds) /\ LastInv' /\ Published = {}
  BY <1>1, <1>2, <1>4, Marking DEF IInv, LastInv
<1>5. CASE InFlight /\ Lapses
  BY <1>1, <1>2, <1>5, Lapsing DEF IInv, LastInv, Lapses
<1>6. ASSUME NEW c \in Caller, pc[c] = "commit", builds' = Claimed(c)
      PROVE  builds' \in Seq(Build) /\ Len(builds') >= Len(builds) /\ LastInv' /\ Published = {}
  <2>1. inserting = c /\ c # Nobody /\ Published = {} /\ (InFlight => expiring = c)
    BY <1>6, ImageAssumption DEF IInv, LockInv, IndexInv, CheckedInv, ImageAssumption
  <2>2. expiring = c => Lapsed
    BY <1>6, ImageAssumption DEF IInv, LockInv, ImageAssumption
  <2>3. ASSUME NEW i \in 1..Len(builds) PROVE AfterExpire(c)[i].status \notin {"building", "ready"}
    <3>1. builds[i].status # "ready"
      BY <2>1, <2>3 DEF Published
    <3>2. CASE builds[i].status = "building"
      <4>1. i = Len(builds) /\ InFlight /\ expiring = c
        BY <2>1, <2>3, <3>2 DEF IInv, LastInv, InFlight, LatestStatus, Latest
      <4>2. QED BY <1>1, <4>1, Marking DEF AfterExpire, Expired
    <3>3. CASE builds[i].status # "building"
      BY <1>6, <2>2, <2>3, <3>1, <3>3, Claiming DEF IInv
    <3>4. QED BY <3>2, <3>3
  <2>4. /\ builds' \in Seq(Build) /\ Len(builds') = Len(builds) + 1
        /\ \A i \in 1..Len(builds) : builds'[i] = AfterExpire(c)[i]
    BY <1>6, <2>2, Claiming DEF IInv
  <2>5. \A i \in 1..Len(builds') : i \in 1..Len(builds) \/ i = Len(builds')
    BY <1>1, <2>4
  <2>6. LastInv'
    BY <2>3, <2>4, <2>5 DEF LastInv
  <2>7. QED BY <1>1, <2>1, <2>4, <2>6
<1>7. QED BY <1>3, <1>4, <1>5, <1>6, Effects DEF IInv, Changes

\* What the change says of the build in flight and of what is published.
LEMMA States ==
  ASSUME IInv, [Next]_vars
  PROVE  /\ Lapsed => InFlight
         /\ InFlight => Published = {}
         /\ builds' = builds => Lapsed' = Lapsed /\ InFlight' = InFlight /\ Published' = Published
         /\ \A s \in {"ready", "failed", "expired"} : InFlight /\ builds' = Marked(s) =>
              ~InFlight' /\ Published' = IF s = "ready" THEN {Len(builds)} ELSE {}
         /\ InFlight /\ Lapses => Lapsed' /\ InFlight' /\ Published' = {}
<1>1. builds \in Seq(Build) /\ Len(builds) \in Nat /\ (builds = <<>> <=> Len(builds) = 0)
  BY DEF IInv, TypeOK
<1>2. InFlight => builds # <<>> /\ builds[Len(builds)].status = "building"
  BY DEF InFlight, LatestStatus, Latest
<1>3. InFlight => \A i \in 1..Len(builds) : builds[i].status # "ready"
  BY <1>1, <1>2 DEF IInv, LastInv
<1>4. builds' = builds => Lapsed' = Lapsed /\ InFlight' = InFlight /\ Published' = Published
  BY DEF Lapsed, InFlight, LatestStatus, Latest, Published
<1>5. ASSUME NEW s \in {"ready", "failed", "expired"}, InFlight, builds' = Marked(s)
      PROVE  ~InFlight' /\ Published' = IF s = "ready" THEN {Len(builds)} ELSE {}
  <2>1. /\ Len(builds') = Len(builds) /\ builds'[Len(builds)].status = s /\ builds' # <<>>
        /\ \A i \in 1..Len(builds) : i # Len(builds) => builds'[i].status # "ready"
        /\ Len(builds) \in 1..Len(builds)
    BY <1>1, <1>2, <1>3, <1>5, Marking
  <2>2. ~InFlight'
    BY <2>1 DEF InFlight, LatestStatus, Latest
  <2>3. QED BY <2>1, <2>2 DEF Published
<1>6. ASSUME InFlight, Lapses PROVE Lapsed' /\ InFlight' /\ Published' = {}
  <2>1. /\ Len(builds') = Len(builds) /\ builds' # <<>>
        /\ \A i \in 1..Len(builds) : builds'[i].status = builds[i].status
        /\ Len(builds) \in 1..Len(builds)
    BY <1>1, <1>2, <1>6, Lapsing
  <2>2. builds'[Len(builds)].live = FALSE
    <3>1. builds[Len(builds)] \in Build
      BY <1>1, <2>1
    <3>2. QED BY <1>1, <1>6, <2>1, <3>1 DEF Lapses, Build
  <2>3. InFlight'
    BY <1>2, <1>6, <2>1 DEF InFlight, LatestStatus, Latest
  <2>4. Lapsed'
    BY <2>1, <2>2, <2>3 DEF Lapsed, Latest
  <2>5. QED BY <1>3, <1>6, <2>1, <2>3, <2>4 DEF Published
<1>7. QED BY <1>3, <1>4, <1>5, <1>6 DEF Lapsed, Published

-----------------------------------------------------------------------------
(* The conjuncts of the invariant, each over all steps *)

\* The types are kept.
LEMMA Types ==
  ASSUME IInv, [Next]_vars
  PROVE  TypeOK'
<1>0. /\ TypeOK /\ builds' \in Seq(Build)
      /\ Len(builds) \in Nat /\ Len(builds') \in Nat /\ Len(builds') >= Len(builds)
  BY Table DEF IInv, TypeOK
<1> USE <1>0 DEF TypeOK, Goto, Observe, Return, InTransaction, Ended, ImageAssumption
<1>1. ASSUME NEW c \in Caller, Ensure(c) PROVE TypeOK'
  BY <1>1, ImageAssumption, Answers DEF Ensure
<1>2. ASSUME NEW c \in Caller, Expire(c) PROVE TypeOK'
  BY <1>2, ImageAssumption, Answers DEF Expire, Lapsed, InFlight
<1>3. ASSUME NEW c \in Caller, LatestRow(c) PROVE TypeOK'
  <2>1. got' \in [Caller -> Answer]
    BY <1>3, Answers DEF LatestRow
  <2>2. observed' \in [Caller -> 0..Len(builds')]
    BY <1>3 DEF LatestRow
  <2>3. QED BY <1>3, <2>1, <2>2 DEF LatestRow
<1>4. ASSUME NEW c \in Caller, Insert(c) PROVE TypeOK'
  BY <1>4, ImageAssumption, Answers DEF Insert, Conflicts
<1>5. ASSUME NEW c \in Caller, Check(c) PROVE TypeOK'
  <2>1. got' \in [Caller -> Answer]
    BY <1>5, Answers DEF Check, ReadyRows, Rows
  <2>2. observed' \in [Caller -> 0..Len(builds')]
    BY <1>5 DEF Check, ReadyRows, Rows
  <2>3. pc' \in [Caller -> InTransaction \cup Ended \cup {"idle", "poll", "build"}]
    BY <1>5 DEF Check
  <2>4. QED BY <1>5, <2>1, <2>2, <2>3 DEF Check, Unlock
<1>6. ASSUME NEW c \in Caller, Commit(c) PROVE TypeOK'
  <2>1. Len(builds') = Len(builds) + 1
    BY <1>6, Claiming, ImageAssumption DEF Commit, IInv, LockInv, ImageAssumption
  <2>2. observed' \in [Caller -> 0..Len(builds')]
    BY <1>6, <2>1 DEF Commit
  <2>3. QED BY <1>6, <2>2 DEF Commit, Unlock
<1>7. ASSUME NEW c \in Caller, Poll(c) PROVE TypeOK'
  <2>1. observed[c] \in Nat
    BY <1>7
  <2>2. got' \in [Caller -> Answer]
    BY <1>7, <2>1, Answers DEF Poll
  <2>3. observed' \in [Caller -> 0..Len(builds')]
    BY <1>7 DEF Poll
  <2>4. QED BY <1>7, <2>2, <2>3 DEF Poll
<1>8. ASSUME NEW c \in Caller, ClaimFails(c) PROVE TypeOK'
  BY <1>8, ImageAssumption, Answers DEF ClaimFails, Fault, Unlock
<1>9. ASSUME NEW c \in Caller, PollFails(c) PROVE TypeOK'
  BY <1>9, ImageAssumption, Answers DEF PollFails, Fault
<1>10. ASSUME NEW c \in Caller, Crash(c) PROVE TypeOK'
  BY <1>10, ImageAssumption, Answers DEF Crash, Fault, Unlock
<1>11. ASSUME NEW c \in Caller, NEW s \in {"ready", "failed"}, Finish(c, s) PROVE TypeOK'
  <2>1. observed[c] \in Nat
    BY <1>11
  <2>2. \E a \in Answer : Return(c, a)
    BY <1>11, <2>1, Answers DEF Finish
  <2>3. QED BY <1>11, <2>2, ImageAssumption DEF Finish, Fault
<1>12. ASSUME Sweep PROVE TypeOK'
  BY <1>12, ImageAssumption, Answers DEF Sweep
<1>13. ASSUME Lapse PROVE TypeOK'
  BY <1>13, ImageAssumption, Answers DEF Lapse, Fault
<1>14. CASE UNCHANGED vars
  BY <1>14 DEF vars
<1>15. QED BY <1>1, <1>2, <1>3, <1>4, <1>5, <1>6, <1>7,
           <1>8, <1>9, <1>10, <1>11, <1>12, <1>13, <1>14 DEF Next, Step

\* Locks are held by transactions, and released with them.
LEMMA Locks ==
  ASSUME IInv, [Next]_vars
  PROVE  LockInv'
<1>0. /\ pc = [c \in Caller |-> pc[c]] /\ got = [c \in Caller |-> got[c]]
      /\ expiring \in Caller \cup {Nobody} /\ inserting \in Caller \cup {Nobody}
  BY DEF IInv, TypeOK
<1> USE <1>0 DEF IInv, LockInv, IndexInv, CheckedInv, Goto, Observe, Return, InTransaction, ImageAssumption
<1>1. ASSUME NEW c \in Caller, Ensure(c) PROVE LockInv'
  BY <1>1, ImageAssumption, States DEF Ensure
<1>2. ASSUME NEW c \in Caller, Expire(c) PROVE LockInv'
  BY <1>2, ImageAssumption, States DEF Expire
<1>3. ASSUME NEW c \in Caller, LatestRow(c) PROVE LockInv'
  BY <1>3, ImageAssumption, States DEF LatestRow, InFlight
<1>4. ASSUME NEW c \in Caller, Insert(c) PROVE LockInv'
  BY <1>4, ImageAssumption, States DEF Insert, Conflicts
<1>5. ASSUME NEW c \in Caller, Check(c) PROVE LockInv'
  BY <1>5, ImageAssumption, States DEF Check, ReadyRows, Rows, Unlock, AfterExpire, Published
<1>6. ASSUME NEW c \in Caller, Commit(c) PROVE LockInv'
  BY <1>6, ImageAssumption, States DEF Commit, Unlock
<1>7. ASSUME NEW c \in Caller, Poll(c) PROVE LockInv'
  BY <1>7, ImageAssumption, States DEF Poll
<1>8. ASSUME NEW c \in Caller, ClaimFails(c) PROVE LockInv'
  BY <1>8, ImageAssumption, States DEF ClaimFails, Fault, Unlock
<1>9. ASSUME NEW c \in Caller, PollFails(c) PROVE LockInv'
  BY <1>9, ImageAssumption, States DEF PollFails, Fault
<1>10. ASSUME NEW c \in Caller, Crash(c) PROVE LockInv'
  BY <1>10, ImageAssumption, States DEF Crash, Fault, Unlock
<1>11. ASSUME NEW c \in Caller, NEW s \in {"ready", "failed"}, Finish(c, s) PROVE LockInv'
  BY <1>11, ImageAssumption, States DEF Finish, Fault, Holds
<1>12. ASSUME Sweep PROVE LockInv'
  BY <1>12, ImageAssumption, States DEF Sweep, Expired
<1>13. ASSUME Lapse PROVE LockInv'
  BY <1>13, ImageAssumption, States DEF Lapse, Fault, Lapses
<1>14. CASE UNCHANGED vars
  BY <1>14, States DEF vars
<1>15. QED BY <1>1, <1>2, <1>3, <1>4, <1>5, <1>6, <1>7,
           <1>8, <1>9, <1>10, <1>11, <1>12, <1>13, <1>14 DEF Next, Step

\* The index admits one row.
LEMMA Index ==
  ASSUME IInv, [Next]_vars
  PROVE  IndexInv'
<1>0. /\ pc = [c \in Caller |-> pc[c]] /\ got = [c \in Caller |-> got[c]]
      /\ expiring \in Caller \cup {Nobody} /\ inserting \in Caller \cup {Nobody}
  BY DEF IInv, TypeOK
<1> USE <1>0 DEF IInv, LockInv, IndexInv, CheckedInv, Goto, Observe, Return, InTransaction, ImageAssumption
<1>1. ASSUME NEW c \in Caller, Ensure(c) PROVE IndexInv'
  BY <1>1, ImageAssumption, States DEF Ensure
<1>2. ASSUME NEW c \in Caller, Expire(c) PROVE IndexInv'
  BY <1>2, ImageAssumption, States DEF Expire
<1>3. ASSUME NEW c \in Caller, LatestRow(c) PROVE IndexInv'
  BY <1>3, ImageAssumption, States DEF LatestRow, InFlight
<1>4. ASSUME NEW c \in Caller, Insert(c) PROVE IndexInv'
  BY <1>4, ImageAssumption, States DEF Insert, Conflicts
<1>5. ASSUME NEW c \in Caller, Check(c) PROVE IndexInv'
  BY <1>5, ImageAssumption, States DEF Check, ReadyRows, Rows, Unlock, AfterExpire, Published
<1>6. ASSUME NEW c \in Caller, Commit(c) PROVE IndexInv'
  BY <1>6, ImageAssumption, States DEF Commit, Unlock
<1>7. ASSUME NEW c \in Caller, Poll(c) PROVE IndexInv'
  BY <1>7, ImageAssumption, States DEF Poll
<1>8. ASSUME NEW c \in Caller, ClaimFails(c) PROVE IndexInv'
  BY <1>8, ImageAssumption, States DEF ClaimFails, Fault, Unlock
<1>9. ASSUME NEW c \in Caller, PollFails(c) PROVE IndexInv'
  BY <1>9, ImageAssumption, States DEF PollFails, Fault
<1>10. ASSUME NEW c \in Caller, Crash(c) PROVE IndexInv'
  BY <1>10, ImageAssumption, States DEF Crash, Fault, Unlock
<1>11. ASSUME NEW c \in Caller, NEW s \in {"ready", "failed"}, Finish(c, s) PROVE IndexInv'
  BY <1>11, ImageAssumption, States DEF Finish, Fault, Holds
<1>12. ASSUME Sweep PROVE IndexInv'
  BY <1>12, ImageAssumption, States DEF Sweep, Expired
<1>13. ASSUME Lapse PROVE IndexInv'
  BY <1>13, ImageAssumption, States DEF Lapse, Fault, Lapses
<1>14. CASE UNCHANGED vars
  BY <1>14, States DEF vars
<1>15. QED BY <1>1, <1>2, <1>3, <1>4, <1>5, <1>6, <1>7,
           <1>8, <1>9, <1>10, <1>11, <1>12, <1>13, <1>14 DEF Next, Step

\* Nothing is published between the check of a claim and its commit.
LEMMA Checked ==
  ASSUME IInv, [Next]_vars
  PROVE  CheckedInv'
<1>0. /\ pc = [c \in Caller |-> pc[c]] /\ got = [c \in Caller |-> got[c]]
      /\ expiring \in Caller \cup {Nobody} /\ inserting \in Caller \cup {Nobody}
  BY DEF IInv, TypeOK
<1> USE <1>0 DEF IInv, LockInv, IndexInv, CheckedInv, Goto, Observe, Return, InTransaction, ImageAssumption
<1>1. ASSUME NEW c \in Caller, Ensure(c) PROVE CheckedInv'
  BY <1>1, ImageAssumption, States DEF Ensure
<1>2. ASSUME NEW c \in Caller, Expire(c) PROVE CheckedInv'
  BY <1>2, ImageAssumption, States DEF Expire
<1>3. ASSUME NEW c \in Caller, LatestRow(c) PROVE CheckedInv'
  BY <1>3, ImageAssumption, States DEF LatestRow, InFlight
<1>4. ASSUME NEW c \in Caller, Insert(c) PROVE CheckedInv'
  BY <1>4, ImageAssumption, States DEF Insert, Conflicts
<1>5. ASSUME NEW c \in Caller, Check(c) PROVE CheckedInv'
  BY <1>5, ImageAssumption, States DEF Check, ReadyRows, Rows, Unlock, AfterExpire, Published
<1>6. ASSUME NEW c \in Caller, Commit(c) PROVE CheckedInv'
  BY <1>6, ImageAssumption, States DEF Commit, Unlock
<1>7. ASSUME NEW c \in Caller, Poll(c) PROVE CheckedInv'
  BY <1>7, ImageAssumption, States DEF Poll
<1>8. ASSUME NEW c \in Caller, ClaimFails(c) PROVE CheckedInv'
  BY <1>8, ImageAssumption, States DEF ClaimFails, Fault, Unlock
<1>9. ASSUME NEW c \in Caller, PollFails(c) PROVE CheckedInv'
  BY <1>9, ImageAssumption, States DEF PollFails, Fault
<1>10. ASSUME NEW c \in Caller, Crash(c) PROVE CheckedInv'
  BY <1>10, ImageAssumption, States DEF Crash, Fault, Unlock
<1>11. ASSUME NEW c \in Caller, NEW s \in {"ready", "failed"}, Finish(c, s) PROVE CheckedInv'
  BY <1>11, ImageAssumption, States DEF Finish, Fault, Holds
<1>12. ASSUME Sweep PROVE CheckedInv'
  BY <1>12, ImageAssumption, States DEF Sweep, Expired
<1>13. ASSUME Lapse PROVE CheckedInv'
  BY <1>13, ImageAssumption, States DEF Lapse, Fault, Lapses
<1>14. CASE UNCHANGED vars
  BY <1>14, States DEF vars
<1>15. QED BY <1>1, <1>2, <1>3, <1>4, <1>5, <1>6, <1>7,
           <1>8, <1>9, <1>10, <1>11, <1>12, <1>13, <1>14 DEF Next, Step

\* Who polls or builds knows a row.
LEMMA Seen ==
  ASSUME IInv, [Next]_vars
  PROVE  SeenInv'
<1>0. /\ pc = [c \in Caller |-> pc[c]] /\ observed = [c \in Caller |-> observed[c]] /\ SeenInv
      /\ Len(builds) \in Nat /\ (builds # <<>> => Len(builds) # 0)
  BY DEF IInv, TypeOK
<1> USE <1>0 DEF SeenInv, Goto, Observe, Return, InTransaction
<1>1. ASSUME NEW c \in Caller, Ensure(c) PROVE SeenInv'
  BY <1>1 DEF Ensure
<1>2. ASSUME NEW c \in Caller, Expire(c) PROVE SeenInv'
  BY <1>2 DEF Expire
<1>3. ASSUME NEW c \in Caller, LatestRow(c) PROVE SeenInv'
  BY <1>3 DEF LatestRow, InFlight, InFlight, LatestStatus
<1>4. ASSUME NEW c \in Caller, Insert(c) PROVE SeenInv'
  BY <1>4 DEF Insert, Conflicts
<1>5. ASSUME NEW c \in Caller, Check(c) PROVE SeenInv'
  BY <1>5 DEF Check, ReadyRows, Rows
<1>6. ASSUME NEW c \in Caller, Commit(c) PROVE SeenInv'
  BY <1>6 DEF Commit
<1>7. ASSUME NEW c \in Caller, Poll(c) PROVE SeenInv'
  BY <1>7 DEF Poll
<1>8. ASSUME NEW c \in Caller, ClaimFails(c) PROVE SeenInv'
  BY <1>8 DEF ClaimFails, Fault
<1>9. ASSUME NEW c \in Caller, PollFails(c) PROVE SeenInv'
  BY <1>9 DEF PollFails, Fault
<1>10. ASSUME NEW c \in Caller, Crash(c) PROVE SeenInv'
  BY <1>10 DEF Crash, Fault, Unlock
<1>11. ASSUME NEW c \in Caller, NEW s \in {"ready", "failed"}, Finish(c, s) PROVE SeenInv'
  BY <1>11 DEF Finish, Fault
<1>12. ASSUME Sweep PROVE SeenInv'
  BY <1>12 DEF Sweep
<1>13. ASSUME Lapse PROVE SeenInv'
  BY <1>13 DEF Lapse, Fault
<1>14. CASE UNCHANGED vars
  BY <1>14 DEF vars
<1>15. QED BY <1>1, <1>2, <1>3, <1>4, <1>5, <1>6, <1>7,
           <1>8, <1>9, <1>10, <1>11, <1>12, <1>13, <1>14 DEF Next, Step

\* Everybody gets what is published, and publishing happens once.
LEMMA Same ==
  ASSUME IInv, [Next]_vars
  PROVE  SameImage'
<1>0. /\ pc = [c \in Caller |-> pc[c]] /\ got = [c \in Caller |-> got[c]]
      /\ SameImage /\ (Published # {} => Published' = Published)
      /\ Published \subseteq {Len(builds)} /\ (builds' = builds => Published' = Published)
  BY Table, States DEF IInv, TypeOK, LastInv, Published
<1> USE <1>0 DEF SameImage, Goto, Observe, Return, InTransaction
<1>1. ASSUME NEW c \in Caller, Ensure(c) PROVE SameImage'
  BY <1>1 DEF Ensure
<1>2. ASSUME NEW c \in Caller, Expire(c) PROVE SameImage'
  BY <1>2 DEF Expire
<1>3. ASSUME NEW c \in Caller, LatestRow(c) PROVE SameImage'
  BY <1>3 DEF LatestRow, InFlight, LatestStatus, Latest, Published
<1>4. ASSUME NEW c \in Caller, Insert(c) PROVE SameImage'
  BY <1>4 DEF Insert, Conflicts
<1>5. ASSUME NEW c \in Caller, Check(c) PROVE SameImage'
  BY <1>5 DEF Check, ReadyRows, Rows, Published
<1>6. ASSUME NEW c \in Caller, Commit(c) PROVE SameImage'
  BY <1>6 DEF Commit
<1>7. ASSUME NEW c \in Caller, Poll(c) PROVE SameImage'
  <2>1. observed[c] \in 1..Len(builds)
    BY <1>7 DEF Poll, IInv, TypeOK, SeenInv
  <2>2. builds[observed[c]].status = "ready" => Published = {observed[c]}
    BY <1>0, <2>1 DEF Published
  <2>3. QED BY <1>7, <2>2 DEF Poll, Error
<1>8. ASSUME NEW c \in Caller, ClaimFails(c) PROVE SameImage'
  BY <1>8 DEF ClaimFails, Fault, Error
<1>9. ASSUME NEW c \in Caller, PollFails(c) PROVE SameImage'
  BY <1>9 DEF PollFails, Fault, Error
<1>10. ASSUME NEW c \in Caller, Crash(c) PROVE SameImage'
  BY <1>10 DEF Crash, Fault, Unlock
<1>11. ASSUME NEW c \in Caller, NEW s \in {"ready", "failed"}, Finish(c, s) PROVE SameImage'
  <2>1. Holds(c) /\ builds' = Marked("ready") => Published' = {observed[c]} /\ Published = {}
    BY <1>11, States DEF Holds
  <2>2. CASE Return(c, Error)
    BY <1>0, <2>2 DEF Error
  <2>3. CASE Holds(c) /\ builds' = Marked("ready") /\ Return(c, [kind |-> "image", build |-> observed[c]])
    BY <1>0, <2>1, <2>3
  <2>4. QED BY <1>11, <2>2, <2>3 DEF Finish
<1>12. ASSUME Sweep PROVE SameImage'
  BY <1>12 DEF Sweep
<1>13. ASSUME Lapse PROVE SameImage'
  BY <1>13 DEF Lapse, Fault
<1>14. CASE UNCHANGED vars
  BY <1>14 DEF vars
<1>15. QED BY <1>1, <1>2, <1>3, <1>4, <1>5, <1>6, <1>7,
           <1>8, <1>9, <1>10, <1>11, <1>12, <1>13, <1>14 DEF Next, Step

\* Only a fault takes a build from its caller.
LEMMA Own ==
  ASSUME IInv, [Next]_vars
  PROVE  OwnInv'
<1>0. /\ pc = [c \in Caller |-> pc[c]] /\ observed = [c \in Caller |-> observed[c]]
      /\ OwnInv /\ LockInv /\ IndexInv /\ faults \in Nat
  BY DEF IInv, TypeOK
<1> USE <1>0 DEF OwnInv, Goto, Observe, Return, InTransaction
<1>1. ASSUME NEW c \in Caller, Ensure(c) PROVE OwnInv'
  BY <1>1 DEF Ensure, Holds, InFlight, Latest, LatestStatus
<1>2. ASSUME NEW c \in Caller, Expire(c) PROVE OwnInv'
  BY <1>2 DEF Expire, Holds, InFlight, Latest, LatestStatus
<1>3. ASSUME NEW c \in Caller, LatestRow(c) PROVE OwnInv'
  BY <1>3 DEF LatestRow, InFlight, Holds, Latest, LatestStatus
<1>4. ASSUME NEW c \in Caller, Insert(c) PROVE OwnInv'
  BY <1>4 DEF Insert, Conflicts, Holds, InFlight, Latest, LatestStatus
<1>5. ASSUME NEW c \in Caller, Check(c) PROVE OwnInv'
  <2>1. CASE builds' = builds
    BY <1>5, <2>1 DEF Check, Holds, InFlight, Latest, LatestStatus
  <2>2. CASE builds' # builds
    <3>1. c # Nobody /\ expiring = c /\ Lapsed
      BY <1>5, <2>2, ImageAssumption DEF Check, AfterExpire, LockInv, ImageAssumption
    <3>2. faults = 0 => \A d \in Caller : pc[d] # "build"
      BY <3>1 DEF Holds, Lapsed, Latest
    <3>3. QED BY <1>5, <3>2 DEF Check
  <2>3. QED BY <2>1, <2>2
<1>6. ASSUME NEW c \in Caller, Commit(c) PROVE OwnInv'
  <2>1. inserting = c /\ c # Nobody
    BY <1>6, ImageAssumption DEF Commit, LockInv, ImageAssumption
  <2>2. InFlight => Lapsed
    BY <2>1 DEF IndexInv, LockInv
  <2>3. faults = 0 => \A d \in Caller : pc[d] # "build"
    BY <2>2 DEF Holds, Lapsed, Latest
  <2>4. /\ Len(builds') = Len(builds) + 1 /\ builds \in Seq(Build) /\ builds' \in Seq(Build)
        /\ builds'[Len(builds) + 1] = [status |-> "building", owner |-> c, live |-> TRUE]
    BY <1>6, <2>1, Claiming DEF Commit, IInv, LockInv, TypeOK
  <2>5. Len(builds) \in Nat /\ builds' # <<>>
    BY <2>4
  <2>6. observed'[c] = Len(builds')
    BY <1>6, <2>4 DEF Commit
  <2>7. Holds(c)'
    BY <2>4, <2>5, <2>6 DEF Holds, InFlight, LatestStatus, Latest
  <2>8. QED BY <1>6, <2>3, <2>7 DEF Commit
<1>7. ASSUME NEW c \in Caller, Poll(c) PROVE OwnInv'
  BY <1>7 DEF Poll, Holds, InFlight, Latest, LatestStatus
<1>8. ASSUME NEW c \in Caller, ClaimFails(c) PROVE OwnInv'
  BY <1>8 DEF ClaimFails, Fault, Holds, InFlight, Latest, LatestStatus
<1>9. ASSUME NEW c \in Caller, PollFails(c) PROVE OwnInv'
  BY <1>9 DEF PollFails, Fault, Holds, InFlight, Latest, LatestStatus
<1>10. ASSUME NEW c \in Caller, Crash(c) PROVE OwnInv'
  BY <1>10 DEF Crash, Fault, Unlock, Holds, InFlight, Latest, LatestStatus
<1>11. ASSUME NEW c \in Caller, NEW s \in {"ready", "failed"}, Finish(c, s) PROVE OwnInv'
  BY <1>11 DEF Finish, Fault, Holds, InFlight, Latest, LatestStatus
<1>12. ASSUME Sweep PROVE OwnInv'
  BY <1>12 DEF Sweep, Holds, InFlight, Latest, LatestStatus, Lapsed
<1>13. ASSUME Lapse PROVE OwnInv'
  BY <1>13 DEF Lapse, Fault, Holds, InFlight, Latest, LatestStatus, Renewed
<1>14. CASE UNCHANGED vars
  BY <1>14 DEF vars, Holds, InFlight, Latest, LatestStatus
<1>15. QED BY <1>1, <1>2, <1>3, <1>4, <1>5, <1>6, <1>7,
           <1>8, <1>9, <1>10, <1>11, <1>12, <1>13, <1>14 DEF Next, Step

-----------------------------------------------------------------------------
(* The theorems *)

LEMMA Start == Init => IInv
BY ImageAssumption DEF ImageAssumption, Init, IInv, TypeOK, LastInv, LockInv, IndexInv, CheckedInv,
   SeenInv, SameImage, OwnInv, Published, InTransaction, NoAnswer, Answer

\* The inductive invariant: only the last row is open or ready, locks belong to
\* transactions, the index admits one claim, what a claim checked stays so until
\* it commits, and without a fault a build stays with its caller.
THEOREM ImageInductive == Spec => []IInv
<1>1. ASSUME IInv, [Next]_vars PROVE IInv'
  BY <1>1, Table, Types, Locks, Index, Checked, Seen, Same, Own DEF IInv
<1>2. QED BY <1>1, Start, PTL DEF Spec

\* Every variable keeps its type.
THEOREM ImageTypes == Spec => []TypeOK
<1>1. IInv => TypeOK
  BY DEF IInv
<1>2. QED BY <1>1, ImageInductive, PTL

\* All callers on all workers that get an image get the same.
THEOREM ImagesAgree == Spec => []SameImage
<1>1. IInv => SameImage
  BY DEF IInv
<1>2. QED BY <1>1, ImageInductive, PTL

\* Without a fault one caller builds at a time.
THEOREM OneBuilds == Spec => []OneBuilder
<1>1. IInv => OneBuilder
  BY DEF IInv, OwnInv, OneBuilder, Holds
<1>2. QED BY <1>1, ImageInductive, PTL

\* Once an image is ready no statement of any caller, late or not, changes a row.
THEOREM ImageIsFinal == Spec => ReadyIsFinal
<1>1. ASSUME IInv, [Next]_vars PROVE [Published # {} => builds' = builds]_vars
  BY <1>1, Table
<1>2. QED BY <1>1, ImageInductive, PTL DEF Spec, ReadyIsFinal
=============================================================================
