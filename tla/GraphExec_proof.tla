--------------------------- MODULE GraphExec_proof ---------------------------
(***************************************************************************)
(* Proofs about GraphExec, for any tree of actions, any prerequisites, any *)
(* number of slots, claims and faults: its types, the conservation of      *)
(* slots, that attempts are exclusive and shown as what they are, that     *)
(* what the executor acts on is what is stored, when an executor gives up, *)
(* and that the rows keep the promises of RunLedger.                       *)
(***************************************************************************)
EXTENDS GraphExec, FiniteSetTheorems, TLAPS

-----------------------------------------------------------------------------
(* The inductive invariant *)

\* Where a goroutine stands says what its node may be: as it left it, or closed.
ExecInv ==
  \A n \in Node :
    /\ exec[n] \in {"start", "cache", "slot", "got"} => node[n].state \in {"ready"} \cup Final
    /\ exec[n] = "image" => node[n].state \in {"image"} \cup Final
    /\ exec[n] \in {"run", "exit"} =>
         node[n].state \in {"running", "children"} \cup Final /\ node[n].attempt > 0

\* An attempt is registered for as long as its task runs.
ActiveInv ==
  \A n \in Node :
    /\ active[n].on <=> exec[n] \in {"run", "exit"}
    /\ ~active[n].on => active[n] = Inactive

\* Calls are made by running tasks, and an action that is being added is not in
\* the graph yet but has its row.
CallsInv ==
  \A c \in Child :
    /\ call[c] \notin {"idle", "returned"} \/ c \in adding => exec[Parent[c]] \in {"run", "exit"}
    /\ c \in adding => c \notin Known /\ stored[c].state # "absent"

\* resumeMu: one call at a time resumes an attempt, and only one without a slot.
ResumePcs == {"mutex", "look", "acquire", "have"}
ResumeInv ==
  /\ \A c, d \in Child :
       call[c] \in ResumePcs /\ call[d] \in ResumePcs /\ Parent[c] = Parent[d] => c = d
  /\ \A c \in Child : call[c] \in {"acquire", "have"} => ~active[Parent[c]].held

\* The waiters of an attempt are the calls that wait.
Waiters(p) == {c \in Children(p) : call[c] = "wait"}
WaitersInv == \A p \in Node : active[p].waiters = Cardinality(Waiters(p))

\* What is left of an executor that ended, and of one that is about to.
RunInv ==
  /\ run = "down" => /\ ~lease /\ ~err
                     /\ \A n \in Node : exec[n] = "none" /\ node[n].state = "absent"
  /\ run \in {"down", "drain"} \/ err => ~ctx

\* Rows are created by callers that ran, and are found where they were left.
RowInv ==
  /\ \A n \in Node : stored[n].state = "absent" => stored[n].attempt = 0 /\ stored[n].failures = 0
  /\ \A c \in Child : stored[c].state # "absent" => stored[Parent[c]].attempt > 0
  /\ \A n \in Node : stored[n].attempt > 0 =>
       stored[n].state # "absent" /\ \A p \in Prereq[n] : stored[p].state = "done"
  /\ stored[Root].state # "absent"

\* Rows that are not in the graph of an executor were not touched by it: they were
\* created since it started.
RestInv ==
  /\ ~err /\ lease => \A n \in Node \ Known : stored[n].state \notin {"running", "waiting"}
  /\ run # "down" => \A n \in Node \ Known : stored[n].attempt = 0

\* The graph in memory: a caller is in it and has run, and what was dispatched once
\* has all its prerequisites.
NodeInv ==
  /\ \A c \in Child : c \in Known => Parent[c] \in Known /\ node[Parent[c]].attempt > 0
  /\ \A n \in Known :
       node[n].attempt > 0 \/ node[n].state \in {"ready", "image", "running", "children"} =>
         \A p \in Prereq[n] : node[p].state = "done"

\* Before the first claim there is the root's row only.
FirstInv == claims = 0 => run = "down" /\ \A c \in Child : stored[c].state = "absent"

Inv ==
  /\ TypeOK /\ ExecInv /\ ActiveInv /\ CallsInv /\ ResumeInv /\ WaitersInv /\ RunInv /\ RowInv
  /\ RestInv /\ NodeInv /\ FirstInv
  /\ SlotConservation /\ OneAttempt /\ HeldIffRunning /\ CommittedIsVisible /\ SubtreeClosed

\* A claim is only lost by a fault.
FaultInv == faults = 0 /\ run # "down" => lease

-----------------------------------------------------------------------------
(* What a commit does                                                      *)

NodeRecord == [state : States, attempt : Nat, failures : Nat, backoff : BOOLEAN]
RowRecord == [state : Rows, attempt : Nat, failures : Nat, backoff : BOOLEAN]

\* What a critical section may make of an open node: another state, the next attempt,
\* a retry, or the failure of the attempt.
Lawful(n, s) ==
  /\ n \in Known /\ ~Terminal(n) /\ s \in NodeRecord /\ s.state # "absent"
  /\ \/ /\ s = [node[n] EXCEPT !.state = s.state]
        /\ node[n].state = "pending" /\ s.state \notin Final =>
             \A p \in Prereq[n] : node[p].state = "done"
     \/ /\ node[n].state = "ready" /\ s.state = "running"
        /\ s.attempt = node[n].attempt + 1 /\ s.failures = node[n].failures
     \/ /\ node[n].state \in {"running", "children"} /\ s.attempt = node[n].attempt
        /\ s.failures = node[n].failures + 1
        /\ \/ s.state = "failed"
           \/ s.state = "pending" /\ node[n].failures + 1 < MaxAttempts[n]

\* Seen from one row: nothing, or a lawful write by the holder of the claim, which the
\* node shares unless the executor gives up.
Written(n) ==
  \/ node'[n] = node[n] /\ stored'[n] = stored[n]
  \/ /\ ~err /\ lease
     /\ \E s \in NodeRecord : /\ Lawful(n, s) /\ stored'[n] = RowOf(s)
                              /\ \/ node'[n] = s
                                 \/ node'[n] = node[n] /\ err'

Writing ==
  /\ node' \in [Node -> NodeRecord] /\ stored' \in [Node -> RowRecord]
  /\ err' \in BOOLEAN /\ wake' \in BOOLEAN /\ ctx' \in BOOLEAN /\ faults' \in Nat
  /\ \A n \in Node : Written(n)
  /\ err => err'
  /\ ctx' => ctx /\ (err' => err)

\* The row of a node is a row, and that of an absent node none.
LEMMA RowOf_type ==
  ASSUME NEW r \in NodeRecord
  PROVE  /\ RowOf(r) \in RowRecord
         /\ RowOf(r).attempt = r.attempt /\ RowOf(r).failures = r.failures
         /\ RowOf(r).backoff = r.backoff /\ RowOf(r).state = Status(r.state)
         /\ r.state \in Final => RowOf(r) = r
<1>1. Status(r.state) \in Rows
  BY DEF NodeRecord, States, Rows, Final, Status
<1>2. r.state \in Final => Status(r.state) = r.state
  BY DEF Final, Status
<1> QED
  BY <1>1, <1>2 DEF RowOf, NodeRecord, RowRecord

\* Resetting and restoring agree, and keep what was counted.
LEMMA Restored ==
  ASSUME NEW r \in RowRecord
  PROVE  /\ Reset(r) \in RowRecord /\ NodeOf(r) \in NodeRecord
         /\ NodeOf(r).attempt = r.attempt /\ NodeOf(r).failures = r.failures
         /\ Reset(r).attempt = r.attempt /\ Reset(r).failures = r.failures
         /\ NodeOf(r).state \in Final \cup {"absent", "pending"}
         /\ Reset(r).state \notin {"running", "waiting"}
         /\ \A x \in Final \cup {"absent"} :
              /\ NodeOf(r).state = x <=> r.state = x
              /\ Reset(r).state = x <=> r.state = x
         /\ r.state \in Final \cup {"absent"} => Reset(r) = r /\ NodeOf(r) = r
         /\ RowOf(NodeOf(r)) = Reset(r)
         /\ r.state \notin {"running", "waiting"} => Reset(r) = r
BY DEF RowRecord, NodeRecord, Rows, States, Final, Reset, NodeOf, RowOf, Status

\* The flags of a worker are truth values.
LEMMA Flags == TypeOK => wake \in BOOLEAN /\ err \in BOOLEAN /\ ctx \in BOOLEAN /\ lease \in BOOLEAN
BY DEF TypeOK

\* A commit that succeeds writes every node it was given.
LEMMA Commit_writes ==
  ASSUME TypeOK, NEW upd, NEW live, DOMAIN upd \subseteq Node,
         \A n \in DOMAIN upd : Lawful(n, upd[n]), Writes(upd, live), ctx' = ctx \/ ctx' = FALSE
  PROVE  /\ Writing /\ err' = err /\ faults' = faults
         /\ \A n \in Node : node'[n] = IF n \in DOMAIN upd THEN upd[n] ELSE node[n]
<1>1. /\ node' = [n \in Node |-> IF n \in DOMAIN upd THEN upd[n] ELSE node[n]]
      /\ stored' = [n \in Node |-> IF n \in DOMAIN upd THEN RowOf(upd[n]) ELSE stored[n]]
      /\ err' = err /\ faults' = faults /\ wake' \in BOOLEAN
  BY DEF Writes, NodesWith, RowsWith, TypeOK
<1>2. \A n \in DOMAIN upd : upd[n] \in NodeRecord /\ RowOf(upd[n]) \in RowRecord
  BY RowOf_type DEF Lawful
<1>3. node' \in [Node -> NodeRecord] /\ stored' \in [Node -> RowRecord]
  BY <1>1, <1>2 DEF TypeOK, NodeRecord, RowRecord
<1>4. DOMAIN upd # {} => ~err /\ lease
  BY DEF Writes, Refused
<1>5. \A n \in Node : Written(n)
  BY <1>1, <1>2, <1>4 DEF Written
<1>6. ctx' => ctx
  BY Flags
<1>7. ctx' \in BOOLEAN
  BY Flags
<1>8. err' \in BOOLEAN /\ faults' \in Nat
  BY <1>1, Flags DEF TypeOK
<1>9. (err => err') /\ (err' => err)
  BY <1>1
<1> QED
  BY <1>1, <1>3, <1>5, <1>6, <1>7, <1>8, <1>9 DEF Writing

\* One that fails may have written some, and one more row.
LEMMA Fail_writes ==
  ASSUME TypeOK, NEW upd, NEW order, NEW live, DOMAIN upd \subseteq Node,
         order \subseteq SUBSET DOMAIN upd,
         \A n \in DOMAIN upd : Lawful(n, upd[n]), CommitFails(upd, order, live)
  PROVE  /\ Writing /\ err' /\ ~ctx'
         /\ Refused(upd, live) \/ faults' > 0
         /\ \A n \in Node : node'[n] # node[n] => n \in DOMAIN upd /\ node'[n] = upd[n]
<1>1. PICK S \in order :
        /\ \/ Refused(upd, live) /\ S = {} /\ UNCHANGED <<stored, faults>>
           \/ /\ ~Refused(upd, live) /\ faults' = faults + 1
              /\ \E T \in order : S \subseteq T /\ stored' = RowsWith(upd, T)
        /\ node' = NodesWith(upd, S) /\ err' = TRUE /\ ctx' = FALSE /\ wake' = (wake \/ ~err)
  BY DEF CommitFails
<1>2. \A n \in DOMAIN upd : upd[n] \in NodeRecord /\ RowOf(upd[n]) \in RowRecord
  BY RowOf_type DEF Lawful
<1>3. node' \in [Node -> NodeRecord]
  BY <1>1, <1>2 DEF NodesWith, TypeOK, NodeRecord
<1>4. /\ wake' \in BOOLEAN /\ faults' \in Nat
      /\ \A n \in Node : node'[n] # node[n] => n \in DOMAIN upd /\ node'[n] = upd[n]
      /\ Refused(upd, live) \/ faults' > 0
  BY <1>1 DEF NodesWith, TypeOK
<1>5. CASE Refused(upd, live)
  <2>1. \A n \in Node : Written(n)
    BY <1>1, <1>5 DEF NodesWith, Written, TypeOK
  <2>2. stored' \in [Node -> RowRecord]
    BY <1>1, <1>5 DEF TypeOK, RowRecord
  <2> QED
    BY <1>1, <1>3, <1>4, <2>1, <2>2 DEF Writing
<1>6. CASE ~Refused(upd, live)
  <2>1. PICK T \in order : S \subseteq T /\ stored' = RowsWith(upd, T)
    BY <1>1, <1>6
  <2>2. stored' \in [Node -> RowRecord]
    BY <1>2, <2>1 DEF RowsWith, TypeOK, RowRecord
  <2>3. ~err /\ lease
    BY <1>6 DEF Refused
  <2>4. ASSUME NEW n \in Node PROVE Written(n)
    <3>1. CASE n \in T
      BY <1>1, <1>2, <2>1, <2>3, <3>1 DEF NodesWith, RowsWith, Written
    <3>2. CASE n \notin T
      BY <1>1, <2>1, <3>2 DEF NodesWith, RowsWith, Written
    <3> QED
      BY <3>1, <3>2
  <2> QED
    BY <1>1, <1>3, <1>4, <2>2, <2>4 DEF Writing
<1> QED
  BY <1>5, <1>6

\* Nothing is written.
LEMMA Silent_writes ==
  ASSUME TypeOK, UNCHANGED <<node, stored, err>>, wake' \in BOOLEAN, ctx' = ctx \/ ctx' = FALSE,
         faults' \in Nat
  PROVE  Writing
<1>1. ctx' => ctx
  BY Flags
<1>2. ctx' \in BOOLEAN
  BY Flags
<1>3. err' \in BOOLEAN
  BY Flags
<1>4. (err => err') /\ (err' => err)
  OBVIOUS
<1>5. /\ node' \in [Node -> NodeRecord] /\ stored' \in [Node -> RowRecord]
      /\ \A n \in Node : Written(n)
  BY DEF Written, TypeOK, NodeRecord, RowRecord
<1> QED
  BY <1>1, <1>2, <1>3, <1>4, <1>5 DEF Writing

-----------------------------------------------------------------------------
(* The values that are written                                             *)

\* Descendants are children.
LEMMA Descendants_type == \A n \in Node : Descendants[n] \subseteq Child /\ Descendants[n] \subseteq Node
BY DEF Descendants, Child

\* The records an attempt, an end and a retry leave are records of a node.
LEMMA Records ==
  ASSUME NEW r \in NodeRecord
  PROVE  LET b == [r EXCEPT !.state = "running", !.attempt = @ + 1, !.backoff = FALSE]
             f == [r EXCEPT !.state = "failed", !.failures = @ + 1]
             a == [f EXCEPT !.state = "pending", !.backoff = TRUE]
         IN /\ b \in NodeRecord /\ b.state = "running" /\ b.attempt = r.attempt + 1
            /\ b.failures = r.failures
            /\ f \in NodeRecord /\ f.state = "failed" /\ f.attempt = r.attempt
            /\ f.failures = r.failures + 1
            /\ a \in NodeRecord /\ a.state = "pending" /\ a.attempt = r.attempt
            /\ a.failures = r.failures + 1
<1> DEFINE b == [r EXCEPT !.state = "running", !.attempt = @ + 1, !.backoff = FALSE]
           f == [r EXCEPT !.state = "failed", !.failures = @ + 1]
<1>1. r.attempt + 1 \in Nat /\ r.failures + 1 \in Nat /\ {"running", "failed", "pending"} \subseteq States
  BY DEF NodeRecord, States, Final
<1>2. /\ b \in NodeRecord /\ b.state = "running" /\ b.attempt = r.attempt + 1
      /\ b.failures = r.failures
  BY <1>1 DEF NodeRecord
<1>3. /\ f \in NodeRecord /\ f.state = "failed" /\ f.attempt = r.attempt
      /\ f.failures = r.failures + 1
  BY <1>1 DEF NodeRecord
<1> HIDE DEF b, f
<1>4. LET a == [f EXCEPT !.state = "pending", !.backoff = TRUE]
      IN /\ a \in NodeRecord /\ a.state = "pending" /\ a.attempt = f.attempt
         /\ a.failures = f.failures
  BY <1>1, <1>3 DEF NodeRecord
<1> QED
  BY <1>2, <1>3, <1>4 DEF b, f

\* What Lawful admits: the next state, the count of attempts and that of failures.
LEMMA Lawful_values ==
  ASSUME TypeOK, NEW n \in Node, n \in Known, ~Terminal(n)
  PROVE  /\ \A s \in States \ {"absent"} :
              s \in Final \/ node[n].state # "pending" =>
                Lawful(n, [node[n] EXCEPT !.state = s])
         /\ \A s \in States \ {"absent"} :
              (\A p \in Prereq[n] : node[p].state = "done") =>
                Lawful(n, [node[n] EXCEPT !.state = s])
         /\ node[n].state = "ready" =>
              Lawful(n, [node[n] EXCEPT !.state = "running", !.attempt = @ + 1, !.backoff = FALSE])
         /\ node[n].state \in {"running", "children"} =>
              /\ Lawful(n, [node[n] EXCEPT !.state = "failed", !.failures = @ + 1])
              /\ node[n].failures + 1 < MaxAttempts[n] =>
                   Lawful(n, [[node[n] EXCEPT !.state = "failed", !.failures = @ + 1]
                                EXCEPT !.state = "pending", !.backoff = TRUE])
<1>1. node[n] \in NodeRecord
  BY DEF TypeOK, NodeRecord
<1>2. ASSUME NEW s \in States \ {"absent"},
             \/ s \in Final \/ node[n].state # "pending"
             \/ \A p \in Prereq[n] : node[p].state = "done"
      PROVE  Lawful(n, [node[n] EXCEPT !.state = s])
  <2>1. [node[n] EXCEPT !.state = s] \in NodeRecord /\ [node[n] EXCEPT !.state = s].state = s
    BY <1>1 DEF NodeRecord
  <2> QED
    BY <1>2, <2>1 DEF Lawful
<1>3. ASSUME node[n].state = "ready"
      PROVE  Lawful(n, [node[n] EXCEPT !.state = "running", !.attempt = @ + 1, !.backoff = FALSE])
  BY <1>1, <1>3, Records DEF Lawful
<1>4. ASSUME node[n].state \in {"running", "children"}
      PROVE  Lawful(n, [node[n] EXCEPT !.state = "failed", !.failures = @ + 1])
  BY <1>1, <1>4, Records DEF Lawful
<1>5. ASSUME node[n].state \in {"running", "children"}, node[n].failures + 1 < MaxAttempts[n]
      PROVE  Lawful(n, [[node[n] EXCEPT !.state = "failed", !.failures = @ + 1]
                          EXCEPT !.state = "pending", !.backoff = TRUE])
  BY <1>1, <1>5, Records DEF Lawful
<1> QED
  BY <1>2, <1>3, <1>4, <1>5

\* A critical section that writes one node: it succeeds, or the node stays.
LEMMA One_commits ==
  ASSUME TypeOK, NEW n \in Node, NEW r, Lawful(n, r), NEW live, Commit(One(n, r), live)
  PROVE  /\ Writing /\ err' = err /\ ctx' = ctx /\ faults' = faults
         /\ node' = [node EXCEPT ![n] = r] /\ node'[n] = r
<1>1. DOMAIN One(n, r) = {n} /\ One(n, r)[n] = r
  BY DEF One
<1>2. \A m \in DOMAIN One(n, r) : Lawful(m, One(n, r)[m])
  BY <1>1
<1> HIDE DEF One
<1>3. Writes(One(n, r), live) /\ ctx' = ctx
  BY DEF Commit
<1>4. /\ Writing /\ err' = err /\ faults' = faults
      /\ \A m \in Node : node'[m] = IF m \in DOMAIN One(n, r) THEN One(n, r)[m] ELSE node[m]
  BY <1>1, <1>2, <1>3, Commit_writes
<1>5. node' = [node EXCEPT ![n] = r]
  BY <1>1, <1>4 DEF Writing, TypeOK, NodeRecord
<1> QED
  BY <1>1, <1>3, <1>4, <1>5

\* A failed commit of one node leaves its row as it was or as it was to be.
LEMMA One_fails ==
  ASSUME TypeOK, NEW n \in Node, NEW r, Lawful(n, r), NEW live,
         CommitFails(One(n, r), OneOrder(n), live)
  PROVE  /\ Writing /\ err' /\ ~ctx' /\ node' = node
         /\ Refused(One(n, r), live) \/ faults' > 0
<1>1. DOMAIN One(n, r) = {n} /\ One(n, r)[n] = r
  BY DEF One
<1>2. OneOrder(n) \subseteq SUBSET DOMAIN One(n, r)
  BY <1>1 DEF OneOrder
<1>3. \A m \in DOMAIN One(n, r) : Lawful(m, One(n, r)[m])
  BY <1>1
<1> HIDE DEF One
<1>4. /\ Writing /\ err' /\ ~ctx'
      /\ Refused(One(n, r), live) \/ faults' > 0
  BY <1>1, <1>2, <1>3, Fail_writes
<1>5. node' = NodesWith(One(n, r), {})
  BY <1>1 DEF CommitFails, OneOrder
<1>6. node' = node
  BY <1>5 DEF NodesWith, TypeOK
<1> QED
  BY <1>4, <1>6

\* A critical section that ends nodes.
LEMMA Close_writes ==
  ASSUME TypeOK, NEW K, NEW order, order \subseteq SUBSET Open(K), NEW live,
         \/ Writes(Close(K), live) /\ (ctx' = ctx \/ ctx' = FALSE)
         \/ CommitFails(Close(K), order, live)
  PROVE  /\ Writing
         /\ \A n \in Node : node'[n] # node[n] => n \in Open(K) /\ node'[n] = Canceled(n)
         /\ \/ /\ err' = err /\ faults' = faults
               /\ \A n \in Node : node'[n] = IF n \in Open(K) THEN Canceled(n) ELSE node[n]
            \/ err' /\ ~ctx' /\ (Refused(Close(K), live) \/ faults' > 0)
<1>1. DOMAIN Close(K) = Open(K) /\ Open(K) \subseteq Node
  BY DEF Close, Open, Known
<1>2. \A n \in Open(K) : Close(K)[n] = Canceled(n) /\ Lawful(n, Canceled(n))
  BY Lawful_values DEF Close, Open, Known, Canceled, Final, States
<1> HIDE DEF Close
<1>3. CASE Writes(Close(K), live) /\ (ctx' = ctx \/ ctx' = FALSE)
  <2>1. /\ Writing /\ err' = err /\ faults' = faults
        /\ \A n \in Node : node'[n] = IF n \in DOMAIN Close(K) THEN Close(K)[n] ELSE node[n]
    <3>1. Writes(Close(K), live)
      BY <1>3
    <3>2. ctx' = ctx \/ ctx' = FALSE
      BY <1>3
    <3>3. DOMAIN Close(K) \subseteq Node /\ \A n \in DOMAIN Close(K) : Lawful(n, Close(K)[n])
      BY <1>1, <1>2
    <3> QED
      BY <3>1, <3>2, <3>3, Commit_writes
  <2>2. \A n \in Node : node'[n] = IF n \in Open(K) THEN Canceled(n) ELSE node[n]
    BY <1>1, <1>2, <2>1
  <2> QED
    BY <2>1, <2>2
<1>4. CASE CommitFails(Close(K), order, live)
  BY <1>1, <1>2, <1>4, Fail_writes
<1> QED
  BY <1>3, <1>4

\* finishLocked, as a write: the node, then what is below it.
LEMMA End_writes ==
  ASSUME TypeOK, NEW n \in Node, NEW r, Lawful(n, r), r.state \in Final, Finished(n, r)
  PROVE  /\ Writing /\ exec' = [exec EXCEPT ![n] = "none"]
         /\ \A m \in Node : node'[m] # node[m] => /\ m \in {n} \cup Open(Descendants[n])
                                                 /\ node'[m].state \in Final
         /\ \/ /\ err' = err /\ ctx' = ctx /\ faults' = faults /\ node'[n] = r
               /\ \A m \in Open(Descendants[n]) : node'[m].state \in Final
            \/ err' /\ ~ctx' /\ (Refused(End(n, r), ctx) \/ faults' > 0)
<1>1. DOMAIN End(n, r) = {n} \cup Open(Descendants[n]) /\ Open(Descendants[n]) \subseteq Node
  BY DEF End, Open, Known
<1>2. \A m \in Open(Descendants[n]) : Lawful(m, Canceled(m)) /\ Canceled(m).state \in Final
  BY Lawful_values DEF Open, Known, Canceled, Final, States, TypeOK
<1>3. \A m \in DOMAIN End(n, r) : Lawful(m, End(n, r)[m]) /\ End(n, r)[m].state \in Final
  BY <1>1, <1>2 DEF End
<1>4. EndOrder(n) \subseteq SUBSET DOMAIN End(n, r)
  BY <1>1 DEF EndOrder
<1>5. End(n, r)[n] = r
  BY DEF End
<1> HIDE DEF End
<1>6. exec' = [exec EXCEPT ![n] = "none"]
  BY DEF Finished, Goto
<1>7. CASE Commit(End(n, r), ctx)
  BY <1>1, <1>3, <1>5, <1>6, <1>7, Commit_writes DEF Commit
<1>8. CASE CommitFails(End(n, r), EndOrder(n), ctx)
  BY <1>1, <1>3, <1>4, <1>6, <1>8, Fail_writes
<1> QED
  BY <1>7, <1>8 DEF Finished

-----------------------------------------------------------------------------
(* Descendants: the least set closed under children. The induction over    *)
(* its elements is the choice of a closed set.                             *)

\* The descendants are the least set closed under children.
LEMMA Desc_least ==
  ASSUME NEW n \in Node, NEW S \in SUBSET Child,
         \A c \in Child : Parent[c] \in S \cup {n} => c \in S
  PROVE  Descendants[n] \subseteq S
BY DEF Descendants

\* A child of a descendant is a descendant.
LEMMA Desc_closed ==
  ASSUME NEW n \in Node, NEW c \in Child, Parent[c] \in Descendants[n] \cup {n}
  PROVE  c \in Descendants[n]
<1>1. ASSUME NEW S \in SUBSET Child, \A e \in Child : Parent[e] \in S \cup {n} => e \in S
      PROVE  c \in S
  BY <1>1, Desc_least
<1> QED
  BY <1>1 DEF Descendants

\* The caller of a descendant is the node or another descendant.
LEMMA Desc_parent ==
  ASSUME NEW n \in Node, NEW d \in Descendants[n]
  PROVE  Parent[d] = n \/ Parent[d] \in Descendants[n]
<1> DEFINE S == {e \in Descendants[n] : Parent[e] = n \/ Parent[e] \in Descendants[n]}
<1>1. S \in SUBSET Child
  BY Descendants_type
<1>2. \A c \in Child : Parent[c] \in S \cup {n} => c \in S
  BY Desc_closed
<1> QED
  BY <1>1, <1>2, Desc_least

\* The descendants of a descendant are descendants.
LEMMA Desc_transitive ==
  ASSUME NEW n \in Node, NEW m \in Descendants[n]
  PROVE  Descendants[m] \subseteq Descendants[n]
<1>1. Descendants[n] \in SUBSET Child /\ m \in Node
  BY Descendants_type
<1>2. \A c \in Child : Parent[c] \in Descendants[n] \cup {m} => c \in Descendants[n]
  BY Desc_closed
<1> QED
  BY <1>1, <1>2, Desc_least

\* In a set that has the caller of each of its members, a node has a descendant only
\* if it is in the set and has a child there.
LEMMA Desc_known ==
  ASSUME NEW n \in Node, NEW K \in SUBSET Node,
         \A c \in Child : c \in K => Parent[c] \in K,
         NEW d \in Descendants[n], d \in K
  PROVE  n \in K /\ \E c \in Child : Parent[c] = n /\ c \in K
<1>1. SUFFICES ASSUME n \notin K \/ \A c \in Child : Parent[c] = n => c \notin K
               PROVE  FALSE
  OBVIOUS
<1> DEFINE S == Child \ K
<1>2. \A c \in Child : Parent[c] \in S \cup {n} => c \in S
  BY <1>1
<1>3. Descendants[n] \subseteq S
  BY <1>2, Desc_least
<1> QED
  BY <1>3

-----------------------------------------------------------------------------
(* Dispatch: the doomed and the runnable nodes                             *)

\* A doomed node is pending and lacks a prerequisite for good. (The least fixed point
\* is a fixed point.)
LEMMA Doomed_lacks ==
  ASSUME GraphAssumption, NEW n \in Doomed
  PROVE  n \in Due /\ \E p \in Prereq[n] : Broken(p) \/ p \in Doomed
<1> DEFINE F == {m \in Doomed : \E p \in Prereq[m] : Broken(p) \/ p \in Doomed}
<1>1. Doomed \subseteq Due
  BY DEF Doomed
<1>2. ASSUME NEW m \in Due, \E p \in Prereq[m] : Broken(p) \/ p \in Doomed PROVE m \in Doomed
  <2>1. ASSUME NEW S \in SUBSET Due,
               \A e \in Due : (\E p \in Prereq[e] : Broken(p) \/ p \in S) => e \in S
        PROVE  m \in S
    <3>1. Doomed \subseteq S
      BY <2>1 DEF Doomed
    <3> QED
      BY <1>2, <2>1, <3>1
  <2> QED
    BY <2>1 DEF Doomed
<1>3. F \in SUBSET Due
  BY <1>1
<1>4. \A m \in Due : (\E p \in Prereq[m] : Broken(p) \/ p \in F) => m \in F
  BY <1>1, <1>2
<1>5. n \in F
  BY <1>3, <1>4 DEF Doomed
<1> QED
  BY <1>1, <1>5

\* It never ran, so nothing in the graph is below it.
LEMMA Doomed_childless ==
  ASSUME GraphAssumption, TypeOK, NodeInv, NEW n \in Doomed, NEW d \in Descendants[n]
  PROVE  d \notin Known
<1>1. n \in Due /\ n \in Known /\ node[n].attempt = 0
  <2>1. PICK p \in Prereq[n] : Broken(p) \/ p \in Doomed
    BY Doomed_lacks
  <2>2. node[p].state # "done"
    BY <2>1, Doomed_lacks DEF Broken, Due
  <2>3. n \in Due /\ n \in Known
    BY Doomed_lacks DEF Due, Known
  <2>4. ~(node[n].attempt > 0)
    BY <2>1, <2>2, <2>3 DEF NodeInv
  <2> QED
    BY <2>3, <2>4 DEF TypeOK, Known
<1>2. n \in Node /\ Known \in SUBSET Node
  BY <1>1 DEF Known
<1>3. \A c \in Child : c \in Known => Parent[c] \in Known /\ node[Parent[c]].attempt > 0
  BY DEF NodeInv
<1>4. SUFFICES ASSUME d \in Known PROVE FALSE
  OBVIOUS
<1>5. PICK c \in Child : Parent[c] = n /\ c \in Known
  BY <1>2, <1>3, <1>4, Desc_known
<1> QED
  BY <1>1, <1>3, <1>5

\* dispatch changes each node lawfully: it fails the doomed and readies the runnable.
LEMMA Dispatched_lawful ==
  ASSUME GraphAssumption, TypeOK
  PROVE  /\ DOMAIN Dispatched = Doomed \cup Runnable /\ Doomed \cup Runnable \subseteq Node
         /\ \A n \in Doomed \cup Runnable :
              /\ Lawful(n, Dispatched[n]) /\ node[n].state = "pending"
              /\ Dispatched[n].state = IF n \in Doomed THEN "failed" ELSE "ready"
<1>1. Doomed \cup Runnable \subseteq Due /\ Due \subseteq Node
  BY DEF Doomed, Runnable, Due
<1>2. ASSUME NEW n \in Doomed \cup Runnable
      PROVE  /\ Lawful(n, Dispatched[n]) /\ node[n].state = "pending"
             /\ Dispatched[n].state = IF n \in Doomed THEN "failed" ELSE "ready"
  <2>1. n \in Node /\ n \in Known /\ ~Terminal(n) /\ node[n].state = "pending"
    BY <1>1, <1>2 DEF Due, Known, Terminal, Final
  <2>2. CASE n \in Doomed
    <3>1. Dispatched[n] = [node[n] EXCEPT !.state = "failed"]
      BY <2>2 DEF Dispatched
    <3>2. Dispatched[n].state = "failed"
      BY <2>1, <3>1 DEF TypeOK
    <3>4. Lawful(n, [node[n] EXCEPT !.state = "failed"])
      BY <2>1, <3>1, Lawful_values DEF Final, States
    <3>3. Lawful(n, Dispatched[n])
      BY <3>1, <3>4
    <3> QED
      BY <2>1, <2>2, <3>2, <3>3
  <2>3. CASE n \notin Doomed
    <3>1. Dispatched[n] = [node[n] EXCEPT !.state = "ready"] /\ \A p \in Prereq[n] : node[p].state = "done"
      BY <1>2, <2>3 DEF Dispatched, Runnable
    <3>2. Dispatched[n].state = "ready"
      BY <2>1, <3>1 DEF TypeOK
    <3>4. Lawful(n, [node[n] EXCEPT !.state = "ready"])
      BY <2>1, <3>1, Lawful_values DEF Final, States
    <3>3. Lawful(n, Dispatched[n])
      BY <3>1, <3>4
    <3> QED
      BY <2>1, <2>3, <3>2, <3>3
  <2> QED
    BY <2>2, <2>3
<1> QED
  BY <1>1, <1>2 DEF Dispatched

-----------------------------------------------------------------------------
(* A node, its goroutine and its attempt                                   *)

\* ExecInv, ActiveInv, OneAttempt and HeldIffRunning, for one node.
Fits(r, pc, a, live) ==
  /\ pc \in {"start", "cache", "slot", "got"} => r.state \in {"ready"} \cup Final
  /\ pc = "image" => r.state \in {"image"} \cup Final
  /\ pc \in {"run", "exit"} => r.state \in {"running", "children"} \cup Final /\ r.attempt > 0
  /\ a.on <=> pc \in {"run", "exit"}
  /\ ~a.on => a = Inactive
  /\ r.state = "pending" => pc = "none"
  /\ live => IF a.on /\ r.state \notin Final
             THEN r.state = IF a.held THEN "running" ELSE "children"
             ELSE r.state \notin {"running", "children"}
Local(n) == Fits(node[n], exec[n], active[n], ctx)
LocalInv == \A n \in Node : Local(n)

\* Nothing happens to a node, or it is closed with its attempt.
Stays(n) ==
  /\ exec'[n] = exec[n]
  /\ active'[n] = active[n] \/ active'[n] = [active[n] EXCEPT !.canceled = active[n].on]
  /\ \/ node'[n] = node[n]
     \/ node'[n].state \in Final /\ node'[n].attempt = node[n].attempt

\* The invariants of an attempt, node by node.
LEMMA Local_parts ==
  ASSUME TypeOK PROVE LocalInv <=> ExecInv /\ ActiveInv /\ OneAttempt /\ HeldIffRunning
<1>1. ASSUME NEW n \in Node
      PROVE  /\ exec[n] \in Pcs
             /\ active[n].on \in BOOLEAN
  BY DEF TypeOK
<1>2. ASSUME LocalInv PROVE ExecInv /\ ActiveInv /\ OneAttempt /\ HeldIffRunning
  BY <1>1, <1>2 DEF LocalInv, Local, Fits, ExecInv, ActiveInv, OneAttempt, HeldIffRunning, Terminal
<1>3. ASSUME ExecInv, ActiveInv, OneAttempt, HeldIffRunning PROVE LocalInv
  BY <1>1, <1>3 DEF LocalInv, Local, Fits, ExecInv, ActiveInv, OneAttempt, HeldIffRunning, Terminal
<1> QED
  BY <1>2, <1>3

\* A canceled attempt differs in its flag only.
LEMMA Canceled_attempt ==
  ASSUME TypeOK, NEW n \in Node
  PROVE  LET a == [active[n] EXCEPT !.canceled = active[n].on]
         IN /\ a.on = active[n].on /\ a.held = active[n].held /\ a.waiters = active[n].waiters
            /\ active[n] = Inactive => a = Inactive
<1>1. ASSUME NEW r \in [on : BOOLEAN, held : BOOLEAN, canceled : BOOLEAN, waiters : Nat]
      PROVE  LET a == [r EXCEPT !.canceled = r.on]
             IN a.on = r.on /\ a.held = r.held /\ a.waiters = r.waiters
  OBVIOUS
<1>2. ASSUME NEW r \in [on : BOOLEAN, held : BOOLEAN, canceled : BOOLEAN, waiters : Nat],
             r.canceled = r.on
      PROVE  [r EXCEPT !.canceled = r.on] = r
  BY <1>2
<1>3. Inactive.canceled = Inactive.on
  BY DEF Inactive
<1> QED
  BY <1>1, <1>2, <1>3 DEF TypeOK

\* A node nobody touched keeps its invariant while the context is not renewed.
LEMMA Stays_local ==
  ASSUME TypeOK, NEW n \in Node, Local(n), Stays(n), ctx' => ctx
  PROVE  Local(n)'
<1>1. /\ active'[n].on = active[n].on /\ active'[n].held = active[n].held
      /\ active[n] = Inactive => active'[n] = Inactive
  BY Canceled_attempt DEF Stays
<1>2. CASE node'[n] = node[n]
  BY <1>1, <1>2 DEF Stays, Local, Fits
<1>3. CASE node'[n].state \in Final /\ node'[n].attempt = node[n].attempt
  BY <1>1, <1>3 DEF Stays, Local, Fits, Final
<1> QED
  BY <1>2, <1>3 DEF Stays

\* A node that ends takes those below it along.
Closing ==
  ~err' => \A n \in Node : node'[n].state \in Final /\ ~Terminal(n) =>
             \A d \in Descendants[n] : node'[d].state \in Final \cup {"absent"}

\* Everything that a step of the executor does to the graph.
Good == Writing /\ Closing /\ LocalInv'
Base == GraphAssumption /\ TypeOK /\ NodeInv /\ LocalInv

\* A step that writes no row.
LEMMA Silent_good ==
  ASSUME Base, UNCHANGED <<node, stored, err>>, wake' \in BOOLEAN, ctx' = ctx \/ ctx' = FALSE,
         faults' \in Nat, LocalInv'
  PROVE  Good
BY Silent_writes DEF Good, Closing, Base, Terminal

\* One node changes and does not end.
LEMMA One_good ==
  ASSUME Base, NEW n \in Node, Writing, \A m \in Node \ {n} : node'[m] = node[m],
         \A m \in Node \ {n} : exec'[m] = exec[m] /\ active'[m] = active[m],
         node'[n].state \notin Final \/ node'[n] = node[n], Local(n)'
  PROVE  Good
<1>1. ASSUME NEW m \in Node \ {n} PROVE Local(m)'
  BY <1>1, Stays_local DEF Stays, Base, LocalInv, Writing
<1>2. Closing
  BY DEF Closing, Terminal, Base, TypeOK
<1> QED
  BY <1>1, <1>2 DEF Good, LocalInv

\* Attempts are counted, and not by the end of one.
LEMMA Written_attempt ==
  ASSUME TypeOK, NEW n \in Node, Written(n), node' \in [Node -> NodeRecord]
  PROVE  /\ node'[n].attempt >= node[n].attempt
         /\ node'[n].state \in Final => node'[n].attempt = node[n].attempt
<1>1. node[n] \in NodeRecord
  BY DEF TypeOK, NodeRecord
<1>2. ASSUME NEW s \in NodeRecord, Lawful(n, s)
      PROVE  s.attempt >= node[n].attempt /\ (s.state \in Final => s.attempt = node[n].attempt)
  <2>1. CASE s = [node[n] EXCEPT !.state = s.state]
    BY <1>1, <2>1 DEF NodeRecord
  <2>2. CASE s.state = "running" /\ s.attempt = node[n].attempt + 1
    BY <1>1, <2>2 DEF NodeRecord, Final
  <2>3. CASE s.attempt = node[n].attempt
    BY <1>1, <2>3 DEF NodeRecord
  <2> QED
    BY <1>2, <2>1, <2>2, <2>3 DEF Lawful
<1> QED
  BY <1>1, <1>2 DEF Written, NodeRecord

\* The last commit of a node, with the end of everything below it.
LEMMA End_good ==
  ASSUME Base, NEW n \in Node, NEW r, Lawful(n, r), r.state \in Final, Finished(n, r),
         active'[n] = Inactive,
         \A m \in Node \ {n} : active'[m] = CancelAttempts(Descendants[n])[m]
  PROVE  Good
<1>1. /\ Writing /\ exec' = [exec EXCEPT ![n] = "none"]
      /\ \A m \in Node : node'[m] # node[m] => /\ m \in {n} \cup Open(Descendants[n])
                                               /\ node'[m].state \in Final
      /\ \/ /\ err' = err /\ ctx' = ctx /\ node'[n] = r
            /\ \A m \in Open(Descendants[n]) : node'[m].state \in Final
         \/ err' /\ ~ctx'
  BY End_writes DEF Base
<1>2. ASSUME NEW m \in Node \ {n} PROVE Local(m)'
  <2>1. node'[m] = node[m] \/ (node'[m].state \in Final /\ node'[m].attempt = node[m].attempt)
    BY <1>1, Written_attempt DEF Writing, Base
  <2>2. active'[m] = active[m] \/ active'[m] = [active[m] EXCEPT !.canceled = active[m].on]
    BY DEF CancelAttempts
  <2>3. exec'[m] = exec[m]
    BY <1>1 DEF Base, TypeOK
  <2> QED
    BY <1>1, <2>1, <2>2, <2>3, Stays_local DEF Stays, Base, LocalInv, Writing
<1>3. Local(n)'
  <2>1. exec'[n] = "none" /\ ~active'[n].on
    BY <1>1 DEF Base, TypeOK, Inactive
  <2>2. ctx' => node'[n].state \in Final
    BY <1>1
  <2> QED
    BY <2>1, <2>2 DEF Local, Fits, Final
<1>4. Closing
  <2>1. SUFFICES ASSUME ~err', NEW m \in Node, node'[m].state \in Final, ~Terminal(m),
                        NEW d \in Descendants[m]
                 PROVE  node'[d].state \in Final \cup {"absent"}
    BY DEF Closing
  <2>2. m \in {n} \cup Descendants[n]
    BY <1>1, <2>1 DEF Terminal, Open
  <2>3. d \in Descendants[n] /\ d \in Node
    BY <2>2, Desc_transitive, Descendants_type
  <2>4. CASE d \in Open(Descendants[n])
    BY <1>1, <2>1, <2>4
  <2>5. CASE d \notin Open(Descendants[n])
    <3>1. node[d].state \in Final \cup {"absent"}
      BY <2>3, <2>5 DEF Open, Known, Terminal
    <3>2. CASE node'[d] = node[d]
      BY <3>1, <3>2
    <3>3. CASE node'[d] # node[d]
      BY <1>1, <2>3, <3>3
    <3> QED
      BY <3>2, <3>3
  <2> QED
    BY <2>4, <2>5
<1> QED
  BY <1>1, <1>2, <1>3, <1>4 DEF Good, LocalInv

\* closeLocked on a set that has everything below its nodes.
LEMMA Close_good ==
  ASSUME Base, NEW K \in SUBSET Node, \A n \in K : Descendants[n] \subseteq K,
         NEW order, order \subseteq SUBSET Open(K), NEW live,
         \/ Writes(Close(K), live) /\ (ctx' = ctx \/ ctx' = FALSE)
         \/ CommitFails(Close(K), order, live),
         exec' = exec, active' = CancelAttempts(K)
  PROVE  Good
<1>1. /\ Writing
      /\ \A n \in Node : node'[n] # node[n] => n \in Open(K) /\ node'[n] = Canceled(n)
      /\ \/ \A n \in Node : node'[n] = IF n \in Open(K) THEN Canceled(n) ELSE node[n]
         \/ err'
  BY Close_writes DEF Base
<1>2. \A n \in Node : Canceled(n).state \in Final
  BY DEF Canceled, Base, TypeOK, Final
<1>3. ASSUME NEW m \in Node PROVE Local(m)'
  <2>1. node'[m] = node[m] \/ (node'[m].state \in Final /\ node'[m].attempt = node[m].attempt)
    BY <1>1, <1>2, Written_attempt DEF Writing, Base
  <2>2. active'[m] = active[m] \/ active'[m] = [active[m] EXCEPT !.canceled = active[m].on]
    BY DEF CancelAttempts
  <2> QED
    BY <1>1, <2>1, <2>2, Stays_local DEF Stays, Base, LocalInv, Writing
<1>4. Closing
  <2>1. SUFFICES ASSUME ~err', NEW m \in Node, node'[m].state \in Final, ~Terminal(m),
                        NEW d \in Descendants[m]
                 PROVE  node'[d].state \in Final \cup {"absent"}
    BY DEF Closing
  <2>2. m \in K /\ d \in K
    BY <1>1, <2>1 DEF Terminal, Open
  <2>3. CASE d \in Open(K)
    BY <1>1, <1>2, <2>1, <2>3 DEF Open
  <2>4. CASE d \notin Open(K)
    BY <1>1, <2>1, <2>2, <2>4 DEF Open, Known, Terminal
  <2> QED
    BY <2>3, <2>4
<1> QED
  BY <1>1, <1>3, <1>4 DEF Good, LocalInv

-----------------------------------------------------------------------------
(* The steps of the executor: each commits lawful values only              *)

\* The step of Executor.dispatch.
LEMMA Dispatch_good == ASSUME Base, Dispatch PROVE Good
<1> USE DEF Base
<1>1. /\ DOMAIN Dispatched = Doomed \cup Runnable /\ Doomed \cup Runnable \subseteq Node
      /\ \A n \in Doomed \cup Runnable :
           /\ Lawful(n, Dispatched[n]) /\ node[n].state = "pending"
           /\ Dispatched[n].state = IF n \in Doomed THEN "failed" ELSE "ready"
  BY Dispatched_lawful
<1>2. DispatchOrder \subseteq SUBSET DOMAIN Dispatched
  BY <1>1 DEF DispatchOrder
<1> HIDE DEF Dispatched
<1>3. /\ Writing
      /\ \A n \in Node : node'[n] # node[n] => n \in Doomed \cup Runnable /\ node'[n] = Dispatched[n]
      /\ ctx' => \A n \in Doomed \cup Runnable : node'[n] = Dispatched[n]
      /\ \A n \in Node :
           exec'[n] = IF node'[n].state = "ready" /\ node[n].state = "pending" THEN "start" ELSE exec[n]
  <2>1. CASE Commit(Dispatched, ctx) /\ exec' = Spawned(node')
    <3>1. /\ Writing /\ err' = err
          /\ \A n \in Node : node'[n] = IF n \in DOMAIN Dispatched THEN Dispatched[n] ELSE node[n]
      BY <1>1, <2>1, Commit_writes DEF Commit
    <3> QED
      BY <1>1, <2>1, <3>1 DEF Spawned
  <2>2. CASE CommitFails(Dispatched, DispatchOrder, ctx) /\ exec' = Spawned(node')
    <3>1. /\ Writing /\ ~ctx'
          /\ \A n \in Node : node'[n] # node[n] => n \in DOMAIN Dispatched /\ node'[n] = Dispatched[n]
      BY <1>1, <1>2, <2>2, Fail_writes
    <3> QED
      BY <1>1, <2>2, <3>1 DEF Spawned
  <2>3. CASE RepeatedCommit
    <3>1. PICK S \in DispatchOrder :
            /\ ~Refused(Dispatched, ctx)
            /\ node' = NodesWith(Dispatched, S) /\ stored' = RowsWith(Dispatched, S)
            /\ exec' = [n \in Node |-> IF n \in S \cap Runnable THEN "start" ELSE exec[n]]
            /\ err' = TRUE /\ ctx' = FALSE /\ wake' = TRUE /\ faults' = faults
      BY <2>3 DEF RepeatedCommit
    <3>2. S \subseteq Doomed \cup Runnable
      BY <1>1, <1>2
    <3>3. \A n \in S : Dispatched[n] \in NodeRecord /\ RowOf(Dispatched[n]) \in RowRecord
      BY <1>1, <3>2, RowOf_type DEF Lawful
    <3>4. node' \in [Node -> NodeRecord] /\ stored' \in [Node -> RowRecord]
      BY <3>1, <3>3 DEF NodesWith, RowsWith, TypeOK, NodeRecord, RowRecord
    <3>5. ~err /\ lease
      BY <3>1 DEF Refused
    <3>6. ASSUME NEW n \in Node PROVE Written(n)
      BY <1>1, <3>1, <3>2, <3>3, <3>5 DEF NodesWith, RowsWith, Written
    <3>7. Writing
      BY <3>1, <3>4, <3>6 DEF Writing, TypeOK
    <3>8. \A n \in Node : node'[n] = IF n \in S THEN Dispatched[n] ELSE node[n]
      BY <3>1 DEF NodesWith
    <3>9. \A n \in Runnable : n \notin Doomed
      BY DEF Runnable
    <3>10. \A n \in Node :
             exec'[n] = IF node'[n].state = "ready" /\ node[n].state = "pending" THEN "start" ELSE exec[n]
      BY <1>1, <3>1, <3>2, <3>8, <3>9
    <3> QED
      BY <1>1, <3>1, <3>2, <3>7, <3>8, <3>10
  <2> QED
    BY <2>1, <2>2, <2>3 DEF Dispatch
<1>4. active' = active
  BY DEF Dispatch
<1>5. ASSUME NEW n \in Node PROVE Local(n)'
  <2>1. CASE node'[n] = node[n] /\ exec'[n] = exec[n]
    BY <1>3, <1>4, <2>1, Stays_local DEF Stays, LocalInv, Writing
  <2>2. CASE node'[n] # node[n]
    <3>1. /\ node[n].state = "pending" /\ node'[n].state \in {"failed", "ready"}
          /\ exec'[n] = IF node'[n].state = "ready" THEN "start" ELSE exec[n]
      BY <1>1, <1>3, <2>2
    <3>2. exec[n] = "none" /\ ~active[n].on
      BY <3>1 DEF LocalInv, Local, Fits, TypeOK
    <3>3. active'[n] = active[n] /\ active[n] = Inactive
      BY <1>4, <3>2 DEF LocalInv, Local, Fits
    <3> QED
      BY <3>1, <3>2, <3>3 DEF Local, Fits, Final
  <2>3. node'[n] = node[n] => exec'[n] = exec[n]
    BY <1>3
  <2> QED
    BY <2>1, <2>2, <2>3
<1>6. Closing
  <2>1. SUFFICES ASSUME NEW m \in Node, node'[m].state \in Final, ~Terminal(m),
                        NEW d \in Descendants[m]
                 PROVE  node'[d].state \in Final \cup {"absent"}
    BY DEF Closing
  <2>2. m \in Doomed
    BY <1>1, <1>3, <2>1 DEF Terminal, Final
  <2>3. d \notin Known /\ d \in Node
    BY <2>2, Doomed_childless, Descendants_type
  <2>4. node'[d] = node[d]
    BY <1>1, <1>3, <2>3 DEF Known
  <2> QED
    BY <2>3, <2>4 DEF Known
<1> QED
  BY <1>3, <1>5, <1>6 DEF Good, LocalInv

\* The root is final: the rest of the graph is closed.
LEMMA CloseRun_good == ASSUME Base, CloseRun PROVE Good
<1>1. \A n \in Node : Descendants[n] \subseteq Node
  BY Descendants_type
<1>2. \/ Writes(Close(Node), TRUE) /\ (ctx' = ctx \/ ctx' = FALSE)
      \/ CommitFails(Close(Node), SUBSET Open(Node), TRUE)
  BY DEF CloseRun
<1> QED
  BY <1>1, <1>2, Close_good DEF CloseRun

\* Executor.Cancel: everything open ends.
LEMMA Cancel_good == ASSUME Base, Cancel PROVE Good
<1>1. \A n \in Node : Descendants[n] \subseteq Node
  BY Descendants_type
<1>2. \/ Writes(Close(Node), TRUE) /\ (ctx' = ctx \/ ctx' = FALSE)
      \/ CommitFails(Close(Node), SUBSET Open(Node), TRUE)
  BY DEF Cancel
<1> QED
  BY <1>1, <1>2, Close_good DEF Cancel

\* Executor.CancelSubtree: a node and what is below it.
LEMMA CancelSubtree_good == ASSUME Base, NEW n \in Node, CancelSubtree(n) PROVE Good
<1> DEFINE K == {n} \cup Descendants[n]
           order == IF Terminal(n) THEN SUBSET Open(K) ELSE EndOrder(n)
<1>1. K \in SUBSET Node /\ \A m \in K : Descendants[m] \subseteq K
  BY Descendants_type, Desc_transitive
<1>2. order \subseteq SUBSET Open(K)
  BY DEF EndOrder, Open, CancelSubtree
<1>3. \/ Writes(Close(K), TRUE) /\ (ctx' = ctx \/ ctx' = FALSE)
      \/ CommitFails(Close(K), order, TRUE)
  BY DEF CancelSubtree, Commit
<1>4. exec' = exec /\ active' = CancelAttempts(K)
  BY DEF CancelSubtree
<1> QED
  BY <1>1, <1>2, <1>3, <1>4, Close_good

\* Where a node stands that is open and has a goroutine.
LEMMA Open_local ==
  ASSUME Base, NEW n \in Node, ~Terminal(n), exec[n] # "none"
  PROVE  /\ n \in Known
         /\ exec[n] \in {"start", "cache", "slot", "got"} =>
              node[n].state = "ready" /\ active[n] = Inactive
         /\ exec[n] = "image" => node[n].state = "image" /\ active[n] = Inactive
         /\ exec[n] \in {"run", "exit"} => node[n].state \in {"running", "children"}
BY DEF Base, LocalInv, Local, Fits, Terminal, TypeOK, Pcs, Known, Final

\* A node takes its image or starts to wait for it.
LEMMA SeekImage_good ==
  ASSUME Base, NEW n \in Node, exec[n] \in {"start", "cache"}, ~Terminal(n),
         SeekImage(n), active' = active
  PROVE  Good
<1> DEFINE r == [node[n] EXCEPT !.state = "image"]
<1>1. n \in Known /\ node[n].state = "ready" /\ active[n] = Inactive
  BY Open_local DEF Base, TypeOK
<1>2. \A m \in Node \ {n} : exec'[m] = exec[m] /\ active'[m] = active[m]
  BY DEF SeekImage, Goto, Base, TypeOK
<1>3. r.state = "image" /\ Lawful(n, r)
  <2>1. Lawful(n, r)
    BY <1>1, Lawful_values DEF Base, States, Final
  <2> QED
    BY <2>1 DEF Base, TypeOK
<1>4. CASE n \notin UsesImage
  <2>1. exec' = [exec EXCEPT ![n] = "slot"] /\ UNCHANGED <<node, stored, wake, err, ctx, faults>>
    BY <1>4 DEF SeekImage, Goto
  <2>2. Local(n)'
    BY <1>1, <2>1 DEF Local, Fits, Base, TypeOK, Inactive
  <2>3. LocalInv'
    BY <1>2, <2>1, <2>2 DEF LocalInv, Local, Base
  <2> QED
    BY <2>1, <2>3, Silent_good DEF Base, TypeOK
<1>5. CASE n \in UsesImage /\ Commit(One(n, r), ctx) /\ Goto(n, "image")
  <2>1. Writing /\ ctx' = ctx /\ node' = [node EXCEPT ![n] = r] /\ node'[n] = r
    BY <1>3, <1>5, One_commits DEF Base
  <2>2. Local(n)'
    BY <1>1, <1>3, <1>5, <2>1 DEF Local, Fits, Inactive, Goto, Base, TypeOK
  <2> QED
    BY <1>2, <1>3, <2>1, <2>2, One_good DEF Final, Base, TypeOK
<1>6. CASE n \in UsesImage /\ CommitFails(One(n, r), OneOrder(n), ctx) /\ Goto(n, "none")
  <2>1. Writing /\ ~ctx' /\ node' = node
    BY <1>3, <1>6, One_fails DEF Base
  <2>2. Local(n)'
    BY <1>1, <1>6, <2>1 DEF Local, Fits, Inactive, Goto, Base, TypeOK
  <2> QED
    BY <1>2, <2>1, <2>2, One_good DEF Base, TypeOK
<1> QED
  BY <1>4, <1>5, <1>6 DEF SeekImage

\* A step that writes nothing and moves one goroutine.
LEMMA Step_good ==
  ASSUME Base, NEW n \in Node, UNCHANGED <<node, stored, wake, err, ctx, faults>>,
         NEW pc, Goto(n, pc), \A m \in Node \ {n} : active'[m] = active[m], Local(n)'
  PROVE  Good
<1>1. Writing
  BY Silent_writes DEF Base, TypeOK
<1>2. \A m \in Node \ {n} : exec'[m] = exec[m]
  BY DEF Goto, Base, TypeOK
<1> QED
  BY <1>1, <1>2, One_good

\* A goroutine that leaves without an attempt.
LEMMA Leave_good ==
  ASSUME Base, NEW n \in Node, UNCHANGED <<node, stored, active, wake, err, ctx, faults>>,
         exec[n] \in {"start", "cache", "image", "slot", "got"}, Terminal(n) \/ ~ctx,
         Goto(n, "none")
  PROVE  Good
<1>1. exec'[n] = "none"
  BY DEF Goto, Base, TypeOK
<1>2. Local(n)'
  BY <1>1 DEF Base, LocalInv, Local, Fits, Terminal, Final, TypeOK
<1> QED
  BY <1>2, Step_good

\* execute, up to its wait for the cache or the image.
LEMMA Start_good == ASSUME Base, NEW n \in Node, Start(n) PROVE Good
<1>1. CASE node[n].state # "ready" \/ ~ctx
  <2>1. Terminal(n) \/ ~ctx
    BY <1>1 DEF Start, Base, LocalInv, Local, Fits, Terminal
  <2> QED
    BY <1>1, <2>1, Leave_good DEF Start
<1>2. CASE node[n].state = "ready" /\ ctx /\ n \in Cached
  <2>1. Goto(n, "cache") /\ UNCHANGED <<node, stored, active, wake, err, ctx, faults>>
    BY <1>2 DEF Start
  <2>2. Local(n)'
    BY <1>2, <2>1 DEF Start, Goto, Base, LocalInv, Local, Fits, TypeOK
  <2> QED
    BY <2>1, <2>2, Step_good
<1>3. CASE node[n].state = "ready" /\ ctx /\ n \notin Cached
  BY <1>3, SeekImage_good DEF Start, Terminal, Final
<1> QED
  BY <1>1, <1>2, <1>3

\* The end of a node that has no attempt yet.
LEMMA Early_good ==
  ASSUME Base, NEW n \in Node, exec[n] \in {"start", "cache", "image", "slot", "got"}, ~Terminal(n),
         NEW s \in Final, Finished(n, [node[n] EXCEPT !.state = s]),
         active' = CancelAttempts(Descendants[n])
  PROVE  Good
<1> DEFINE r == [node[n] EXCEPT !.state = s]
<1>1. n \in Known /\ active[n] = Inactive
  BY Open_local
<1>2. Lawful(n, r)
  BY <1>1, Lawful_values DEF Base, States, Final
<1>3. r.state \in Final
  BY DEF Base, TypeOK
<1>4. [active[n] EXCEPT !.canceled = active[n].on] = Inactive
  BY <1>1, Canceled_attempt DEF Base
<1>5. active'[n] = Inactive
  BY <1>1, <1>4 DEF CancelAttempts
<1> HIDE DEF r
<1>6. Finished(n, r)
  BY DEF r
<1> QED
  BY <1>2, <1>3, <1>5, <1>6, End_good

\* The answer of the cache is a result, a claim or an error.
LEMMA CacheReply_good == ASSUME Base, NEW n \in Node, CacheReply(n) PROVE Good
<1>1. CASE (Terminal(n) \/ ~ctx) /\ Goto(n, "none")
           /\ UNCHANGED <<node, stored, active, wake, err, ctx, faults>>
  BY <1>1, Leave_good DEF CacheReply
<1>2. CASE /\ ~Terminal(n)
           /\ \E s \in {"done", "failed"} : Finished(n, [node[n] EXCEPT !.state = s])
           /\ active' = CancelAttempts(Descendants[n])
  BY <1>2, Early_good DEF CacheReply, Final
<1>3. CASE ~Terminal(n) /\ SeekImage(n) /\ UNCHANGED active
  BY <1>3, SeekImage_good DEF CacheReply
<1> QED
  BY <1>1, <1>2, <1>3 DEF CacheReply

\* The image is there or has failed.
LEMMA ImageReply_good == ASSUME Base, NEW n \in Node, ImageReply(n) PROVE Good
<1>1. CASE (Terminal(n) \/ ~ctx) /\ Goto(n, "none")
           /\ UNCHANGED <<node, stored, active, wake, err, ctx, faults>>
  BY <1>1, Leave_good DEF ImageReply
<1>2. CASE /\ ~Terminal(n) /\ Finished(n, [node[n] EXCEPT !.state = "failed"])
           /\ active' = CancelAttempts(Descendants[n])
  BY <1>2, Early_good DEF ImageReply, Final
<1> DEFINE r == [node[n] EXCEPT !.state = "ready"]
<1>3. ASSUME ~Terminal(n)
      PROVE  Lawful(n, r) /\ r.state = "ready" /\ active[n] = Inactive /\ node[n].state = "image"
  <2>1. n \in Known /\ node[n].state = "image" /\ active[n] = Inactive
    BY <1>3, Open_local DEF ImageReply
  <2>2. Lawful(n, r)
    BY <1>3, <2>1, Lawful_values DEF Base, States, Final
  <2>3. r.state = "ready"
    BY DEF Base, TypeOK
  <2> QED
    BY <2>1, <2>2, <2>3
<1>4. CASE ~Terminal(n) /\ Commit(One(n, r), ctx) /\ Goto(n, "slot") /\ UNCHANGED active
  <2>1. Writing /\ ctx' = ctx /\ node' = [node EXCEPT ![n] = r] /\ node'[n] = r
    BY <1>3, <1>4, One_commits DEF Base
  <2>2. Local(n)'
    BY <1>3, <1>4, <2>1 DEF Local, Fits, Inactive, Goto, Base, TypeOK
  <2>3. \A m \in Node \ {n} : exec'[m] = exec[m] /\ node'[m] = node[m]
    BY <1>4, <2>1 DEF Goto, Base, TypeOK
  <2> QED
    BY <1>3, <1>4, <2>1, <2>2, <2>3, One_good DEF Final
<1>5. CASE ~Terminal(n) /\ CommitFails(One(n, r), OneOrder(n), ctx) /\ Goto(n, "none") /\ UNCHANGED active
  <2>1. Writing /\ ~ctx' /\ node' = node
    BY <1>3, <1>5, One_fails DEF Base
  <2>2. Local(n)'
    BY <1>3, <1>5, <2>1 DEF Local, Fits, Inactive, Goto, Base, TypeOK
  <2>3. \A m \in Node \ {n} : exec'[m] = exec[m]
    BY <1>5 DEF Goto, Base, TypeOK
  <2> QED
    BY <1>5, <2>1, <2>2, <2>3, One_good
<1> QED
  BY <1>1, <1>2, <1>4, <1>5 DEF ImageReply

\* The attempt is written before its task starts.
LEMMA Begin_good == ASSUME Base, NEW n \in Node, Begin(n) PROVE Good
<1> DEFINE r == [node[n] EXCEPT !.state = "running", !.attempt = @ + 1, !.backoff = FALSE]
<1>1. CASE (node[n].state # "ready" \/ ~ctx) /\ Goto(n, "none")
           /\ UNCHANGED <<node, stored, active, wake, err, ctx, faults>>
  <2>1. Terminal(n) \/ ~ctx
    BY <1>1 DEF Begin, Base, LocalInv, Local, Fits, Terminal
  <2> QED
    BY <1>1, <2>1, Leave_good DEF Begin
<1>2. ASSUME node[n].state = "ready"
      PROVE  Lawful(n, r) /\ r.state = "running" /\ r.attempt > 0 /\ active[n] = Inactive
  <2>1. ~Terminal(n) /\ exec[n] = "got"
    BY <1>2 DEF Begin, Terminal, Final
  <2>2. n \in Known /\ active[n] = Inactive
    BY <2>1, Open_local
  <2>3. Lawful(n, r)
    BY <1>2, <2>1, <2>2, Lawful_values DEF Base
  <2>4. node[n] \in NodeRecord /\ node[n].attempt \in Nat
    BY DEF Base, TypeOK, NodeRecord
  <2>5. r.state = "running" /\ r.attempt = node[n].attempt + 1
    BY <2>4, Records
  <2> QED
    BY <2>2, <2>3, <2>4, <2>5
<1>3. CASE /\ node[n].state = "ready" /\ ctx /\ Commit(One(n, r), ctx) /\ Goto(n, "run")
           /\ active' = [active EXCEPT ![n] = [Inactive EXCEPT !.on = TRUE, !.held = TRUE]]
  <2>1. Writing /\ ctx' = ctx /\ node' = [node EXCEPT ![n] = r] /\ node'[n] = r
    BY <1>2, <1>3, One_commits DEF Base
  <2>2. /\ active'[n] = [Inactive EXCEPT !.on = TRUE, !.held = TRUE]
        /\ exec'[n] = "run"
    BY <1>3 DEF Goto, Base, TypeOK
  <2>3. active'[n].on /\ active'[n].held
    BY <2>2 DEF Inactive
  <2>4. r.state = "running" /\ r.attempt > 0
    BY <1>2, <1>3
  <2>5. Local(n)'
    <3> HIDE DEF r
    <3> QED BY <2>1, <2>2, <2>3, <2>4 DEF Local, Fits, Final
  <2>6. \A m \in Node \ {n} : exec'[m] = exec[m] /\ node'[m] = node[m] /\ active'[m] = active[m]
    BY <1>3, <2>1 DEF Goto, Base, TypeOK
  <2> QED
    BY <2>1, <2>4, <2>5, <2>6, One_good DEF Final
<1>4. CASE /\ node[n].state = "ready" /\ CommitFails(One(n, r), OneOrder(n), ctx) /\ Goto(n, "none")
           /\ UNCHANGED active
  <2>1. Writing /\ ~ctx' /\ node' = node
    BY <1>2, <1>4, One_fails DEF Base
  <2>2. Local(n)'
    BY <1>2, <1>4, <2>1 DEF Local, Fits, Inactive, Goto, Base, TypeOK
  <2>3. \A m \in Node \ {n} : exec'[m] = exec[m]
    BY <1>4 DEF Goto, Base, TypeOK
  <2> QED
    BY <1>4, <2>1, <2>2, <2>3, One_good
<1> QED
  BY <1>1, <1>3, <1>4 DEF Begin

\* The attempt ends: a result, a failure or a retry.
LEMMA Finish_good == ASSUME Base, NEW n \in Node, Finish(n) PROVE Good
<1> DEFINE failed == [node[n] EXCEPT !.state = "failed", !.failures = @ + 1]
           r == [failed EXCEPT !.state = "pending", !.backoff = TRUE]
<1>1. exec[n] = "exit"
  BY DEF Finish
<1>2. CASE Superseded(n) /\ Goto(n, "none") /\ active' = Detach(n)
           /\ UNCHANGED <<node, stored, timers, wake, err, ctx, faults>>
  <2>1. exec'[n] = "none" /\ active'[n] = Inactive
    BY <1>2 DEF Goto, Detach, Base, TypeOK
  <2>2. Local(n)'
    BY <1>1, <1>2, <2>1 DEF Base, LocalInv, Local, Fits, Superseded, Terminal, Inactive, Final
  <2>3. \A m \in Node \ {n} : active'[m] = active[m]
    BY <1>2 DEF Detach, Base, TypeOK
  <2> QED
    BY <1>2, <2>2, <2>3, Step_good
<1>3. ASSUME ~Superseded(n)
      PROVE  /\ ~Terminal(n) /\ n \in Known /\ node[n].state \in {"running", "children"}
             /\ Lawful(n, [node[n] EXCEPT !.state = "done"]) /\ Lawful(n, failed)
             /\ [node[n] EXCEPT !.state = "done"].state = "done" /\ failed.state = "failed"
  <2>1. ~Terminal(n) /\ n \in Known /\ node[n].state \in {"running", "children"}
    BY <1>1, <1>3, Open_local DEF Superseded
  <2>2. node[n] \in NodeRecord
    BY DEF Base, TypeOK, NodeRecord
  <2>3. [node[n] EXCEPT !.state = "done"].state = "done" /\ failed.state = "failed"
    BY <2>2 DEF NodeRecord
  <2>4. Lawful(n, [node[n] EXCEPT !.state = "done"]) /\ Lawful(n, failed)
    BY <2>1, Lawful_values DEF Base, States, Final
  <2> QED
    BY <2>1, <2>3, <2>4
<1>4. CASE /\ ~Superseded(n)
           /\ \/ Finished(n, [node[n] EXCEPT !.state = "done"])
              \/ Finished(n, failed)
           /\ active' = [CancelAttempts(Descendants[n]) EXCEPT ![n] = Detach(n)[n]]
  <2>1. active'[n] = Inactive /\ \A m \in Node \ {n} : active'[m] = CancelAttempts(Descendants[n])[m]
    BY <1>4 DEF Detach, CancelAttempts, Base, TypeOK
  <2>2. CASE Finished(n, [node[n] EXCEPT !.state = "done"])
    BY <1>3, <1>4, <2>1, <2>2, End_good DEF Final
  <2>3. CASE Finished(n, failed)
    BY <1>3, <1>4, <2>1, <2>3, End_good DEF Final
  <2> QED
    BY <1>4, <2>2, <2>3
<1>5. ASSUME ~Superseded(n), Retries(n), active' = Detach(n), Goto(n, "none"),
             \/ Commit(One(n, r), ctx)
             \/ CommitFails(One(n, r), OneOrder(n), ctx)
      PROVE  Good
  <2>1. Lawful(n, r)
    BY <1>3, <1>5, Lawful_values DEF Base, Retries
  <2>2. r.state = "pending"
    <3>1. node[n] \in NodeRecord
      BY DEF Base, TypeOK, NodeRecord
    <3> QED
      BY <3>1, Records
  <2>3. exec'[n] = "none" /\ active'[n] = Inactive
    BY <1>5 DEF Goto, Detach, Base, TypeOK
  <2>4. \A m \in Node \ {n} : exec'[m] = exec[m] /\ active'[m] = active[m]
    BY <1>5 DEF Goto, Detach, Base, TypeOK
  <2> HIDE DEF r
  <2>5. CASE Commit(One(n, r), ctx)
    <3>1. Writing /\ node' = [node EXCEPT ![n] = r] /\ node'[n] = r
      BY <2>1, <2>5, One_commits DEF Base
    <3>2. Local(n)'
      BY <2>2, <2>3, <3>1 DEF Local, Fits, Inactive, Final
    <3>3. \A m \in Node \ {n} : node'[m] = node[m]
      BY <3>1 DEF Base, TypeOK
    <3> QED
      BY <2>2, <2>4, <3>1, <3>2, <3>3, One_good DEF Final
  <2>6. CASE CommitFails(One(n, r), OneOrder(n), ctx)
    <3>1. Writing /\ ~ctx' /\ node' = node
      BY <2>1, <2>6, One_fails DEF Base
    <3>2. Local(n)'
      BY <1>3, <1>5, <2>3, <3>1 DEF Local, Fits, Inactive, Final
    <3> QED
      BY <2>4, <3>1, <3>2, One_good
  <2> QED
    BY <1>5, <2>5, <2>6
<1> QED
  BY <1>2, <1>4, <1>5 DEF Finish

\* A step that writes nothing and moves no goroutine of execute.
LEMMA Quiet_good ==
  ASSUME Base, UNCHANGED <<node, stored, exec, err>>, wake' \in BOOLEAN,
         ctx' = ctx \/ ctx' = FALSE, faults' \in Nat,
         \A n \in Node : \/ active'[n] = active[n]
                         \/ active[n].on /\ active'[n].on /\ active'[n].held = active[n].held
  PROVE  Good
<1>1. ctx' => ctx
  BY Flags DEF Base
<1>2. ASSUME NEW n \in Node PROVE Local(n)'
  <2>1. Local(n) /\ node'[n] = node[n] /\ exec'[n] = exec[n]
    BY DEF Base, LocalInv
  <2>2. CASE active'[n] = active[n]
    BY <1>1, <2>1, <2>2 DEF Local, Fits
  <2>3. CASE active[n].on /\ active'[n].on /\ active'[n].held = active[n].held
    BY <1>1, <2>1, <2>3 DEF Local, Fits
  <2> QED
    BY <2>2, <2>3
<1> QED
  BY <1>2, Silent_good DEF LocalInv

\* A caller whose task runs has an attempt, and is known if it is still open.
LEMMA Caller ==
  ASSUME Base, NEW c \in Child, exec[Parent[c]] \in {"run", "exit"}
  PROVE  /\ Parent[c] \in Node /\ active[Parent[c]].on
         /\ ~Terminal(Parent[c]) => Parent[c] \in Known /\ node[Parent[c]].state \in {"running", "children"}
<1>1. Parent[c] \in Node
  BY DEF Base, GraphAssumption, Child
<1> QED
  BY <1>1, Open_local DEF Base, LocalInv, Local, Fits

\* The write of a call that is withdrawn: the row alone may have changed.
LEMMA One_withdrawn ==
  ASSUME TypeOK, NEW n \in Node, NEW r, Lawful(n, r), CommitWithdrawn(n, One(n, r))
  PROVE  Writing /\ node' = node /\ err' /\ ~ctx' /\ faults' = faults
<1>1. /\ node' = node /\ err' = TRUE /\ ctx' = FALSE /\ wake' = (wake \/ ~err) /\ faults' = faults
      /\ \/ stored' = stored
         \/ ~err /\ lease /\ stored' = [m \in Node |-> IF m = n THEN RowOf(r) ELSE stored[m]]
  BY DEF CommitWithdrawn, Refused, RowsWith, One
<1>2. r \in NodeRecord /\ RowOf(r) \in RowRecord
  BY RowOf_type DEF Lawful
<1>3. stored' \in [Node -> RowRecord] /\ node' \in [Node -> NodeRecord]
  BY <1>1, <1>2 DEF TypeOK, RowRecord, NodeRecord
<1>4. \A m \in Node : Written(m)
  BY <1>1, <1>2 DEF Written
<1>5. wake' \in BOOLEAN /\ faults' \in Nat
  BY <1>1, Flags DEF TypeOK
<1> QED
  BY <1>1, <1>3, <1>4, <1>5 DEF Writing

\* A caller starts to wait for a child.
LEMMA Wait_good == ASSUME Base, NEW c \in Child, Wait(c) PROVE Good
<1> DEFINE p == Parent[c]
           r == [node[p] EXCEPT !.state = "children"]
<1>1. exec[p] = "run" /\ p \in Node /\ active[p].on
  BY Caller DEF Wait, MayCall
<1>2. exec' = exec
  BY DEF Wait
<1>3. CASE UNCHANGED <<node, stored, wake, err, ctx, faults>> /\ active' = active
  BY <1>2, <1>3, Quiet_good DEF Base, TypeOK
<1>4. CASE UNCHANGED <<node, stored, wake, err, ctx, faults>>
           /\ active' = [active EXCEPT ![p].waiters = @ + 1]
  <2>1. \A n \in Node : active'[n] = active[n] \/ n = p
    BY <1>4 DEF Base, TypeOK
  <2>2. active'[p].on = active[p].on /\ active'[p].held = active[p].held
    BY <1>1, <1>4 DEF Base, TypeOK
  <2> QED
    BY <1>1, <1>2, <1>4, <2>1, <2>2, Quiet_good DEF Base, TypeOK
<1>5. ASSUME Acting(p)
      PROVE  Lawful(p, r) /\ r.state = "children"
  <2>1. p \in Known /\ node[p].state \in {"running", "children"} /\ ~Terminal(p)
    BY <1>1, <1>5, Caller DEF Acting
  <2>2. r.state = "children"
    BY <1>1 DEF Base, TypeOK
  <2>3. Lawful(p, r)
    BY <1>1, <2>1, Lawful_values DEF Base, States, Final
  <2> QED
    BY <2>2, <2>3
<1>6. CASE Acting(p) /\ Commit(One(p, r), TRUE)
           /\ active' = [active EXCEPT ![p].held = FALSE, ![p].waiters = @ + 1]
  <2>1. Writing /\ ctx' = ctx /\ node' = [node EXCEPT ![p] = r] /\ node'[p] = r
    BY <1>1, <1>5, <1>6, One_commits DEF Base
  <2>2. active'[p].on /\ ~active'[p].held
    BY <1>1, <1>6 DEF Base, TypeOK
  <2>3. node[p].attempt > 0 /\ node'[p].attempt = node[p].attempt
    BY <1>1, <2>1 DEF Base, LocalInv, Local, Fits, TypeOK
  <2>4. Local(p)'
    BY <1>1, <1>2, <1>5, <1>6, <2>1, <2>2, <2>3 DEF Local, Fits, Final
  <2>5. \A m \in Node \ {p} : node'[m] = node[m] /\ active'[m] = active[m]
    BY <1>6, <2>1 DEF Base, TypeOK
  <2> QED
    BY <1>1, <1>2, <1>5, <1>6, <2>1, <2>4, <2>5, One_good DEF Final
<1>7. CASE /\ Acting(p) /\ active' = active
           /\ CommitFails(One(p, r), OneOrder(p), TRUE) \/ CommitWithdrawn(p, One(p, r))
  <2>1. Writing /\ ~ctx' /\ node' = node
    BY <1>1, <1>5, <1>7, One_fails, One_withdrawn DEF Base
  <2>2. Local(p)'
    BY <1>1, <1>2, <1>7, <2>1, Stays_local DEF Stays, Base, LocalInv
  <2> QED
    BY <1>1, <1>2, <1>7, <2>1, <2>2, One_good
<1> QED
  BY <1>3, <1>4, <1>6, <1>7 DEF Wait

\* The last wait of a caller is over and it runs again.
LEMMA Resume_good == ASSUME Base, CallsInv, NEW c \in Child, Resume(c) PROVE Good
<1> DEFINE p == Parent[c]
           r == [node[p] EXCEPT !.state = "running"]
<1>1. exec[p] \in {"run", "exit"} /\ p \in Node /\ active[p].on
  BY Caller DEF Resume, CallsInv
<1>2. exec' = exec
  BY DEF Resume
<1>3. CASE UNCHANGED <<node, stored, active, wake, err, ctx, faults>>
  BY <1>2, <1>3, Quiet_good DEF Base, TypeOK
<1>4. ASSUME ~Terminal(p)
      PROVE  Lawful(p, r) /\ r.state = "running"
  <2>1. p \in Known /\ node[p].state \in {"running", "children"}
    BY <1>1, <1>4, Caller
  <2>2. r.state = "running"
    BY <1>1 DEF Base, TypeOK
  <2>3. Lawful(p, r)
    BY <1>1, <1>4, <2>1, Lawful_values DEF Base, States, Final
  <2> QED
    BY <2>2, <2>3
<1>5. ASSUME active' = [active EXCEPT ![p].held = TRUE]
      PROVE  /\ active'[p].on /\ active'[p].held
             /\ \A m \in Node \ {p} : active'[m] = active[m]
  BY <1>1, <1>5 DEF Base, TypeOK
<1>6. CASE ~Terminal(p) /\ active' = [active EXCEPT ![p].held = TRUE] /\ Commit(One(p, r), TRUE)
  <2>1. Writing /\ ctx' = ctx /\ node' = [node EXCEPT ![p] = r] /\ node'[p] = r
    BY <1>1, <1>4, <1>6, One_commits DEF Base
  <2>2. node[p].attempt > 0 /\ node'[p].attempt = node[p].attempt
    BY <1>1, <2>1 DEF Base, LocalInv, Local, Fits, TypeOK
  <2>3. Local(p)'
    BY <1>1, <1>2, <1>4, <1>5, <1>6, <2>1, <2>2 DEF Local, Fits, Final
  <2>4. \A m \in Node \ {p} : node'[m] = node[m]
    BY <1>6, <2>1 DEF Base, TypeOK
  <2> QED
    BY <1>1, <1>2, <1>4, <1>5, <1>6, <2>1, <2>3, <2>4, One_good DEF Final
<1>7. CASE ~Terminal(p) /\ active' = [active EXCEPT ![p].held = TRUE]
           /\ CommitFails(One(p, r), OneOrder(p), TRUE)
  <2>1. Writing /\ ~ctx' /\ node' = node
    BY <1>1, <1>4, <1>7, One_fails DEF Base
  <2>2. Local(p)
    BY <1>1 DEF Base, LocalInv
  <2>3. Local(p)'
    BY <1>1, <1>2, <1>5, <1>7, <2>1, <2>2 DEF Local, Fits
  <2> QED
    BY <1>1, <1>2, <1>5, <1>7, <2>1, <2>3, One_good
<1> QED
  BY <1>3, <1>6, <1>7 DEF Resume, RunningAgain

\* The steps that write no row.
LEMMA AcquireSlot_good == ASSUME Base, NEW n \in Node, AcquireSlot(n) PROVE Good
<1>1. CASE Goto(n, "got")
  <2>1. Local(n)'
    BY <1>1 DEF AcquireSlot, Goto, driver, Base, LocalInv, Local, Fits, TypeOK
  <2> QED
    BY <1>1, <2>1, Step_good DEF AcquireSlot, driver
<1>2. CASE ~ctx /\ Goto(n, "none")
  BY <1>2, Leave_good DEF AcquireSlot, driver
<1> QED
  BY <1>1, <1>2 DEF AcquireSlot

\* The process of an attempt ends; nothing is written yet.
LEMMA TaskExits_good == ASSUME Base, NEW n \in Node, TaskExits(n) PROVE Good
<1>1. exec[n] = "run" /\ Goto(n, "exit") /\ UNCHANGED <<node, stored, active, wake, err, ctx, faults>>
  BY DEF TaskExits, driver
<1>2. Local(n)'
  BY <1>1 DEF Goto, Base, LocalInv, Local, Fits, TypeOK
<1> QED
  BY <1>1, <1>2, Step_good

\* A wait ends while others of the caller go on.
LEMMA StopWaiting_good == ASSUME Base, CallsInv, NEW c \in Child, StopWaiting(c) PROVE Good
<1>1. Parent[c] \in Node /\ active[Parent[c]].on
  BY Caller DEF StopWaiting, CallsInv
<1>2. active' = [active EXCEPT ![Parent[c]].waiters = @ - 1]
  BY DEF StopWaiting
<1>3. /\ \A n \in Node \ {Parent[c]} : active'[n] = active[n]
      /\ active'[Parent[c]].on = active[Parent[c]].on
      /\ active'[Parent[c]].held = active[Parent[c]].held
  BY <1>1, <1>2 DEF Base, TypeOK
<1> QED
  BY <1>1, <1>3, Quiet_good DEF StopWaiting, Base, TypeOK

\* Of the executor, and of what happens around it.
Quiet ==
  \/ Abandon \/ Wake \/ TakeOutside \/ GiveBackOutside \/ LoseLease \/ StopDriver
  \/ \E n \in Node : TimerFires(n)
  \/ \E c \in Child : LockResume(c) \/ LeaveResumeLoop(c) \/ LookAgain(c) \/ AcquireResume(c)

\* The steps that touch neither a row nor a node.
LEMMA Quiet_step ==
  ASSUME Base, Quiet
  PROVE  /\ Good /\ UNCHANGED <<node, stored, exec, active, err, claims>>
         /\ lease' => lease
         /\ run = "down" => run' = "down"
<1>1. /\ UNCHANGED <<node, stored, exec, active, err, claims>>
      /\ ctx' = ctx \/ ctx' = FALSE
      /\ run = "down" => run' = "down"
      /\ lease' = lease \/ lease' = FALSE
  BY DEF Quiet, Abandon, Wake, TakeOutside, GiveBackOutside, LoseLease, StopDriver, TimerFires,
         LockResume, LeaveResumeLoop, LookAgain, AcquireResume, driver
<1>2. wake' \in BOOLEAN
  <2>1. wake \in BOOLEAN
    BY Flags DEF Base
  <2>2. wake' = wake \/ wake' = FALSE \/ \E b \in BOOLEAN : wake' = (wake \/ b)
    <3>1. CASE Wake
      BY <3>1 DEF Wake
    <3>2. CASE \E n \in Node : TimerFires(n)
      BY <3>2 DEF TimerFires
    <3>3. CASE \/ Abandon \/ TakeOutside \/ GiveBackOutside \/ LoseLease \/ StopDriver
               \/ \E c \in Child : LockResume(c) \/ LeaveResumeLoop(c) \/ LookAgain(c) \/ AcquireResume(c)
      BY <3>3 DEF Abandon, TakeOutside, GiveBackOutside, LoseLease, StopDriver,
                  LockResume, LeaveResumeLoop, LookAgain, AcquireResume, driver
    <3> QED
      BY <3>1, <3>2, <3>3 DEF Quiet
  <2> QED
    BY <2>1, <2>2
<1>3. faults' \in Nat
  <2>1. faults' = faults \/ faults' = faults + 1
    BY DEF Quiet, Abandon, Wake, TakeOutside, GiveBackOutside, LoseLease, StopDriver, TimerFires,
           LockResume, LeaveResumeLoop, LookAgain, AcquireResume, driver
  <2> QED
    BY <2>1 DEF Base, TypeOK
<1>4. Good
  BY <1>1, <1>2, <1>3, Quiet_good
<1>5. lease' => lease
  BY <1>1, Flags DEF Base
<1> QED
  BY <1>1, <1>4, <1>5

\* The executor's own steps, and those that leave the graph alone.
Inner ==
  \/ Quiet \/ Dispatch \/ CloseRun \/ Cancel
  \/ \E n \in Node : \/ Start(n) \/ CacheReply(n) \/ ImageReply(n) \/ AcquireSlot(n) \/ Begin(n)
                     \/ TaskExits(n) \/ Finish(n) \/ CancelSubtree(n)
  \/ \E c \in Child : Wait(c) \/ StopWaiting(c) \/ Resume(c)

\* Every step of the executor and of the API is a lawful write.
LEMMA Inner_good ==
  ASSUME Base, CallsInv, Inner
  PROVE  /\ Good /\ adding' = adding /\ claims' = claims
         /\ lease' => lease
         /\ run = "down" => run' = "down"
<1>1. CASE Quiet
  BY <1>1, Quiet_step DEF Quiet, Abandon, Wake, TakeOutside, GiveBackOutside, LoseLease, StopDriver,
        TimerFires, LockResume, LeaveResumeLoop, LookAgain, AcquireResume
<1>2. CASE Dispatch
  BY <1>2, Dispatch_good DEF Dispatch
<1>3. CASE CloseRun
  BY <1>3, CloseRun_good DEF CloseRun
<1>4. CASE Cancel
  BY <1>4, Cancel_good DEF Cancel
<1>5. ASSUME NEW n \in Node, CancelSubtree(n) PROVE Good /\ UNCHANGED <<adding, claims, lease, run>>
  BY <1>5, CancelSubtree_good DEF CancelSubtree
<1>6. ASSUME NEW n \in Node, Start(n) PROVE Good /\ UNCHANGED <<adding, claims, lease, run>>
  BY <1>6, Start_good DEF Start
<1>7. ASSUME NEW n \in Node, CacheReply(n) PROVE Good /\ UNCHANGED <<adding, claims, lease, run>>
  BY <1>7, CacheReply_good DEF CacheReply
<1>8. ASSUME NEW n \in Node, ImageReply(n) PROVE Good /\ UNCHANGED <<adding, claims, lease, run>>
  BY <1>8, ImageReply_good DEF ImageReply
<1>9. ASSUME NEW n \in Node, AcquireSlot(n) PROVE Good /\ UNCHANGED <<adding, claims, lease, run>>
  BY <1>9, AcquireSlot_good DEF AcquireSlot, driver
<1>10. ASSUME NEW n \in Node, Begin(n) PROVE Good /\ UNCHANGED <<adding, claims, lease, run>>
  BY <1>10, Begin_good DEF Begin
<1>11. ASSUME NEW n \in Node, TaskExits(n) PROVE Good /\ UNCHANGED <<adding, claims, lease, run>>
  BY <1>11, TaskExits_good DEF TaskExits, driver
<1>12. ASSUME NEW n \in Node, Finish(n) PROVE Good /\ UNCHANGED <<adding, claims, lease, run>>
  BY <1>12, Finish_good DEF Finish
<1>13. ASSUME NEW c \in Child, Wait(c) PROVE Good /\ UNCHANGED <<adding, claims, lease, run>>
  BY <1>13, Wait_good DEF Wait
<1>14. ASSUME NEW c \in Child, StopWaiting(c) PROVE Good /\ UNCHANGED <<adding, claims, lease, run>>
  BY <1>14, StopWaiting_good DEF StopWaiting
<1>15. ASSUME NEW c \in Child, Resume(c) PROVE Good /\ UNCHANGED <<adding, claims, lease, run>>
  BY <1>15, Resume_good DEF Resume
<1> QED
  BY <1>1, <1>2, <1>3, <1>4, <1>5, <1>6, <1>7, <1>8, <1>9, <1>10, <1>11, <1>12, <1>13, <1>14,
     <1>15 DEF Inner

-----------------------------------------------------------------------------
(* The graph and its rows under such a step                                *)

\* Ended stays ended, absent stays absent, and a row that changes had been read back
\* by the executor as it was.
LEMMA Written_keeps ==
  ASSUME TypeOK, CommittedIsVisible, NEW n \in Node, Written(n), Writing
  PROVE  /\ node'[n].state = "absent" <=> node[n].state = "absent"
         /\ stored'[n].state = "absent" <=> stored[n].state = "absent"
         /\ node'[n].attempt >= node[n].attempt /\ stored'[n].attempt >= stored[n].attempt
         /\ Terminal(n) => node'[n] = node[n]
         /\ RowTerminal(n) => stored'[n] = stored[n]
         /\ n \notin Known => node'[n] = node[n] /\ stored'[n] = stored[n]
         /\ stored'[n] # stored[n] =>
              /\ ~err /\ lease /\ stored[n] = RowOf(node[n])
              /\ \E s \in NodeRecord : Lawful(n, s) /\ stored'[n] = RowOf(s)
<1>1. node[n] \in NodeRecord /\ stored[n] \in RowRecord
  BY DEF TypeOK, NodeRecord, RowRecord
<1>2. ASSUME NEW r \in NodeRecord
      PROVE  /\ RowOf(r).state = "absent" <=> r.state = "absent"
             /\ RowOf(r).state \in Final <=> r.state \in Final
             /\ RowOf(r).attempt = r.attempt
  BY <1>2, RowOf_type DEF Status, Final
<1>3. CASE node'[n] = node[n] /\ stored'[n] = stored[n]
  BY <1>1, <1>3 DEF NodeRecord, RowRecord
<1>4. ASSUME ~err, lease, NEW s \in NodeRecord, Lawful(n, s), stored'[n] = RowOf(s),
             node'[n] = s \/ node'[n] = node[n]
      PROVE  /\ node'[n].state = "absent" <=> node[n].state = "absent"
             /\ stored'[n].state = "absent" <=> stored[n].state = "absent"
             /\ node'[n].attempt >= node[n].attempt /\ stored'[n].attempt >= stored[n].attempt
             /\ ~Terminal(n) /\ ~RowTerminal(n) /\ n \in Known /\ stored[n] = RowOf(node[n])
  <2>1. n \in Known /\ ~Terminal(n) /\ s.state # "absent" /\ stored[n] = RowOf(node[n])
    BY <1>4 DEF Lawful, CommittedIsVisible
  <2>2. s.attempt >= node[n].attempt
    BY <1>1, <1>4 DEF Lawful, NodeRecord
  <2>3. node[n].state # "absent"
    BY <2>1 DEF Known
  <2>4. node[n].attempt >= node[n].attempt
    BY <1>1 DEF NodeRecord
  <2> QED
    BY <1>1, <1>2, <1>4, <2>1, <2>2, <2>3, <2>4 DEF Terminal, RowTerminal
<1> QED
  BY <1>3, <1>4 DEF Written

\* What the rows and the graph say of each other and of the callers.
GraphInv ==
  /\ RowInv /\ RestInv /\ NodeInv /\ FirstInv /\ CommittedIsVisible /\ SubtreeClosed
  /\ \A c \in Child : c \in adding => c \notin Known /\ stored[c].state # "absent"

\* A lawful write keeps the rows consistent.
LEMMA Rows_inner ==
  ASSUME GraphAssumption, TypeOK, GraphInv, Writing PROVE RowInv'
<1>1. ASSUME NEW n \in Node
      PROVE  /\ stored'[n].state = "absent" <=> stored[n].state = "absent"
             /\ stored'[n].attempt >= stored[n].attempt
             /\ RowTerminal(n) => stored'[n] = stored[n]
             /\ stored'[n] # stored[n] =>
                  /\ ~err /\ lease /\ stored[n] = RowOf(node[n])
                  /\ \E s \in NodeRecord : Lawful(n, s) /\ stored'[n] = RowOf(s)
  BY Written_keeps DEF GraphInv, Writing
<1>2. ASSUME NEW n \in Node, stored[n].state = "done" PROVE stored'[n].state = "done"
  BY <1>1, <1>2 DEF RowTerminal, Final
<1>3. \A n \in Node : stored'[n].state = "absent" => stored'[n].attempt = 0 /\ stored'[n].failures = 0
  <2>1. \A n \in Node : stored'[n].state = "absent" => stored'[n] = stored[n]
    <3>1. ASSUME NEW n \in Node, NEW s \in NodeRecord, Lawful(n, s), stored'[n] = RowOf(s)
          PROVE  stored'[n].state # "absent"
      BY <3>1, RowOf_type DEF Lawful, Status
    <3> QED
      BY <1>1, <3>1
  <2> QED
    BY <2>1 DEF GraphInv, RowInv
<1>4. ASSUME NEW c \in Child, stored'[c].state # "absent" PROVE stored'[Parent[c]].attempt > 0
  <2>1. c \in Node /\ Parent[c] \in Node
    BY DEF Child, GraphAssumption
  <2>2. stored[Parent[c]].attempt > 0
    BY <1>1, <1>4, <2>1 DEF GraphInv, RowInv
  <2> QED
    BY <1>1, <2>1, <2>2 DEF TypeOK, Writing, RowRecord
<1>5. ASSUME NEW n \in Node, stored'[n].attempt > 0
      PROVE  stored'[n].state # "absent" /\ \A p \in Prereq[n] : stored'[p].state = "done"
  <2>1. stored'[n].state # "absent"
    BY <1>3, <1>5
  <2>2. Prereq[n] \subseteq Node
    BY DEF GraphAssumption
  <2>3. CASE stored[n].attempt > 0
    BY <1>2, <2>1, <2>2, <2>3 DEF GraphInv, RowInv
  <2>4. CASE ~(stored[n].attempt > 0)
    <3>1. PICK s \in NodeRecord : Lawful(n, s) /\ stored'[n] = RowOf(s)
      BY <1>1, <1>5, <2>4
    <3>2. ~err /\ lease /\ stored[n] = RowOf(node[n])
      BY <1>1, <1>5, <2>4
    <3>3. node[n] \in NodeRecord
      BY DEF TypeOK, NodeRecord
    <3>4. s.attempt > 0 /\ ~(node[n].attempt > 0)
      BY <1>5, <2>4, <3>1, <3>2, <3>3, RowOf_type
    <3>5. node[n].state = "ready" /\ n \in Known
      BY <3>1, <3>3, <3>4 DEF Lawful, NodeRecord
    <3>6. \A p \in Prereq[n] : node[p].state = "done"
      BY <3>5 DEF GraphInv, NodeInv
    <3>7. ASSUME NEW p \in Prereq[n] PROVE stored[p].state = "done"
      <4>1. p \in Known /\ node[p].state = "done" /\ node[p] \in NodeRecord
        BY <2>2, <3>6 DEF Known, TypeOK, NodeRecord
      <4>2. stored[p] = RowOf(node[p])
        BY <3>2, <4>1 DEF GraphInv, CommittedIsVisible
      <4>3. RowOf(node[p]) = node[p]
        BY <4>1, RowOf_type DEF Final
      <4> QED
        BY <4>1, <4>2, <4>3
    <3> QED
      BY <1>2, <2>1, <2>2, <3>7
  <2> QED
    BY <2>3, <2>4
<1>6. stored'[Root].state # "absent"
  BY <1>1 DEF GraphAssumption, GraphInv, RowInv
<1> QED
  BY <1>3, <1>4, <1>5, <1>6 DEF RowInv

\* A lawful write keeps the nodes within the graph that was built.
LEMMA Nodes_inner ==
  ASSUME GraphAssumption, TypeOK, GraphInv, Writing
  PROVE  NodeInv' /\ Known' = Known
<1>1. ASSUME NEW n \in Node
      PROVE  /\ node'[n].state = "absent" <=> node[n].state = "absent"
             /\ node'[n].attempt >= node[n].attempt
             /\ Terminal(n) => node'[n] = node[n]
  BY Written_keeps DEF GraphInv, Writing
<1>2. Known' = Known
  BY <1>1 DEF Known
<1>3. ASSUME NEW n \in Node, node[n].state = "done" PROVE node'[n].state = "done"
  BY <1>1, <1>3 DEF Terminal, Final
<1>4. ASSUME NEW c \in Child, c \in Known'
      PROVE  Parent[c] \in Known' /\ node'[Parent[c]].attempt > 0
  <2>1. Parent[c] \in Known /\ node[Parent[c]].attempt > 0 /\ Parent[c] \in Node
    BY <1>2, <1>4 DEF GraphInv, NodeInv, Known
  <2> QED
    BY <1>1, <1>2, <2>1 DEF TypeOK, Writing, NodeRecord
<1>5. ASSUME NEW n \in Known',
             node'[n].attempt > 0 \/ node'[n].state \in {"ready", "image", "running", "children"}
      PROVE  \A p \in Prereq[n] : node'[p].state = "done"
  <2>1. n \in Known /\ n \in Node /\ Prereq[n] \subseteq Node
    BY <1>2 DEF Known, GraphAssumption
  <2>2. node[n] \in NodeRecord
    BY <2>1 DEF TypeOK, NodeRecord
  <2>3. SUFFICES \A p \in Prereq[n] : node[p].state = "done"
    BY <1>3, <2>1
  <2>4. CASE node'[n] = node[n]
    BY <1>5, <2>1, <2>4 DEF GraphInv, NodeInv
  <2>5. CASE node[n].attempt > 0 \/ node[n].state \in {"ready", "image", "running", "children"}
    BY <2>1, <2>5 DEF GraphInv, NodeInv
  <2>6. CASE /\ node'[n] # node[n]
             /\ ~(node[n].attempt > 0 \/ node[n].state \in {"ready", "image", "running", "children"})
    <3>1. node'[n] \in NodeRecord /\ Lawful(n, node'[n])
      BY <2>1, <2>6 DEF Writing, Written
    <3>2. node'[n] = [node[n] EXCEPT !.state = node'[n].state] /\ node[n].state = "pending"
      BY <2>2, <2>6, <3>1 DEF Lawful, Terminal, Known, NodeRecord, States, Final
    <3>3. node'[n].attempt = node[n].attempt
      BY <2>2, <3>2 DEF NodeRecord
    <3>4. node'[n].state \notin Final
      BY <1>5, <2>6, <3>3 DEF Final
    <3> QED
      BY <3>1, <3>2, <3>4 DEF Lawful, Final
  <2> QED
    BY <2>4, <2>5, <2>6
<1> QED
  BY <1>2, <1>4, <1>5 DEF NodeInv

\* A lawful write keeps the graph and the rows together.
LEMMA Graph_inner ==
  ASSUME GraphAssumption, TypeOK, GraphInv, RunInv, Good, adding' = adding, claims' = claims,
         lease' => lease, run = "down" => run' = "down"
  PROVE  GraphInv'
<1>1. Writing /\ RowInv' /\ NodeInv' /\ Known' = Known
  BY Rows_inner, Nodes_inner DEF Good
<1>2. ASSUME NEW n \in Node
      PROVE  /\ Written(n)
             /\ stored'[n].state = "absent" <=> stored[n].state = "absent"
             /\ Terminal(n) => node'[n] = node[n]
             /\ n \notin Known => node'[n] = node[n] /\ stored'[n] = stored[n]
             /\ stored'[n] # stored[n] => lease
  BY <1>1, Written_keeps DEF GraphInv, Writing
<1>3. err => err'
  BY <1>1 DEF Writing
<1>4. RestInv'
  <2>1. run' # "down" => \A n \in Node \ Known' : stored'[n].attempt = 0
    BY <1>1, <1>2 DEF RestInv, GraphInv
  <2>2. ~err' /\ lease' => \A n \in Node \ Known' : stored'[n].state \notin {"running", "waiting"}
    BY <1>1, <1>2, <1>3 DEF RestInv, GraphInv
  <2> QED
    BY <2>1, <2>2 DEF RestInv
<1>5. CommittedIsVisible'
  <2>1. SUFFICES ASSUME ~err', lease', NEW n \in Known' PROVE stored'[n] = RowOf(node'[n])
    BY DEF CommittedIsVisible, RowOf, Status, Known
  <2>2. n \in Known /\ n \in Node /\ stored[n] = RowOf(node[n])
    BY <1>1, <1>3, <2>1 DEF CommittedIsVisible, GraphInv, Known
  <2> QED
    BY <1>2, <2>1, <2>2 DEF Written
<1>6. SubtreeClosed'
  <2>1. SUFFICES ASSUME ~err', claims <= 1, NEW n \in Known, node'[n].state \in Final,
                        NEW d \in Descendants[n] \cap Known
                 PROVE  node'[d].state \in Final
    BY <1>1 DEF SubtreeClosed, Terminal
  <2>2. n \in Node /\ d \in Node /\ d \in Known'
    BY <1>1 DEF Known
  <2>3. CASE Terminal(n)
    <3>1. Terminal(d)
      BY <1>3, <2>1, <2>3 DEF GraphInv, SubtreeClosed
    <3> QED
      BY <1>2, <2>2, <3>1 DEF Terminal
  <2>4. CASE ~Terminal(n)
    <3>1. node'[d].state \in Final \cup {"absent"}
      BY <2>1, <2>2, <2>4 DEF Good, Closing
    <3> QED
      BY <2>2, <3>1 DEF Known
  <2> QED
    BY <2>3, <2>4
<1>7. FirstInv'
  <2>1. SUFFICES ASSUME claims = 0 PROVE run' = "down" /\ \A c \in Child : stored'[c].state = "absent"
    BY DEF FirstInv
  <2>2. run = "down" /\ ~lease /\ \A c \in Child : stored[c].state = "absent"
    BY <2>1 DEF GraphInv, FirstInv, RunInv
  <2> QED
    BY <1>2, <2>2 DEF Child
<1>8. \A c \in Child : c \in adding' => c \notin Known' /\ stored'[c].state # "absent"
  BY <1>1, <1>2 DEF GraphInv, Child
<1> QED
  BY <1>1, <1>4, <1>5, <1>6, <1>7, <1>8 DEF GraphInv

-----------------------------------------------------------------------------
(* The steps that replace the graph or touch the rows from outside         *)

\* A row that does not exist is a record.
LEMMA Absent_record == Absent \in NodeRecord /\ Absent.state = "absent" /\ Absent.attempt = 0
BY DEF Absent, NodeRecord, States, Final

\* A node without goroutine, attempt and shown work fits.
LEMMA Idle_fits ==
  ASSUME NEW r, NEW live, r.state \notin {"running", "children"}
  PROVE  Fits(r, "none", Inactive, live)
BY DEF Fits, Inactive

\* No goroutine runs while the run is down.
LEMMA Down_idle ==
  ASSUME GraphAssumption, LocalInv, CallsInv, RunInv, run = "down"
  PROVE  /\ \A n \in Node : exec[n] = "none" /\ active[n] = Inactive
         /\ adding \cap Child = {}
         /\ \A c \in Child : call[c] \in {"idle", "returned"}
<1>1. \A n \in Node : exec[n] = "none"
  BY DEF RunInv
<1>2. \A n \in Node : active[n] = Inactive
  BY <1>1 DEF LocalInv, Local, Fits
<1>3. \A c \in Child : exec[Parent[c]] = "none"
  BY <1>1 DEF GraphAssumption, Child
<1>4. \A c \in Child : ~(call[c] \notin {"idle", "returned"} \/ c \in adding)
  BY <1>3 DEF CallsInv
<1> QED
  BY <1>1, <1>2, <1>4

\* A claim rebuilds the graph from the rows.
LEMMA Claim_graph ==
  ASSUME GraphAssumption, TypeOK, LocalInv, CallsInv, RunInv, GraphInv, Claim
  PROVE  GraphInv' /\ LocalInv'
<1>1. /\ run = "down" /\ claims' = claims + 1 /\ run' = "eval" /\ adding' = adding
      /\ exec' = exec /\ active' = active
      /\ \A n \in Node : stored'[n] = Reset(stored[n]) /\ node'[n] = NodeOf(stored[n])
  BY DEF Claim
<1>2. ASSUME NEW n \in Node
      PROVE  /\ node'[n] \in NodeRecord
             /\ stored'[n].attempt = stored[n].attempt /\ stored'[n].failures = stored[n].failures
             /\ node'[n].attempt = stored[n].attempt
             /\ node'[n].state \in Final \cup {"absent", "pending"}
             /\ stored'[n].state \notin {"running", "waiting"}
             /\ node'[n].state = "absent" <=> stored[n].state = "absent"
             /\ stored'[n].state = "absent" <=> stored[n].state = "absent"
             /\ node'[n].state = "done" <=> stored[n].state = "done"
             /\ stored'[n].state = "done" <=> stored[n].state = "done"
             /\ stored'[n] = RowOf(node'[n])
  <2>1. stored[n] \in RowRecord
    BY DEF TypeOK, RowRecord
  <2> QED
    BY <1>1, <2>1, Restored DEF Final
<1>3. LocalInv'
  <2>1. ASSUME NEW n \in Node PROVE Local(n)'
    <3>1. exec'[n] = "none" /\ active'[n] = Inactive
      BY <1>1, Down_idle
    <3>2. node'[n].state \notin {"running", "children"}
      BY <1>2 DEF Final
    <3> QED
      BY <3>1, <3>2, Idle_fits DEF Local
  <2> QED
    BY <2>1 DEF LocalInv
<1>4. \A c \in Child : c \in Node /\ Parent[c] \in Node
  BY DEF GraphAssumption, Child
<1>5. \A n \in Node : Prereq[n] \subseteq Node
  BY DEF GraphAssumption
<1>6. RowInv'
  BY <1>2, <1>4, <1>5 DEF GraphInv, RowInv, GraphAssumption
<1>7. RestInv'
  BY <1>2 DEF GraphInv, RowInv, RestInv, Known
<1>8. NodeInv'
  <2>1. ASSUME NEW c \in Child, c \in Known' PROVE Parent[c] \in Known' /\ node'[Parent[c]].attempt > 0
    BY <1>2, <1>4, <2>1 DEF Known, GraphInv, RowInv
  <2>2. ASSUME NEW n \in Known',
               node'[n].attempt > 0 \/ node'[n].state \in {"ready", "image", "running", "children"}
        PROVE  \A p \in Prereq[n] : node'[p].state = "done"
    BY <1>2, <1>5, <2>2 DEF Known, GraphInv, RowInv, Final
  <2> QED
    BY <2>1, <2>2 DEF NodeInv
<1>9. FirstInv'
  BY <1>1 DEF FirstInv, TypeOK
<1>10. CommittedIsVisible'
  BY <1>2 DEF CommittedIsVisible, Known, RowOf, Status
<1>11. SubtreeClosed'
  <2>1. SUFFICES ASSUME claims' <= 1, NEW d \in Child, d \in Known' PROVE FALSE
    BY Descendants_type DEF SubtreeClosed, Known
  <2>2. claims = 0
    BY <1>1, <2>1 DEF TypeOK
  <2>3. stored[d].state = "absent"
    BY <2>2 DEF GraphInv, FirstInv
  <2> QED
    BY <1>2, <1>4, <2>1, <2>3 DEF Known
<1>12. \A c \in Child : c \notin adding'
  BY <1>1, Down_idle
<1> QED
  BY <1>3, <1>6, <1>7, <1>8, <1>9, <1>10, <1>11, <1>12 DEF GraphInv

\* The executor is gone, and its rows remain.
LEMMA Gone_graph ==
  ASSUME GraphAssumption, TypeOK, GraphInv, stored' = stored, node' = [n \in Node |-> Absent],
         run' = "down", claims' = claims, ~lease', adding' \subseteq adding,
         \A n \in Node : exec'[n] = "none" /\ active'[n] = Inactive
  PROVE  GraphInv' /\ LocalInv'
<1>1. \A n \in Node : node'[n].state = "absent" /\ n \notin Known'
  BY Absent_record DEF Known
<1>2. LocalInv'
  BY <1>1, Idle_fits DEF LocalInv, Local
<1>3. Known' = {}
  BY <1>1 DEF Known
<1>4. RowInv' /\ RestInv' /\ NodeInv' /\ FirstInv' /\ CommittedIsVisible' /\ SubtreeClosed'
  BY <1>3 DEF GraphInv, RowInv, RestInv, NodeInv, FirstInv, CommittedIsVisible, SubtreeClosed, Child
<1> QED
  BY <1>2, <1>3, <1>4 DEF GraphInv

\* Run returns: its worker forgets the graph.
LEMMA Return_graph ==
  ASSUME Base, GraphInv, Return PROVE GraphInv' /\ LocalInv'
<1>1. /\ stored' = stored /\ node' = [n \in Node |-> Absent] /\ run' = "down" /\ claims' = claims
      /\ ~lease' /\ adding' \subseteq adding
      /\ \A n \in Node : exec'[n] = "none" /\ active'[n] = active[n] /\ exec[n] = "none"
  BY DEF Return
<1>2. \A n \in Node : active[n] = Inactive
  BY <1>1 DEF Base, LocalInv, Local, Fits
<1> QED
  BY <1>1, <1>2, Gone_graph DEF Base

\* A worker that dies forgets the graph.
LEMMA Crash_graph ==
  ASSUME Base, GraphInv, Crash PROVE GraphInv' /\ LocalInv'
BY Gone_graph DEF Base, Crash

\* CancelRun ends the rows; the graph of the worker is left behind.
LEMMA CancelRun_graph ==
  ASSUME Base, GraphInv, CancelRun PROVE GraphInv' /\ LocalInv'
<1>1. /\ UNCHANGED <<node, exec, active, adding, run, err, ctx, claims>> /\ ~lease'
      /\ \A n \in Node :
           stored'[n] = IF stored[n].state \in Final \cup {"absent"} THEN stored[n]
                        ELSE [stored[n] EXCEPT !.state = "canceled"]
  BY DEF CancelRun
<1>2. ASSUME NEW n \in Node
      PROVE  /\ stored'[n].attempt = stored[n].attempt /\ stored'[n].failures = stored[n].failures
             /\ stored'[n].state = "absent" <=> stored[n].state = "absent"
             /\ stored'[n].state = "done" <=> stored[n].state = "done"
  <2>1. stored[n] \in RowRecord
    BY DEF Base, TypeOK, RowRecord
  <2>2. ASSUME NEW r \in RowRecord
        PROVE  LET k == [r EXCEPT !.state = "canceled"]
               IN k.state = "canceled" /\ k.attempt = r.attempt /\ k.failures = r.failures
    BY DEF RowRecord
  <2> QED
    BY <1>1, <2>1, <2>2 DEF Final
<1>3. LocalInv'
  BY <1>1 DEF Base, LocalInv, Local, Fits
<1>4. (\A c \in Child : c \in Node /\ Parent[c] \in Node) /\ \A n \in Node : Prereq[n] \subseteq Node
  BY DEF Base, GraphAssumption, Child
<1>5. Known' = Known
  BY <1>1 DEF Known
<1>6. RowInv'
  BY <1>2, <1>4 DEF GraphInv, RowInv, Base, GraphAssumption
<1>7. RestInv' /\ FirstInv'
  BY <1>1, <1>2, <1>4, <1>5 DEF GraphInv, RestInv, FirstInv
<1>8. NodeInv' /\ CommittedIsVisible' /\ SubtreeClosed'
  BY <1>1, <1>5 DEF Base, GraphInv, NodeInv, CommittedIsVisible, SubtreeClosed, Terminal
<1> QED
  BY <1>1, <1>2, <1>3, <1>4, <1>5, <1>6, <1>7, <1>8 DEF GraphInv

\* The time of a retry comes.
LEMMA Elapse_graph ==
  ASSUME Base, GraphInv, NEW n \in Node, Elapse(n) PROVE GraphInv' /\ LocalInv'
<1>1. /\ UNCHANGED <<exec, active, adding, run, err, ctx, lease, claims>>
      /\ stored' = [stored EXCEPT ![n].backoff = FALSE] /\ node' = [node EXCEPT ![n].backoff = FALSE]
  BY DEF Elapse, driver
<1>2. ASSUME NEW m \in Node
      PROVE  /\ stored'[m].state = stored[m].state /\ stored'[m].attempt = stored[m].attempt
             /\ stored'[m].failures = stored[m].failures
             /\ node'[m].state = node[m].state /\ node'[m].attempt = node[m].attempt
             /\ node'[m].failures = node[m].failures
  BY <1>1 DEF Base, TypeOK
<1>3. LocalInv'
  BY <1>1, <1>2 DEF Base, LocalInv, Local, Fits
<1>4. (\A c \in Child : c \in Node /\ Parent[c] \in Node) /\ \A m \in Node : Prereq[m] \subseteq Node
  BY DEF Base, GraphAssumption, Child
<1>5. Known' = Known
  BY <1>2 DEF Known
<1>6. RowInv'
  BY <1>2, <1>4 DEF GraphInv, RowInv, Base, GraphAssumption
<1>7. RestInv' /\ FirstInv'
  BY <1>1, <1>2, <1>4, <1>5 DEF GraphInv, RestInv, FirstInv
<1>8. NodeInv'
  BY <1>2, <1>4, <1>5 DEF GraphInv, NodeInv, Known
<1>9. SubtreeClosed'
  BY <1>1, <1>2, <1>5 DEF GraphInv, SubtreeClosed, Terminal, Known
<1>10. CommittedIsVisible'
  <2>1. SUFFICES ASSUME ~err, lease, NEW m \in Known PROVE stored'[m] = RowOf(node'[m])
    BY <1>1, <1>5 DEF CommittedIsVisible, RowOf, Status, Known
  <2>2. m \in Node /\ stored[m] = RowOf(node[m])
    BY <2>1 DEF GraphInv, CommittedIsVisible, Known
  <2>3. CASE m # n
    BY <1>1, <2>2, <2>3 DEF Base, TypeOK
  <2>4. CASE m = n
    <3>1. stored'[m] = [stored[m] EXCEPT !.backoff = FALSE] /\ node'[m] = [node[m] EXCEPT !.backoff = FALSE]
      BY <1>1, <2>2, <2>4 DEF Base, TypeOK
    <3>2. ASSUME NEW r \in NodeRecord
          PROVE  [RowOf(r) EXCEPT !.backoff = FALSE] = RowOf([r EXCEPT !.backoff = FALSE])
      BY DEF NodeRecord, RowOf, Status
    <3>3. node[m] \in NodeRecord
      BY <2>2 DEF Base, TypeOK, NodeRecord
    <3> QED
      BY <2>2, <3>1, <3>2, <3>3
  <2> QED
    BY <2>3, <2>4
<1> QED
  BY <1>1, <1>2, <1>3, <1>4, <1>5, <1>6, <1>7, <1>8, <1>9, <1>10 DEF GraphInv

\* A row of a child is created while its caller runs.
LEMMA CreateRow_graph ==
  ASSUME Base, RunInv, GraphInv, NEW c \in Child, CreateRow(c) PROVE GraphInv' /\ LocalInv'
<1>1. /\ UNCHANGED <<node, exec, active, run, err, ctx, lease, claims>>
      /\ adding' = adding \cup {c} /\ c \notin Known
      /\ stored' = IF stored[c].state # "absent" THEN stored
                   ELSE [stored EXCEPT ![c].state = "queued"]
      /\ exec[Parent[c]] = "run" /\ stored[Parent[c]].attempt = node[Parent[c]].attempt
  BY DEF CreateRow, MayCall, driver
<1>2. (\A d \in Child : d \in Node /\ Parent[d] \in Node) /\ \A m \in Node : Prereq[m] \subseteq Node
  BY DEF Base, GraphAssumption, Child
<1>3. ASSUME NEW m \in Node
      PROVE  /\ stored'[m].attempt = stored[m].attempt /\ stored'[m].failures = stored[m].failures
             /\ stored'[m].state = stored[m].state \/ (stored'[m].state = "queued" /\ m = c)
             /\ m # c => stored'[m] = stored[m]
             /\ stored'[m].state = "done" <=> stored[m].state = "done"
  BY <1>1, <1>2 DEF Base, TypeOK
<1>4. stored'[c].state # "absent" /\ stored[Parent[c]].attempt > 0
  <2>1. stored'[c].state # "absent"
    BY <1>1, <1>2 DEF Base, TypeOK
  <2> QED
    BY <1>1, <1>2, <2>1 DEF Base, LocalInv, Local, Fits
<1>5. LocalInv'
  BY <1>1 DEF Base, LocalInv, Local, Fits
<1>6. Known' = Known
  BY <1>1 DEF Known
<1>7. RowInv'
  <2>1. \A m \in Node : stored'[m].state = "absent" => stored'[m].attempt = 0 /\ stored'[m].failures = 0
    BY <1>3 DEF GraphInv, RowInv
  <2>2. \A d \in Child : stored'[d].state # "absent" => stored'[Parent[d]].attempt > 0
    BY <1>2, <1>3, <1>4 DEF GraphInv, RowInv
  <2>3. \A m \in Node : stored'[m].attempt > 0 =>
          stored'[m].state # "absent" /\ \A p \in Prereq[m] : stored'[p].state = "done"
    BY <1>2, <1>3 DEF GraphInv, RowInv
  <2>4. stored'[Root].state # "absent"
    BY <1>3 DEF GraphInv, RowInv, Base, GraphAssumption
  <2> QED
    BY <2>1, <2>2, <2>3, <2>4 DEF RowInv
<1>8. RestInv'
  BY <1>1, <1>3, <1>6 DEF GraphInv, RestInv
<1>9. FirstInv'
  <2>1. run # "down"
    BY <1>1, <1>2 DEF RunInv
  <2> QED
    BY <1>1, <2>1 DEF GraphInv, FirstInv
<1>10. NodeInv' /\ SubtreeClosed'
  BY <1>1, <1>6 DEF GraphInv, NodeInv, SubtreeClosed, Terminal
<1>11. CommittedIsVisible'
  BY <1>1, <1>3, <1>6 DEF GraphInv, CommittedIsVisible, Known
<1>12. \A d \in Child : d \in adding' => d \notin Known' /\ stored'[d].state # "absent"
  BY <1>1, <1>2, <1>3, <1>4, <1>6 DEF GraphInv
<1> QED
  BY <1>5, <1>7, <1>8, <1>9, <1>10, <1>11, <1>12 DEF GraphInv

\* A created child enters the graph.
LEMMA AddNode_graph ==
  ASSUME Base, RunInv, CallsInv, GraphInv, NEW c \in Child, AddNode(c) PROVE GraphInv' /\ LocalInv'
<1> DEFINE p == Parent[c]
<1>1. /\ UNCHANGED <<stored, exec, active, run, err, ctx, lease, claims>>
      /\ adding' = adding \ {c} /\ c \in adding /\ c \notin Known /\ stored[c].state # "absent"
      /\ exec[p] \in {"run", "exit"}
  BY DEF AddNode, GraphInv, CallsInv
<1>2. CASE node' = node
  <2>1. LocalInv' /\ Known' = Known
    BY <1>1, <1>2 DEF Base, LocalInv, Local, Fits, Known
  <2>2. RowInv' /\ RestInv' /\ NodeInv' /\ FirstInv' /\ CommittedIsVisible' /\ SubtreeClosed'
    BY <1>1, <1>2, <2>1 DEF GraphInv, RowInv, RestInv, NodeInv, FirstInv, CommittedIsVisible,
                            SubtreeClosed, Terminal
  <2> QED
    BY <1>1, <2>1, <2>2 DEF GraphInv
<1>3. ASSUME ~err, Acting(p), node' = [node EXCEPT ![c] = NodeOf(stored[c])]
      PROVE  GraphInv' /\ LocalInv'
  <2>1. /\ c \in Node /\ p \in Node /\ \A d \in Child : d \in Node /\ Parent[d] \in Node
        /\ \A m \in Node : Prereq[m] \subseteq Node
    BY DEF Base, GraphAssumption, Child
  <2>2. stored[c] \in RowRecord
    BY <2>1 DEF Base, TypeOK, RowRecord
  <2>3. /\ \A m \in Node \ {c} : node'[m] = node[m]
        /\ node'[c] = NodeOf(stored[c]) /\ node'[c] \in NodeRecord
        /\ node'[c].state \in Final \cup {"pending"} /\ node'[c].attempt = stored[c].attempt
    BY <1>1, <1>3, <2>1, <2>2, Restored DEF Base, TypeOK
  <2>4. Known' = Known \cup {c}
    BY <2>1, <2>3 DEF Known, Final
  <2>5. node[c].state = "absent"
    BY <1>1, <2>1 DEF Known
  <2>6. p \in Known /\ node[p].attempt > 0 /\ p # c /\ ~Terminal(p)
    BY <1>1, <1>3, <2>1, <2>5, Caller DEF Base, LocalInv, Local, Fits, Acting
  <2>7. LocalInv'
    <3>1. exec[c] = "none" /\ active[c] = Inactive
      BY <2>1, <2>5 DEF Base, LocalInv, Local, Fits, TypeOK, Pcs, Final
    <3>2. Local(c)'
      BY <1>1, <2>3, <3>1, Idle_fits DEF Local, Final
    <3>3. \A m \in Node \ {c} : Local(m)'
      BY <1>1, <2>3 DEF Base, LocalInv, Local, Fits
    <3> QED
      BY <3>2, <3>3 DEF LocalInv
  <2>8. RowInv' /\ RestInv' /\ FirstInv'
    BY <1>1, <2>4 DEF GraphInv, RowInv, RestInv, FirstInv
  <2>9. node'[c].attempt = 0
    <3>1. run # "down"
      BY <1>1, <2>1 DEF RunInv
    <3> QED
      BY <1>1, <2>1, <2>3, <3>1 DEF GraphInv, RestInv
  <2>10. NodeInv'
    <3>1. ASSUME NEW d \in Child, d \in Known' PROVE Parent[d] \in Known' /\ node'[Parent[d]].attempt > 0
      <4>1. Parent[d] \in Known /\ node[Parent[d]].attempt > 0
        BY <2>4, <2>6, <3>1 DEF GraphInv, NodeInv
      <4> QED
        BY <1>1, <2>1, <2>3, <2>4, <4>1
    <3>2. ASSUME NEW m \in Known',
                 node'[m].attempt > 0 \/ node'[m].state \in {"ready", "image", "running", "children"},
                 NEW q \in Prereq[m]
          PROVE  node'[q].state = "done"
      <4>1. m \in Known /\ m \in Node /\ m # c
        BY <1>1, <2>3, <2>4, <2>9, <3>2 DEF Final, Known
      <4>2. node[q].state = "done" /\ q \in Node
        BY <2>1, <2>3, <3>2, <4>1 DEF GraphInv, NodeInv
      <4> QED
        BY <2>3, <2>5, <4>2
    <3> QED
      BY <3>1, <3>2 DEF NodeInv
  <2>11. CommittedIsVisible'
    <3>1. SUFFICES ASSUME lease, NEW m \in Known' PROVE stored[m] = RowOf(node'[m])
      BY <1>1 DEF CommittedIsVisible, RowOf, Status, Known
    <3>2. CASE m = c
      <4>1. stored[c].state \notin {"running", "waiting"}
        BY <1>1, <1>3, <2>1, <3>1 DEF GraphInv, RestInv
      <4> QED
        BY <2>2, <2>3, <3>2, <4>1, Restored
    <3>3. CASE m # c
      BY <1>3, <2>3, <2>4, <3>1, <3>3 DEF GraphInv, CommittedIsVisible, Known
    <3> QED
      BY <3>2, <3>3
  <2>12. SubtreeClosed'
    <3>1. SUFFICES ASSUME claims <= 1, NEW n \in Known', node'[n].state \in Final,
                          NEW d \in Descendants[n], d \in Known'
                   PROVE  node'[d].state \in Final
      BY <1>1 DEF SubtreeClosed, Terminal
    <3>2. CASE n = c
      <4>1. Known \in SUBSET Node /\ \A e \in Child : e \in Known => Parent[e] \in Known
        BY DEF GraphInv, NodeInv, Known
      <4>2. d \notin Known
        BY <1>1, <2>1, <3>1, <3>2, <4>1, Desc_known
      <4> QED
        BY <2>4, <3>1, <3>2, <4>2
    <3>3. CASE n # c
      <4>1. n \in Known /\ n \in Node /\ Terminal(n)
        BY <2>3, <2>4, <3>1, <3>3 DEF Known, Terminal
      <4>2. d # c
        BY <1>3, <2>6, <3>1, <4>1, Desc_parent DEF GraphInv, SubtreeClosed
      <4>3. d \in Known /\ d \in Node
        BY <2>4, <3>1, <4>2 DEF Known
      <4>4. Terminal(d)
        BY <1>3, <3>1, <4>1, <4>3 DEF GraphInv, SubtreeClosed
      <4> QED
        BY <2>3, <4>2, <4>3, <4>4 DEF Terminal
    <3> QED
      BY <3>2, <3>3
  <2>13. \A d \in Child : d \in adding' => d \notin Known' /\ stored'[d].state # "absent"
    BY <1>1, <2>4 DEF GraphInv
  <2> QED
    BY <2>7, <2>8, <2>10, <2>11, <2>12, <2>13 DEF GraphInv
<1> QED
  BY <1>2, <1>3 DEF AddNode

-----------------------------------------------------------------------------
(* Goroutines, attempts, calls and slots                                   *)

AttemptRecord == [on : BOOLEAN, held : BOOLEAN, canceled : BOOLEAN, waiters : Nat]
RunStates == {"down", "eval", "wait", "drain"}

Shape ==
  /\ exec \in [Node -> Pcs] /\ active \in [Node -> AttemptRecord]
  /\ call \in [Child -> CallPcs] /\ adding \in SUBSET Child /\ timers \in SUBSET Node
  /\ free \in Nat /\ outside \in Nat

\* A call in flight, and the first half of CallsInv.
Busy(c) == call[c] \notin {"idle", "returned"} \/ c \in adding
BusyInv == \A c \in Child : Busy(c) => exec[Parent[c]] \in {"run", "exit"}

ControlInv == Shape /\ BusyInv /\ ResumeInv /\ WaitersInv /\ SlotConservation

\* What is counted is finite.
LEMMA Finite ==
  ASSUME GraphAssumption
  PROVE  /\ IsFiniteSet(Holding) /\ IsFiniteSet(Taking) /\ IsFiniteSet(Returning)
         /\ Cardinality(Holding) \in Nat /\ Cardinality(Taking) \in Nat
         /\ Cardinality(Returning) \in Nat
         /\ \A p \in Node : IsFiniteSet(Waiters(p)) /\ Cardinality(Waiters(p)) \in Nat
<1>1. IsFiniteSet(Node)
  BY DEF GraphAssumption
<1>2. /\ Holding \subseteq Node /\ Taking \subseteq Node /\ Returning \subseteq Node
      /\ \A p \in Node : Waiters(p) \subseteq Node
  BY DEF Holding, Taking, Returning, Waiters, Children, Child
<1>3. \A S \in SUBSET Node : IsFiniteSet(S) /\ Cardinality(S) \in Nat
  BY <1>1, FS_Subset, FS_CardinalityType
<1> QED
  BY <1>2, <1>3

\* One more, one fewer.
LEMMA Count ==
  ASSUME NEW S, IsFiniteSet(S), NEW x
  PROVE  /\ Cardinality(S) \in Nat
         /\ x \notin S => Cardinality(S \cup {x}) = Cardinality(S) + 1
         /\ x \in S => /\ Cardinality(S \ {x}) = Cardinality(S) - 1
                       /\ Cardinality(S) > 0
<1>1. Cardinality(S) \in Nat
  BY FS_CardinalityType
<1>2. x \notin S => Cardinality(S \cup {x}) = Cardinality(S) + 1
  BY FS_AddElement
<1>3. ASSUME x \in S PROVE Cardinality(S \ {x}) = Cardinality(S) - 1 /\ Cardinality(S) > 0
  <2>1. Cardinality(S \ {x}) = Cardinality(S) - 1
    BY <1>3, FS_RemoveElement
  <2>2. Cardinality(S \ {x}) \in Nat
    BY FS_RemoveElement, FS_CardinalityType
  <2> QED
    BY <1>1, <2>1, <2>2
<1> QED
  BY <1>1, <1>2, <1>3

\* A step that makes no call, takes or gives back no slot, and starts or ends no task.
LEMMA Control_frame ==
  ASSUME GraphAssumption, ControlInv, exec' \in [Node -> Pcs], active' \in [Node -> AttemptRecord],
         \A n \in Node :
           /\ exec'[n] \in {"run", "exit"} <=> exec[n] \in {"run", "exit"}
           /\ exec'[n] = "got" <=> exec[n] = "got"
           /\ active'[n].held = active[n].held /\ active'[n].waiters = active[n].waiters,
         call' = call, adding' \subseteq adding, timers' \in SUBSET Node,
         UNCHANGED <<free, outside>>
  PROVE  ControlInv'
<1>1. \A c \in Child : Parent[c] \in Node
  BY DEF GraphAssumption, Child
<1>2. Shape' /\ BusyInv'
  BY <1>1 DEF ControlInv, Shape, BusyInv, Busy
<1>3. ResumeInv'
  BY <1>1 DEF ControlInv, ResumeInv
<1>4. WaitersInv'
  BY DEF ControlInv, WaitersInv, Waiters
<1>5. SlotConservation'
  <2>1. Holding' = Holding /\ Taking' = Taking /\ Returning' = Returning
    BY DEF Holding, Taking, Returning
  <2> QED
    BY <2>1 DEF ControlInv, SlotConservation
<1> QED
  BY <1>2, <1>3, <1>4, <1>5 DEF ControlInv

\* closeLocked marks attempts and changes nothing else about them.
LEMMA CancelAttempts_frame ==
  ASSUME TypeOK, NEW K
  PROVE  /\ CancelAttempts(K) \in [Node -> AttemptRecord]
         /\ \A n \in Node : /\ CancelAttempts(K)[n].held = active[n].held
                            /\ CancelAttempts(K)[n].waiters = active[n].waiters
<1>1. ASSUME NEW r \in AttemptRecord
      PROVE  LET a == [r EXCEPT !.canceled = r.on]
             IN a \in AttemptRecord /\ a.held = r.held /\ a.waiters = r.waiters
  BY DEF AttemptRecord
<1>2. \A n \in Node : active[n] \in AttemptRecord
  BY DEF TypeOK, AttemptRecord
<1>3. ASSUME NEW n \in Node
      PROVE  /\ CancelAttempts(K)[n] \in AttemptRecord
             /\ CancelAttempts(K)[n].held = active[n].held
             /\ CancelAttempts(K)[n].waiters = active[n].waiters
  BY <1>1, <1>2 DEF CancelAttempts
<1> QED
  BY <1>3 DEF CancelAttempts

\* The steps within the frame.
Framed ==
  \/ Claim \/ Dispatch \/ CloseRun \/ Abandon \/ Wake \/ Return
  \/ LoseLease \/ StopDriver \/ CancelRun \/ Cancel
  \/ \E n \in Node : \/ Start(n) \/ CacheReply(n) \/ ImageReply(n) \/ TaskExits(n)
                     \/ Elapse(n) \/ TimerFires(n) \/ CancelSubtree(n)
  \/ \E c \in Child : AddNode(c)

\* Where execute goes between its first section and the slot.
LEMMA Goto_frame ==
  ASSUME TypeOK, NEW n \in Node, NEW pc \in {"none", "cache", "image", "slot"}, Goto(n, pc),
         exec[n] \in {"start", "cache", "image"}
  PROVE  /\ exec' \in [Node -> Pcs]
         /\ \A m \in Node : /\ exec'[m] \in {"run", "exit"} <=> exec[m] \in {"run", "exit"}
                            /\ exec'[m] = "got" <=> exec[m] = "got"
BY DEF Goto, TypeOK, Pcs

\* A step that takes or returns no slot and changes no call.
LEMMA Control_framed ==
  ASSUME Base, ControlInv, Framed PROVE ControlInv'
<1> DEFINE Exec == /\ exec' \in [Node -> Pcs]
                   /\ \A m \in Node : /\ exec'[m] \in {"run", "exit"} <=> exec[m] \in {"run", "exit"}
                                      /\ exec'[m] = "got" <=> exec[m] = "got"
           Active == /\ active' \in [Node -> AttemptRecord]
                     /\ \A m \in Node : /\ active'[m].held = active[m].held
                                        /\ active'[m].waiters = active[m].waiters
           Rest == /\ call' = call /\ adding' \subseteq adding /\ timers' \in SUBSET Node
                   /\ UNCHANGED <<free, outside>>
<1>1. /\ GraphAssumption /\ TypeOK /\ exec \in [Node -> Pcs] /\ active \in [Node -> AttemptRecord]
      /\ timers \in SUBSET Node /\ \A c \in Child : c \in Node
  BY DEF Base, TypeOK, AttemptRecord, Child
<1>2. SUFFICES Exec /\ Active /\ Rest
  BY <1>1, Control_frame
<1>3. exec' = exec => Exec
  BY <1>1
<1>4. active' = active => Active
  BY <1>1
<1>5. ASSUME NEW K, active' = CancelAttempts(K) PROVE Active
  BY <1>1, <1>5, CancelAttempts_frame
<1>6. ASSUME Dispatch PROVE Exec /\ Active /\ Rest
  <2>1. \A n \in Node : exec'[n] = exec[n] \/ (exec'[n] = "start" /\ node[n].state = "pending")
    BY <1>6 DEF Dispatch, Spawned, RepeatedCommit, Runnable, Due
  <2>2. exec' \in [Node -> Pcs]
    <3>1. exec' = [n \in Node |-> exec'[n]]
      BY <1>6 DEF Dispatch, Spawned, RepeatedCommit
    <3> QED
      BY <1>1, <2>1, <3>1 DEF Pcs
  <2>3. \A n \in Node : node[n].state = "pending" => exec[n] = "none"
    BY DEF Base, LocalInv, Local, Fits
  <2>4. Exec
    BY <2>1, <2>2, <2>3
  <2> QED
    BY <1>1, <1>4, <1>6, <2>4 DEF Dispatch, pool
<1>7. ASSUME Claim \/ Abandon \/ Wake \/ Return \/ LoseLease \/ StopDriver \/ CancelRun
      PROVE  Exec /\ Active /\ Rest
  BY <1>1, <1>3, <1>4, <1>7 DEF Claim, Abandon, Wake, Return, LoseLease, StopDriver, CancelRun, pool
<1>8. ASSUME CloseRun \/ Cancel PROVE Exec /\ Active /\ Rest
  BY <1>1, <1>3, <1>5, <1>8 DEF CloseRun, Cancel, pool
<1>9. ASSUME NEW n \in Node, TaskExits(n) PROVE Exec /\ Active /\ Rest
  <2>1. Exec
    BY <1>1, <1>9 DEF TaskExits, Goto, Pcs
  <2> QED
    BY <1>1, <1>4, <1>9, <2>1 DEF TaskExits, pool
<1>10. ASSUME NEW n \in Node, Elapse(n) \/ TimerFires(n) PROVE Exec /\ Active /\ Rest
  BY <1>1, <1>3, <1>4, <1>10 DEF Elapse, TimerFires, pool
<1>11. ASSUME NEW n \in Node, CancelSubtree(n) PROVE Exec /\ Active /\ Rest
  BY <1>1, <1>3, <1>5, <1>11 DEF CancelSubtree, pool
<1>12. ASSUME NEW c \in Child, AddNode(c) PROVE Exec /\ Active /\ Rest
  BY <1>1, <1>3, <1>4, <1>12 DEF AddNode, pool
<1>13. ASSUME NEW n \in Node, Start(n) \/ CacheReply(n) \/ ImageReply(n) PROVE Exec /\ Active /\ Rest
  <2>1. Exec
    <3>1. exec[n] \in {"start", "cache", "image"}
      BY <1>13 DEF Start, CacheReply, ImageReply
    <3>2. \E pc \in {"none", "cache", "image", "slot"} : Goto(n, pc)
      BY <1>13 DEF Start, CacheReply, ImageReply, SeekImage, Finished
    <3> QED
      BY <1>1, <3>1, <3>2, Goto_frame
  <2>2. Active
    BY <1>4, <1>5, <1>13 DEF Start, CacheReply, ImageReply
  <2> QED
    BY <1>1, <1>13, <2>1, <2>2 DEF Start, CacheReply, ImageReply, pool
<1> QED
  BY <1>6, <1>7, <1>8, <1>9, <1>10, <1>11, <1>12, <1>13 DEF Framed

\* Another run takes or returns a slot.
LEMMA TakeOutside_control ==
  ASSUME GraphAssumption, ControlInv, TakeOutside \/ GiveBackOutside PROVE ControlInv'
<1>1. UNCHANGED <<exec, active, call, adding, timers>> /\ free' \in Nat /\ outside' \in Nat
      /\ free' + outside' = free + outside
  BY DEF TakeOutside, GiveBackOutside, ControlInv, Shape
<1>2. Shape' /\ BusyInv' /\ ResumeInv' /\ WaitersInv'
  BY <1>1 DEF ControlInv, Shape, BusyInv, Busy, ResumeInv, WaitersInv, Waiters
<1>3. SlotConservation'
  <2>1. Holding' = Holding /\ Taking' = Taking /\ Returning' = Returning
    BY <1>1 DEF Holding, Taking, Returning
  <2> QED
    BY <1>1, <2>1, Finite DEF ControlInv, Shape, SlotConservation
<1> QED
  BY <1>2, <1>3 DEF ControlInv

\* A node takes a slot for its attempt.
LEMMA AcquireSlot_control ==
  ASSUME GraphAssumption, ControlInv, NEW n \in Node, AcquireSlot(n) PROVE ControlInv'
<1>1. UNCHANGED <<active, call, adding, timers, outside>> /\ exec[n] = "slot"
  BY DEF AcquireSlot
<1>2. \/ exec' = [exec EXCEPT ![n] = "got"] /\ free > 0 /\ free' = free - 1
      \/ exec' = [exec EXCEPT ![n] = "none"] /\ free' = free
  BY DEF AcquireSlot, Goto
<1>3. Shape' /\ BusyInv' /\ ResumeInv' /\ WaitersInv'
  <2>1. \A m \in Node : exec'[m] \in {"run", "exit"} <=> exec[m] \in {"run", "exit"}
    BY <1>1, <1>2 DEF ControlInv, Shape
  <2>2. \A c \in Child : Parent[c] \in Node
    BY DEF GraphAssumption, Child
  <2>3. Shape'
    BY <1>1, <1>2 DEF ControlInv, Shape, Pcs
  <2> QED
    BY <1>1, <2>1, <2>2, <2>3 DEF ControlInv, BusyInv, Busy, ResumeInv, WaitersInv, Waiters
<1>4. Holding' = Holding /\ Returning' = Returning
  BY <1>1 DEF Holding, Returning
<1>5. CASE exec' = [exec EXCEPT ![n] = "got"] /\ free > 0 /\ free' = free - 1
  <2>1. Taking' = Taking \cup {n} /\ n \notin Taking
    BY <1>1, <1>5 DEF Taking, ControlInv, Shape
  <2>2. Cardinality(Taking') = Cardinality(Taking) + 1
    BY <2>1, Count, Finite
  <2> QED
    BY <1>1, <1>3, <1>4, <1>5, <2>2, Finite DEF ControlInv, Shape, SlotConservation
<1>6. CASE exec' = [exec EXCEPT ![n] = "none"] /\ free' = free
  <2>1. Taking' = Taking
    BY <1>1, <1>6 DEF Taking, ControlInv, Shape
  <2> QED
    BY <1>1, <1>3, <1>4, <1>6, <2>1 DEF ControlInv, SlotConservation
<1> QED
  BY <1>2, <1>5, <1>6

\* The slot goes to the attempt, or back if the write fails.
LEMMA Begin_control ==
  ASSUME Base, ControlInv, NEW n \in Node, Begin(n) PROVE ControlInv'
<1>1. UNCHANGED <<adding, timers, outside>> /\ exec[n] = "got"
  BY DEF Begin
<1>2. \A c \in Child : Parent[c] = n => ~Busy(c)
  BY <1>1 DEF ControlInv, BusyInv
<1>3. \A c \in Child : Parent[c] \in Node
  BY DEF Base, GraphAssumption, Child
<1>4. CASE /\ exec' = [exec EXCEPT ![n] = "none"] /\ free' = free + 1
           /\ UNCHANGED <<active, call>>
  <2>1. Shape' /\ BusyInv' /\ ResumeInv' /\ WaitersInv'
    BY <1>1, <1>2, <1>3, <1>4 DEF ControlInv, Shape, BusyInv, Busy, ResumeInv, WaitersInv, Waiters, Pcs
  <2>2. Holding' = Holding /\ Returning' = Returning /\ Taking' = Taking \ {n} /\ n \in Taking
    BY <1>1, <1>4 DEF Holding, Returning, Taking, ControlInv, Shape
  <2>3. Cardinality(Taking') = Cardinality(Taking) - 1
    BY <2>2, Count, Finite DEF Base
  <2> QED
    BY <1>1, <1>4, <2>1, <2>2, <2>3, Finite DEF Base, ControlInv, Shape, SlotConservation
<1>5. CASE /\ exec' = [exec EXCEPT ![n] = "run"] /\ free' = free
           /\ active' = [active EXCEPT ![n] = [Inactive EXCEPT !.on = TRUE, !.held = TRUE]]
           /\ call' = [c \in Child |-> IF Parent[c] = n THEN "idle" ELSE call[c]]
  <2>1. active[n] = Inactive
    BY <1>1 DEF Base, LocalInv, Local, Fits
  <2>2. /\ active'[n] = [Inactive EXCEPT !.on = TRUE, !.held = TRUE]
        /\ \A m \in Node \ {n} : active'[m] = active[m] /\ exec'[m] = exec[m]
        /\ exec'[n] = "run"
    BY <1>5 DEF ControlInv, Shape
  <2>3. active'[n] \in AttemptRecord /\ active'[n].held /\ active'[n].waiters = 0
    <3>1. Inactive \in AttemptRecord /\ Inactive.waiters = 0
      BY DEF Inactive, AttemptRecord
    <3>2. ASSUME NEW r \in AttemptRecord
          PROVE  LET a == [r EXCEPT !.on = TRUE, !.held = TRUE]
                 IN a \in AttemptRecord /\ a.held /\ a.waiters = r.waiters
      BY DEF AttemptRecord
    <3> QED
      BY <2>2, <3>1, <3>2
  <2>4. \A c \in Child : /\ Parent[c] = n => call'[c] = "idle" /\ call[c] \in {"idle", "returned"}
                         /\ Parent[c] # n => call'[c] = call[c]
    BY <1>2, <1>5 DEF Busy
  <2>5. Shape'
    BY <1>1, <1>5, <2>3, <2>4 DEF ControlInv, Shape, Pcs, CallPcs
  <2>6. BusyInv'
    BY <1>1, <1>3, <2>2, <2>4 DEF ControlInv, BusyInv, Busy
  <2>7. ResumeInv'
    BY <1>3, <2>2, <2>4 DEF ControlInv, ResumeInv, ResumePcs
  <2>8. WaitersInv'
    <3>1. ASSUME NEW p \in Node PROVE active'[p].waiters = Cardinality(Waiters(p)')
      <4>1. CASE p = n
        <5>1. Waiters(p)' = {}
          BY <2>4, <4>1 DEF Waiters, Children
        <5> QED
          BY <2>3, <4>1, <5>1, FS_EmptySet
      <4>2. CASE p # n
        <5>1. Waiters(p)' = Waiters(p)
          BY <2>4, <4>2 DEF Waiters, Children
        <5> QED
          BY <2>2, <4>2, <5>1 DEF ControlInv, WaitersInv
      <4> QED
        BY <4>1, <4>2
    <3> QED
      BY <3>1 DEF WaitersInv
  <2>9. Holding' = Holding \cup {n} /\ n \notin Holding
    <3>1. ~active[n].held
      BY <2>1 DEF Inactive
    <3> QED
      BY <2>2, <2>3, <3>1 DEF Holding
  <2>10. Taking' = Taking \ {n} /\ n \in Taking
    BY <1>1, <2>2 DEF Taking
  <2>11. Returning' = Returning
    BY <2>4 DEF Returning
  <2>12. Cardinality(Holding') = Cardinality(Holding) + 1 /\ Cardinality(Taking') = Cardinality(Taking) - 1
    BY <2>9, <2>10, Count, Finite DEF Base
  <2>13. SlotConservation'
    BY <1>1, <1>5, <2>11, <2>12, Finite DEF Base, ControlInv, Shape, SlotConservation
  <2> QED
    BY <2>5, <2>6, <2>7, <2>8, <2>13 DEF ControlInv
<1> QED
  BY <1>4, <1>5 DEF Begin, Goto

\* An attempt that ends returns the slot it holds.
LEMMA Finish_control ==
  ASSUME Base, ControlInv, NEW n \in Node, Finish(n) PROVE ControlInv'
<1>1. /\ UNCHANGED <<call, adding, outside>> /\ exec[n] = "exit" /\ InFlight(n) = {}
      /\ free' = free + Refund(n) /\ timers' \in SUBSET Node
      /\ exec' = [exec EXCEPT ![n] = "none"]
  BY DEF Finish, Finished, Goto, Rearm, ControlInv, Shape
<1>2. \A c \in Child : Parent[c] = n => ~Busy(c)
  BY <1>1 DEF InFlight, Children, Busy
<1>3. \A c \in Child : Parent[c] \in Node
  BY DEF Base, GraphAssumption, Child
<1>4. Inactive \in AttemptRecord /\ Inactive.waiters = 0 /\ ~Inactive.held
  BY DEF Inactive, AttemptRecord
<1>5. /\ active' \in [Node -> AttemptRecord] /\ active'[n] = Inactive
      /\ \A m \in Node \ {n} : active'[m].held = active[m].held /\ active'[m].waiters = active[m].waiters
  <2>1. CASE active' = Detach(n)
    BY <1>4, <2>1 DEF Detach, ControlInv, Shape
  <2>2. CASE active' = [CancelAttempts(Descendants[n]) EXCEPT ![n] = Detach(n)[n]]
    <3>1. /\ CancelAttempts(Descendants[n]) \in [Node -> AttemptRecord]
          /\ \A m \in Node : /\ CancelAttempts(Descendants[n])[m].held = active[m].held
                             /\ CancelAttempts(Descendants[n])[m].waiters = active[m].waiters
      BY CancelAttempts_frame DEF Base
    <3>2. Detach(n)[n] = Inactive
      BY DEF Detach, ControlInv, Shape
    <3>3. active' = [CancelAttempts(Descendants[n]) EXCEPT ![n] = Inactive]
      BY <2>2, <3>2
    <3> HIDE DEF CancelAttempts
    <3> QED
      BY <1>4, <3>1, <3>3
  <2> QED
    BY <2>1, <2>2 DEF Finish
<1>6. exec'[n] = "none" /\ \A m \in Node \ {n} : exec'[m] = exec[m]
  BY <1>1 DEF ControlInv, Shape
<1>7. Shape'
  <2>1. free' \in Nat
    BY <1>1 DEF Refund, ControlInv, Shape
  <2> QED
    BY <1>1, <1>5, <2>1 DEF ControlInv, Shape, Pcs
<1>8. BusyInv'
  BY <1>1, <1>2, <1>3, <1>6 DEF ControlInv, BusyInv, Busy
<1>9. ResumeInv'
  BY <1>1, <1>3, <1>4, <1>5 DEF ControlInv, ResumeInv
<1>10. WaitersInv'
  <2>1. \A p \in Node : Waiters(p)' = Waiters(p)
    BY <1>1 DEF Waiters
  <2>2. Waiters(n) = {}
    BY <1>2 DEF Waiters, Children, Busy
  <2> QED
    BY <1>4, <1>5, <2>1, <2>2, FS_EmptySet DEF ControlInv, WaitersInv
<1>11. SlotConservation'
  <2>1. Holding' = Holding \ {n}
    BY <1>4, <1>5 DEF Holding
  <2>2. Taking' = Taking /\ Returning' = Returning
    BY <1>1, <1>6 DEF Taking, Returning
  <2>3. CASE active[n].held
    <3>1. Cardinality(Holding') = Cardinality(Holding) - 1 /\ free' = free + 1
      BY <1>1, <2>1, <2>3, Count, Finite DEF Holding, Base, Refund
    <3> QED
      BY <1>1, <2>2, <3>1, Finite DEF Base, ControlInv, Shape, SlotConservation
  <2>4. CASE ~active[n].held
    <3>1. Holding' = Holding /\ free' = free
      BY <1>1, <2>1, <2>4 DEF Holding, Refund, ControlInv, Shape
    <3> QED
      BY <1>1, <2>2, <3>1 DEF ControlInv, SlotConservation
  <2> QED
    BY <2>3, <2>4
<1> QED
  BY <1>7, <1>8, <1>9, <1>10, <1>11 DEF ControlInv

\* A child is created: its call is under way.
LEMMA CreateRow_control ==
  ASSUME GraphAssumption, ControlInv, NEW c \in Child, CreateRow(c) PROVE ControlInv'
<1>1. UNCHANGED <<exec, active, call, timers, free, outside>> /\ adding' = adding \cup {c}
      /\ exec[Parent[c]] = "run"
  BY DEF CreateRow, MayCall, pool
<1>2. Shape' /\ BusyInv' /\ ResumeInv' /\ WaitersInv'
  BY <1>1 DEF ControlInv, Shape, BusyInv, Busy, ResumeInv, WaitersInv, Waiters
<1>3. Holding' = Holding /\ Taking' = Taking /\ Returning' = Returning
  BY <1>1 DEF Holding, Taking, Returning
<1> QED
  BY <1>1, <1>2, <1>3 DEF ControlInv, SlotConservation

\* Nobody holds a slot of a worker that died.
LEMMA Crash_control ==
  ASSUME GraphAssumption, Crash PROVE ControlInv'
<1>1. /\ exec' = [n \in Node |-> "none"] /\ active' = [n \in Node |-> Inactive]
      /\ call' = [c \in Child |-> "idle"] /\ adding' = {} /\ timers' = {}
      /\ free' = Slots /\ outside' = 0
  BY DEF Crash
<1>2. Inactive \in AttemptRecord /\ Inactive.waiters = 0 /\ ~Inactive.held
  BY DEF Inactive, AttemptRecord
<1>3. Shape' /\ BusyInv' /\ ResumeInv'
  BY <1>1, <1>2 DEF Shape, BusyInv, Busy, ResumeInv, ResumePcs, Pcs, CallPcs, GraphAssumption
<1>4. Holding' = {} /\ Taking' = {} /\ Returning' = {} /\ \A p \in Node : Waiters(p)' = {}
  BY <1>1, <1>2 DEF Holding, Taking, Returning, Waiters, Children
<1>5. WaitersInv' /\ SlotConservation'
  BY <1>1, <1>2, <1>4, FS_EmptySet DEF WaitersInv, SlotConservation, GraphAssumption
<1> QED
  BY <1>3, <1>5 DEF ControlInv

\* resumeMu and the slot of a resumption.
LEMMA LockResume_control ==
  ASSUME GraphAssumption, ControlInv, NEW c \in Child,
         LockResume(c) \/ LeaveResumeLoop(c) \/ LookAgain(c)
  PROVE  ControlInv'
<1>1. UNCHANGED <<exec, active, adding, timers, free, outside>>
  BY DEF LockResume, LeaveResumeLoop, LookAgain, pool
<1>2. PICK pc \in {"mutex", "look", "acquire", "returned"} :
        /\ call' = [call EXCEPT ![c] = pc]
        /\ \/ call[c] = "left" /\ pc = "mutex" /\ ~ResumeLocked(Parent[c])
           \/ call[c] = "mutex" /\ pc = "look"
           \/ call[c] = "look" /\ pc = "returned"
           \/ call[c] = "look" /\ pc = "acquire" /\ ~active[Parent[c]].held
  <2>1. CASE LockResume(c)
    BY <2>1 DEF LockResume, SetCall
  <2>2. CASE LeaveResumeLoop(c)
    BY <2>2 DEF LeaveResumeLoop, SetCall
  <2>3. CASE LookAgain(c)
    BY <2>3 DEF LookAgain, SetCall
  <2> QED
    BY <2>1, <2>2, <2>3
<1>3. /\ call'[c] = pc /\ \A d \in Child \ {c} : call'[d] = call[d]
      /\ Parent[c] \in Node
  BY <1>2 DEF ControlInv, Shape, GraphAssumption, Child
<1>4. Shape' /\ BusyInv'
  BY <1>1, <1>2, <1>3 DEF ControlInv, Shape, BusyInv, Busy, CallPcs
<1>5. ResumeInv'
  <2>1. ASSUME NEW d \in Child \ {c}, call[d] \in ResumePcs, Parent[d] = Parent[c], pc # "returned"
        PROVE  FALSE
    <3>1. CASE call[c] = "left"
      BY <1>2, <2>1, <3>1 DEF ResumeLocked, Children, ResumePcs
    <3>2. CASE call[c] \in {"mutex", "look"}
      BY <2>1, <3>2 DEF ControlInv, ResumeInv, ResumePcs
    <3> QED
      BY <1>2, <3>1, <3>2
  <2>2. \A d, e \in Child :
          call'[d] \in ResumePcs /\ call'[e] \in ResumePcs /\ Parent[d] = Parent[e] => d = e
    BY <1>3, <2>1 DEF ControlInv, ResumeInv, ResumePcs
  <2>3. \A d \in Child : call'[d] \in {"acquire", "have"} => ~active'[Parent[d]].held
    BY <1>1, <1>2, <1>3 DEF ControlInv, ResumeInv
  <2> QED
    BY <2>2, <2>3 DEF ResumeInv
<1>6. WaitersInv'
  <2>1. \A p \in Node : Waiters(p)' = Waiters(p)
    BY <1>2, <1>3 DEF Waiters, Children
  <2> QED
    BY <1>1, <2>1 DEF ControlInv, WaitersInv
<1>7. SlotConservation'
  <2>1. Holding' = Holding /\ Taking' = Taking /\ Returning' = Returning
    BY <1>1, <1>2, <1>3 DEF Holding, Taking, Returning
  <2> QED
    BY <1>1, <2>1 DEF ControlInv, SlotConservation
<1> QED
  BY <1>4, <1>5, <1>6, <1>7 DEF ControlInv

\* The last wait of a caller takes a slot back.
LEMMA AcquireResume_control ==
  ASSUME GraphAssumption, ControlInv, NEW c \in Child, AcquireResume(c) PROVE ControlInv'
<1>1. UNCHANGED <<exec, active, adding, timers, outside>> /\ call[c] = "acquire"
  BY DEF AcquireResume
<1>2. \/ call' = [call EXCEPT ![c] = "have"] /\ free > 0 /\ free' = free - 1
      \/ call' = [call EXCEPT ![c] = "returned"] /\ free' = free
  BY DEF AcquireResume, SetCall
<1>3. /\ call'[c] \in {"have", "returned"} /\ \A d \in Child \ {c} : call'[d] = call[d]
      /\ Parent[c] \in Node
  BY <1>2 DEF ControlInv, Shape, GraphAssumption, Child
<1>4. Shape' /\ BusyInv'
  BY <1>1, <1>2, <1>3 DEF ControlInv, Shape, BusyInv, Busy, CallPcs
<1>5. ResumeInv'
  <2>1. \A d \in Child : call'[d] \in ResumePcs => call[d] \in ResumePcs
    BY <1>1, <1>3 DEF ResumePcs
  <2>2. \A d \in Child : call'[d] \in {"acquire", "have"} => call[d] \in {"acquire", "have"}
    BY <1>1, <1>3
  <2> QED
    BY <1>1, <2>1, <2>2 DEF ControlInv, ResumeInv
<1>6. WaitersInv'
  <2>1. \A p \in Node : Waiters(p)' = Waiters(p)
    BY <1>1, <1>3 DEF Waiters, Children
  <2> QED
    BY <1>1, <2>1 DEF ControlInv, WaitersInv
<1>7. Holding' = Holding /\ Taking' = Taking
  BY <1>1 DEF Holding, Taking
<1>8. SlotConservation'
  <2>1. CASE call' = [call EXCEPT ![c] = "have"] /\ free > 0 /\ free' = free - 1
    <3>1. Returning' = Returning \cup {c} /\ c \notin Returning
      BY <1>1, <2>1 DEF Returning, ControlInv, Shape
    <3>2. Cardinality(Returning') = Cardinality(Returning) + 1
      BY <3>1, Count, Finite
    <3> QED
      BY <1>1, <1>7, <2>1, <3>2, Finite DEF ControlInv, Shape, SlotConservation
  <2>2. CASE call' = [call EXCEPT ![c] = "returned"] /\ free' = free
    <3>1. Returning' = Returning
      BY <1>1, <2>2 DEF Returning, ControlInv, Shape
    <3> QED
      BY <1>1, <1>7, <2>2, <3>1 DEF ControlInv, SlotConservation
  <2> QED
    BY <1>2, <2>1, <2>2
<1> QED
  BY <1>4, <1>5, <1>6, <1>8 DEF ControlInv

\* A caller that resumes holds the slot its wait has taken.
LEMMA Resume_control ==
  ASSUME GraphAssumption, ControlInv, NEW c \in Child, Resume(c) PROVE ControlInv'
<1> DEFINE p == Parent[c]
<1>1. /\ UNCHANGED <<exec, adding, timers, outside>> /\ call[c] = "have"
      /\ call' = [call EXCEPT ![c] = "returned"]
      /\ \/ free' = free + 1 /\ active' = active
         \/ free' = free /\ active' = [active EXCEPT ![p].held = TRUE]
  BY DEF Resume, SetCall
<1>2. /\ call'[c] = "returned" /\ \A d \in Child \ {c} : call'[d] = call[d]
      /\ p \in Node /\ ~active[p].held
  BY <1>1 DEF ControlInv, Shape, GraphAssumption, Child, ResumeInv
<1>3. /\ active' \in [Node -> AttemptRecord]
      /\ \A m \in Node \ {p} : active'[m] = active[m]
      /\ active'[p].waiters = active[p].waiters
      /\ active' = active \/ active'[p].held
  <2>1. CASE active' = active
    BY <2>1 DEF ControlInv, Shape
  <2>2. CASE active' = [active EXCEPT ![p].held = TRUE]
    <3>1. ASSUME NEW r \in AttemptRecord
          PROVE  LET a == [r EXCEPT !.held = TRUE]
                 IN a \in AttemptRecord /\ a.held /\ a.waiters = r.waiters
      BY DEF AttemptRecord
    <3>2. active[p] \in AttemptRecord /\ active \in [Node -> AttemptRecord]
      BY <1>2 DEF ControlInv, Shape
    <3>3. active'[p] = [active[p] EXCEPT !.held = TRUE] /\ \A m \in Node \ {p} : active'[m] = active[m]
      BY <1>2, <2>2, <3>2
    <3>4. active'[p] \in AttemptRecord /\ active'[p].held /\ active'[p].waiters = active[p].waiters
      BY <3>1, <3>2, <3>3
    <3>5. active' \in [Node -> AttemptRecord]
      BY <2>2, <3>2, <3>3, <3>4
    <3> QED
      BY <3>3, <3>4, <3>5
  <2> QED
    BY <1>1, <2>1, <2>2
<1>4. Shape' /\ BusyInv'
  <2>1. free' \in Nat
    BY <1>1 DEF ControlInv, Shape
  <2> QED
    BY <1>1, <1>2, <1>3, <2>1 DEF ControlInv, Shape, BusyInv, Busy, CallPcs
<1>5. ResumeInv'
  <2>1. \A d \in Child : call'[d] \in ResumePcs => call[d] \in ResumePcs /\ d # c
    BY <1>2 DEF ResumePcs
  <2>2. ASSUME NEW d \in Child, call'[d] \in {"acquire", "have"}
        PROVE  ~active'[Parent[d]].held
    <3>1. call[d] \in {"acquire", "have"} /\ d # c
      BY <1>2, <2>2
    <3>2. Parent[d] # p
      BY <1>1, <3>1 DEF ControlInv, ResumeInv, ResumePcs
    <3>3. Parent[d] \in Node /\ ~active[Parent[d]].held
      BY <3>1 DEF ControlInv, ResumeInv, GraphAssumption, Child
    <3> QED
      BY <1>3, <3>2, <3>3
  <2> QED
    BY <2>1, <2>2 DEF ControlInv, ResumeInv
<1>6. WaitersInv'
  <2>1. \A q \in Node : Waiters(q)' = Waiters(q)
    BY <1>1, <1>2 DEF Waiters, Children
  <2>2. \A q \in Node : active'[q].waiters = active[q].waiters
    BY <1>3
  <2> QED
    BY <2>1, <2>2 DEF ControlInv, WaitersInv
<1>7. SlotConservation'
  <2>1. Taking' = Taking
    BY <1>1 DEF Taking
  <2>2. Returning' = Returning \ {c} /\ c \in Returning
    BY <1>1, <1>2 DEF Returning
  <2>3. Cardinality(Returning') = Cardinality(Returning) - 1
    BY <2>2, Count, Finite
  <2>4. CASE free' = free + 1 /\ active' = active
    <3>1. Holding' = Holding
      BY <2>4 DEF Holding
    <3> QED
      BY <1>1, <2>1, <2>3, <2>4, <3>1, Finite DEF ControlInv, Shape, SlotConservation
  <2>5. CASE free' = free /\ active' = [active EXCEPT ![p].held = TRUE]
    <3>1. active'[p].held
      BY <1>2, <2>5 DEF ControlInv, Shape, AttemptRecord
    <3>2. Holding' = Holding \cup {p} /\ p \notin Holding
      BY <1>2, <1>3, <3>1 DEF Holding
    <3>3. Cardinality(Holding') = Cardinality(Holding) + 1
      BY <3>2, Count, Finite
    <3> QED
      BY <1>1, <2>1, <2>3, <2>5, <3>3, Finite DEF ControlInv, Shape, SlotConservation
  <2> QED
    BY <1>1, <2>4, <2>5
<1> QED
  BY <1>4, <1>5, <1>6, <1>7 DEF ControlInv

\* One waiter more or fewer.
LEMMA Waiters_change ==
  ASSUME GraphAssumption, ControlInv, NEW c \in Child, NEW pc \in CallPcs,
         call' = [call EXCEPT ![c] = pc], NEW k \in {-1, 0, 1},
         k = 1 => call[c] # "wait" /\ pc = "wait",
         k = -1 => call[c] = "wait" /\ pc # "wait",
         k = 0 => call[c] # "wait" /\ pc # "wait",
         active'[Parent[c]].waiters = active[Parent[c]].waiters + k,
         \A m \in Node \ {Parent[c]} : active'[m].waiters = active[m].waiters
  PROVE  WaitersInv' /\ active[Parent[c]].waiters + k \in Nat
<1> DEFINE p == Parent[c]
<1>1. /\ call'[c] = pc /\ \A d \in Child \ {c} : call'[d] = call[d]
      /\ p \in Node
  BY DEF ControlInv, Shape, GraphAssumption, Child
<1>2. \A q \in Node \ {p} : Waiters(q)' = Waiters(q)
  BY <1>1 DEF Waiters, Children
<1>3. active[p].waiters = Cardinality(Waiters(p))
  BY <1>1 DEF ControlInv, WaitersInv
<1>4. Cardinality(Waiters(p)') = Cardinality(Waiters(p)) + k /\ Cardinality(Waiters(p)) + k \in Nat
  <2>1. CASE k = 1
    <3>1. Waiters(p)' = Waiters(p) \cup {c} /\ c \notin Waiters(p)
      BY <1>1, <2>1 DEF Waiters, Children
    <3>2. Cardinality(Waiters(p) \cup {c}) = Cardinality(Waiters(p)) + 1 /\ Cardinality(Waiters(p)) \in Nat
      BY <1>1, <3>1, Count, Finite
    <3> QED
      BY <2>1, <3>1, <3>2
  <2>2. CASE k = -1
    <3>1. Waiters(p)' = Waiters(p) \ {c} /\ c \in Waiters(p)
      BY <1>1, <2>2 DEF Waiters, Children
    <3>2. Cardinality(Waiters(p) \ {c}) = Cardinality(Waiters(p)) - 1 /\ Cardinality(Waiters(p)) > 0
      BY <1>1, <3>1, Count, Finite
    <3> QED
      BY <1>1, <2>2, <3>1, <3>2, Finite
  <2>3. CASE k = 0
    <3>1. Waiters(p)' = Waiters(p)
      BY <1>1, <2>3 DEF Waiters, Children
    <3> QED
      BY <1>1, <2>3, <3>1, Finite
  <2> QED
    BY <2>1, <2>2, <2>3
<1>5. \A q \in Node : active'[q].waiters = Cardinality(Waiters(q)')
  BY <1>1, <1>2, <1>3, <1>4 DEF ControlInv, WaitersInv
<1> QED
  BY <1>3, <1>4, <1>5 DEF WaitersInv

\* A wait that is not the last one ends.
LEMMA StopWaiting_control ==
  ASSUME GraphAssumption, ControlInv, NEW c \in Child, StopWaiting(c) PROVE ControlInv'
<1> DEFINE p == Parent[c]
<1>1. /\ UNCHANGED <<exec, adding, timers, free, outside>> /\ call[c] = "wait"
      /\ call' = [call EXCEPT ![c] = "left"]
      /\ active' = [active EXCEPT ![p].waiters = @ - 1]
  BY DEF StopWaiting, SetCall, pool
<1>2. /\ call'[c] = "left" /\ \A d \in Child \ {c} : call'[d] = call[d]
      /\ p \in Node
  BY <1>1 DEF ControlInv, Shape, GraphAssumption, Child
<1>3. /\ \A m \in Node \ {p} : active'[m] = active[m]
      /\ active'[p].waiters = active[p].waiters - 1 /\ active'[p].held = active[p].held
  BY <1>1, <1>2 DEF ControlInv, Shape, AttemptRecord
<1>4. active[p].waiters - 1 = active[p].waiters + (-1)
  BY <1>2 DEF ControlInv, Shape, AttemptRecord
<1>5. WaitersInv' /\ active[p].waiters + (-1) \in Nat
  <2> DEFINE k == -1
  <2>1. k \in {-1, 0, 1} /\ k # 1 /\ k # 0 /\ "left" \in CallPcs
    BY DEF CallPcs
  <2>2. active'[p].waiters = active[p].waiters + k
    BY <1>3, <1>4
  <2>3. \A m \in Node \ {p} : active'[m].waiters = active[m].waiters
    BY <1>3
  <2> HIDE DEF k
  <2>4. WaitersInv' /\ active[p].waiters + k \in Nat
    BY <1>1, <2>1, <2>2, <2>3, Waiters_change
  <2> QED
    BY <2>4 DEF k
<1>6. Shape' /\ BusyInv'
  <2>1. active' \in [Node -> AttemptRecord]
    <3>1. active[p] \in AttemptRecord /\ active[p].waiters - 1 \in Nat
      BY <1>2, <1>4, <1>5 DEF ControlInv, Shape
    <3>2. [active[p] EXCEPT !.waiters = active[p].waiters - 1] \in AttemptRecord
      BY <3>1 DEF AttemptRecord
    <3> QED
      BY <1>1, <3>2 DEF ControlInv, Shape
  <2> QED
    BY <1>1, <1>2, <2>1 DEF ControlInv, Shape, BusyInv, Busy, CallPcs
<1>7. ResumeInv'
  <2>1. \A d \in Child : call'[d] \in ResumePcs => call[d] \in ResumePcs
    BY <1>2 DEF ResumePcs
  <2>2. \A d \in Child : Parent[d] \in Node /\ active'[Parent[d]].held = active[Parent[d]].held
    BY <1>3 DEF GraphAssumption, Child
  <2>3. \A d \in Child : call'[d] \in {"acquire", "have"} => call[d] \in {"acquire", "have"}
    BY <1>2
  <2> QED
    BY <2>1, <2>2, <2>3 DEF ControlInv, ResumeInv
<1>8. SlotConservation'
  <2>1. Holding' = Holding /\ Taking' = Taking /\ Returning' = Returning
    BY <1>1, <1>2, <1>3 DEF Holding, Taking, Returning
  <2> QED
    BY <1>1, <2>1 DEF ControlInv, SlotConservation
<1> QED
  BY <1>5, <1>6, <1>7, <1>8 DEF ControlInv

\* The first wait of a caller returns its slot.
LEMMA Wait_control ==
  ASSUME GraphAssumption, ControlInv, NEW c \in Child, Wait(c) PROVE ControlInv'
<1> DEFINE p == Parent[c]
<1>1. /\ UNCHANGED <<exec, adding, timers, outside>> /\ call[c] = "idle" /\ exec[p] = "run"
      /\ \/ /\ call' = [call EXCEPT ![c] = "returned"] \/ call' = [call EXCEPT ![c] = "left"]
            /\ active' = active /\ free' = free
         \/ /\ call' = [call EXCEPT ![c] = "wait"] /\ free' = free
            /\ active' = [active EXCEPT ![p].waiters = @ + 1]
         \/ /\ call' = [call EXCEPT ![c] = "wait"] /\ free' = free + 1 /\ active[p].held
            /\ active' = [active EXCEPT ![p].held = FALSE, ![p].waiters = @ + 1]
  BY DEF Wait, MayCall, SetCall
<1>2. /\ call'[c] \in {"returned", "left", "wait"} /\ \A d \in Child \ {c} : call'[d] = call[d]
      /\ p \in Node
  BY <1>1 DEF ControlInv, Shape, GraphAssumption, Child
<1>3. /\ active' \in [Node -> AttemptRecord]
      /\ \A m \in Node \ {p} : active'[m] = active[m]
      /\ active'[p].held => active[p].held
      /\ active'[p].waiters = active[p].waiters + (IF call'[c] = "wait" THEN 1 ELSE 0)
      /\ \/ free' = free /\ active'[p].held = active[p].held
         \/ free' = free + 1 /\ active[p].held /\ ~active'[p].held
  <2>1. active[p] \in AttemptRecord /\ active \in [Node -> AttemptRecord] /\ active[p].waiters \in Nat
    BY <1>2 DEF ControlInv, Shape, AttemptRecord
  <2>2. CASE /\ call' = [call EXCEPT ![c] = "returned"] \/ call' = [call EXCEPT ![c] = "left"]
             /\ active' = active /\ free' = free
    <3>1. call'[c] # "wait"
      BY <2>2 DEF ControlInv, Shape
    <3> QED
      BY <2>1, <2>2, <3>1
  <2>3. CASE /\ call' = [call EXCEPT ![c] = "wait"] /\ free' = free
             /\ active' = [active EXCEPT ![p].waiters = @ + 1]
    <3>1. ASSUME NEW r \in AttemptRecord
          PROVE  LET a == [r EXCEPT !.waiters = @ + 1]
                 IN a \in AttemptRecord /\ a.held = r.held /\ a.waiters = r.waiters + 1
      BY DEF AttemptRecord
    <3>2. active'[p] = [active[p] EXCEPT !.waiters = @ + 1] /\ \A m \in Node \ {p} : active'[m] = active[m]
      BY <1>2, <2>1, <2>3
    <3>3. /\ active'[p] \in AttemptRecord /\ active'[p].held = active[p].held
          /\ active'[p].waiters = active[p].waiters + 1
      BY <2>1, <3>1, <3>2
    <3>4. call'[c] = "wait"
      BY <2>3 DEF ControlInv, Shape
    <3>5. active' \in [Node -> AttemptRecord]
      BY <2>1, <2>3, <3>2, <3>3
    <3> QED
      BY <2>3, <3>2, <3>3, <3>4, <3>5
  <2>4. CASE /\ call' = [call EXCEPT ![c] = "wait"] /\ free' = free + 1 /\ active[p].held
             /\ active' = [active EXCEPT ![p].held = FALSE, ![p].waiters = @ + 1]
    <3>1. ASSUME NEW r \in AttemptRecord
          PROVE  LET a == [r EXCEPT !.held = FALSE, !.waiters = @ + 1]
                 IN a \in AttemptRecord /\ ~a.held /\ a.waiters = r.waiters + 1
      <4> DEFINE b == [r EXCEPT !.held = FALSE]
      <4>1. b \in AttemptRecord /\ ~b.held /\ b.waiters = r.waiters
        BY DEF AttemptRecord
      <4> HIDE DEF b
      <4>2. LET a == [b EXCEPT !.waiters = @ + 1]
            IN a \in AttemptRecord /\ ~a.held /\ a.waiters = b.waiters + 1
        BY <4>1 DEF AttemptRecord
      <4> QED
        BY <4>1, <4>2 DEF b
    <3>2. /\ active'[p] = [active[p] EXCEPT !.held = FALSE, !.waiters = @ + 1]
          /\ \A m \in Node \ {p} : active'[m] = active[m]
      BY <1>2, <2>1, <2>4
    <3>3. /\ active'[p] \in AttemptRecord /\ ~active'[p].held
          /\ active'[p].waiters = active[p].waiters + 1
      BY <2>1, <3>1, <3>2
    <3>4. call'[c] = "wait"
      BY <2>4 DEF ControlInv, Shape
    <3>5. active' \in [Node -> AttemptRecord]
      BY <2>1, <2>4, <3>2, <3>3
    <3> QED
      BY <2>4, <3>2, <3>3, <3>4, <3>5
  <2> QED
    BY <1>1, <2>2, <2>3, <2>4
<1>4. Shape' /\ BusyInv'
  <2>1. free' \in Nat
    BY <1>1 DEF ControlInv, Shape
  <2>2. call' \in [Child -> CallPcs]
    BY <1>1 DEF ControlInv, Shape, CallPcs
  <2>3. BusyInv'
    BY <1>1, <1>2 DEF ControlInv, BusyInv, Busy
  <2> QED
    BY <1>1, <1>3, <2>1, <2>2, <2>3 DEF ControlInv, Shape
<1>5. ResumeInv'
  <2>1. \A d \in Child : call'[d] \in ResumePcs => call[d] \in ResumePcs
    BY <1>2 DEF ResumePcs
  <2>2. \A d \in Child : Parent[d] \in Node /\ (active'[Parent[d]].held => active[Parent[d]].held)
    BY <1>3 DEF GraphAssumption, Child
  <2>3. \A d \in Child : call'[d] \in {"acquire", "have"} => call[d] \in {"acquire", "have"}
    BY <1>2
  <2> QED
    BY <2>1, <2>2, <2>3 DEF ControlInv, ResumeInv
<1>6. WaitersInv'
  <2> DEFINE k == IF call'[c] = "wait" THEN 1 ELSE 0
             pc == call'[c]
  <2>1. k \in {-1, 0, 1} /\ pc \in CallPcs /\ call' = [call EXCEPT ![c] = pc]
    BY <1>1, <1>2 DEF ControlInv, Shape, CallPcs
  <2>2. /\ k = 1 => call[c] # "wait" /\ pc = "wait"
        /\ ~(k = -1)
        /\ k = 0 => call[c] # "wait" /\ pc # "wait"
    BY <1>1
  <2>3. active'[p].waiters = active[p].waiters + k /\ \A m \in Node \ {p} : active'[m].waiters = active[m].waiters
    BY <1>3
  <2> HIDE DEF k, pc
  <2> QED
    BY <2>1, <2>2, <2>3, Waiters_change
<1>7. SlotConservation'
  <2>1. Taking' = Taking /\ Returning' = Returning
    BY <1>1, <1>2 DEF Taking, Returning
  <2>2. CASE free' = free /\ active'[p].held = active[p].held
    <3>1. Holding' = Holding
      BY <1>3, <2>2 DEF Holding
    <3> QED
      BY <1>1, <2>1, <2>2, <3>1 DEF ControlInv, SlotConservation
  <2>3. CASE free' = free + 1 /\ active[p].held /\ ~active'[p].held
    <3>1. Holding' = Holding \ {p} /\ p \in Holding
      BY <1>2, <1>3, <2>3 DEF Holding
    <3>2. Cardinality(Holding') = Cardinality(Holding) - 1
      BY <3>1, Count, Finite
    <3> QED
      BY <1>1, <2>1, <2>3, <3>2, Finite DEF ControlInv, Shape, SlotConservation
  <2> QED
    BY <1>3, <2>2, <2>3
<1> QED
  BY <1>4, <1>5, <1>6, <1>7 DEF ControlInv

-----------------------------------------------------------------------------
(* The executor as a whole                                                 *)

\* Where Run goes in a step of its own, and in one of a goroutine or a call.
LEMMA Inner_run ==
  ASSUME Inner
  PROVE  /\ Quiet \/ run' = run \/ (run = "eval" /\ run' = "wait") \/ (run = "eval" /\ run' = "drain" /\ ~ctx')
         /\ lease' = lease \/ lease' = FALSE
         /\ claims' = claims
<1>1. CASE Quiet
  BY <1>1 DEF Quiet, Abandon, Wake, TakeOutside, GiveBackOutside, LoseLease, StopDriver,
              TimerFires, LockResume, LeaveResumeLoop, LookAgain, AcquireResume, driver
<1>2. CASE Dispatch
  BY <1>2 DEF Dispatch
<1>3. CASE CloseRun
  BY <1>3 DEF CloseRun, CommitFails
<1>4. CASE Cancel \/ \E n \in Node : CancelSubtree(n)
  BY <1>4 DEF Cancel, CancelSubtree
<1>5. CASE \E n \in Node : Start(n) \/ CacheReply(n) \/ ImageReply(n) \/ AcquireSlot(n) \/ Begin(n)
                           \/ TaskExits(n) \/ Finish(n)
  BY <1>5 DEF Start, CacheReply, ImageReply, AcquireSlot, Begin, TaskExits, Finish, driver
<1>6. CASE \E c \in Child : Wait(c) \/ StopWaiting(c) \/ Resume(c)
  BY <1>6 DEF Wait, StopWaiting, Resume
<1> QED
  BY <1>1, <1>2, <1>3, <1>4, <1>5, <1>6 DEF Inner

\* While the run is down nothing but the outside moves.
LEMMA Inner_down ==
  ASSUME GraphAssumption, LocalInv, CallsInv, RunInv, Inner, run = "down" PROVE Quiet
<1>1. /\ \A n \in Node : exec[n] = "none" /\ active[n] = Inactive
      /\ \A c \in Child : call[c] \in {"idle", "returned"} /\ exec[Parent[c]] = "none"
      /\ Known = {}
  BY Down_idle DEF RunInv, Known, GraphAssumption, Child
<1>2. ~Dispatch /\ ~CloseRun /\ ~Cancel
  BY DEF Dispatch, CloseRun, Cancel
<1>3. \A n \in Node : ~(Start(n) \/ CacheReply(n) \/ ImageReply(n) \/ AcquireSlot(n) \/ Begin(n)
                        \/ TaskExits(n) \/ Finish(n) \/ CancelSubtree(n))
  BY <1>1 DEF Start, CacheReply, ImageReply, AcquireSlot, Begin, TaskExits, Finish, CancelSubtree
<1>4. \A c \in Child : ~(Wait(c) \/ StopWaiting(c) \/ Resume(c))
  BY <1>1 DEF Wait, MayCall, StopWaiting, Resume
<1> QED
  BY <1>2, <1>3, <1>4 DEF Inner

\* The steps of a driven run.
LEMMA Run_inner ==
  ASSUME Base, CallsInv, RunInv, Inner PROVE RunInv'
<1>1. Good
  BY Inner_good
<1>2. run' = "down" => run = "down"
  BY Inner_run DEF Quiet, Abandon, Wake, TakeOutside, GiveBackOutside, LoseLease, StopDriver,
        TimerFires, LockResume, LeaveResumeLoop, LookAgain, AcquireResume, driver
<1>3. ASSUME run' = "down"
      PROVE  ~lease' /\ ~err' /\ \A n \in Node : exec'[n] = "none" /\ node'[n].state = "absent"
  <2>1. run = "down" /\ Quiet
    BY <1>2, <1>3, Inner_down DEF Base
  <2>2. UNCHANGED <<node, exec, err>> /\ (lease' => lease)
    BY <2>1, Quiet_step
  <2> QED
    BY <2>1, <2>2 DEF RunInv
<1>4. ASSUME run' \in {"down", "drain"} \/ err', ctx' PROVE FALSE
  <2>1. ctx /\ ~err /\ ~err' /\ run \notin {"down", "drain"}
    BY <1>1, <1>4 DEF Good, Writing, RunInv
  <2>2. run' \in {"down", "drain"} /\ run' # run
    BY <1>4, <2>1
  <2>3. Quiet
    BY <1>4, <2>1, <2>2, Inner_run
  <2> QED
    BY <1>4, <2>1, <2>2, <2>3 DEF Quiet, Abandon, Wake, TakeOutside, GiveBackOutside, LoseLease,
        StopDriver, TimerFires, LockResume, LeaveResumeLoop, LookAgain, AcquireResume, driver
<1> QED
  BY <1>3, <1>4 DEF RunInv

\* The steps that replace the graph or touch the rows from outside.
Outer ==
  \/ Claim \/ Return \/ Crash \/ CancelRun
  \/ \E n \in Node : Elapse(n)
  \/ \E c \in Child : CreateRow(c) \/ AddNode(c)

\* A step is one of a driven run or one around it.
LEMMA Next_cases == Next => Inner \/ Outer
BY DEF Next, Driver, Environment, Execute, Api, Inner, Outer, Quiet

\* Claims, crashes and the outside.
LEMMA Run_outer ==
  ASSUME Base, CallsInv, RunInv, Outer PROVE RunInv'
<1>1. CASE Claim
  BY <1>1 DEF Claim, RunInv
<1>2. CASE Return
  BY <1>2, Absent_record DEF Return, RunInv
<1>3. CASE Crash
  BY <1>3, Absent_record DEF Crash, RunInv
<1>4. CASE CancelRun
  BY <1>4 DEF CancelRun, RunInv
<1>5. ASSUME NEW n \in Node, Elapse(n) PROVE RunInv'
  <2>1. \A m \in Node : node'[m].state = node[m].state
    BY <1>5 DEF Elapse, Base, TypeOK
  <2> QED
    BY <1>5, <2>1 DEF Elapse, RunInv, driver
<1>6. ASSUME NEW c \in Child, CreateRow(c) \/ AddNode(c) PROVE RunInv'
  <2>1. exec[Parent[c]] \in {"run", "exit"} /\ Parent[c] \in Node
    BY <1>6 DEF CreateRow, MayCall, AddNode, CallsInv, Base, GraphAssumption, Child
  <2>2. run # "down"
    BY <2>1 DEF RunInv
  <2> QED
    BY <1>6, <2>2 DEF CreateRow, AddNode, RunInv, driver
<1> QED
  BY <1>1, <1>2, <1>3, <1>4, <1>5, <1>6 DEF Outer

\* Claims, crashes and the outside.
LEMMA Graph_outer ==
  ASSUME Base, RunInv, CallsInv, GraphInv, Outer PROVE GraphInv' /\ LocalInv'
<1>1. GraphAssumption /\ TypeOK /\ LocalInv
  BY DEF Base
<1> QED
  BY <1>1, Claim_graph, Return_graph, Crash_graph, CancelRun_graph, Elapse_graph, CreateRow_graph,
     AddNode_graph DEF Outer

\* Slots and calls, in every step.
LEMMA Control_next ==
  ASSUME Base, ControlInv, Next PROVE ControlInv'
<1>1. GraphAssumption
  BY DEF Base
<1>2. CASE Framed
  BY <1>2, Control_framed
<1>3. CASE TakeOutside \/ GiveBackOutside \/ Crash
  BY <1>1, <1>3, TakeOutside_control, Crash_control
<1>4. CASE \E n \in Node : AcquireSlot(n) \/ Begin(n) \/ Finish(n)
  BY <1>1, <1>4, AcquireSlot_control, Begin_control, Finish_control
<1>5. CASE \E c \in Child : \/ CreateRow(c) \/ Wait(c) \/ StopWaiting(c) \/ LockResume(c)
                            \/ LeaveResumeLoop(c) \/ LookAgain(c) \/ AcquireResume(c) \/ Resume(c)
  BY <1>1, <1>5, CreateRow_control, Wait_control, StopWaiting_control, LockResume_control,
     AcquireResume_control, Resume_control
<1> QED
  BY <1>2, <1>3, <1>4, <1>5 DEF Next, Driver, Environment, Execute, Api, Framed

\* The types of nodes and rows, in the steps around a driven run.
LEMMA Types_outer ==
  ASSUME Base, GraphInv, Outer
  PROVE  /\ node' \in [Node -> NodeRecord] /\ stored' \in [Node -> RowRecord]
         /\ wake' \in BOOLEAN /\ err' \in BOOLEAN /\ ctx' \in BOOLEAN /\ lease' \in BOOLEAN
         /\ run' \in RunStates /\ claims' \in Nat /\ faults' \in Nat
<1>1. /\ node \in [Node -> NodeRecord] /\ stored \in [Node -> RowRecord]
      /\ run \in RunStates /\ claims \in Nat /\ faults \in Nat
  BY DEF Base, TypeOK, NodeRecord, RowRecord, RunStates
<1>2. wake \in BOOLEAN /\ err \in BOOLEAN /\ ctx \in BOOLEAN /\ lease \in BOOLEAN
  BY Flags DEF Base
<1>3. \A n \in Node : NodeOf(stored[n]) \in NodeRecord /\ Reset(stored[n]) \in RowRecord
  BY <1>1, Restored
<1>4. CASE Claim
  <2>1. node' \in [Node -> NodeRecord] /\ stored' \in [Node -> RowRecord]
    BY <1>3, <1>4 DEF Claim
  <2>2. wake' \in BOOLEAN /\ err' \in BOOLEAN /\ ctx' \in BOOLEAN /\ lease' \in BOOLEAN
    BY <1>4 DEF Claim
  <2>3. run' \in RunStates /\ claims' \in Nat /\ faults' \in Nat
    BY <1>1, <1>4 DEF Claim, RunStates
  <2> QED
    BY <2>1, <2>2, <2>3
<1>5. CASE Return \/ Crash
  <2>1. node' \in [Node -> NodeRecord] /\ stored' \in [Node -> RowRecord]
    BY <1>1, <1>5, Absent_record DEF Return, Crash
  <2>2. claims' \in Nat /\ faults' \in Nat /\ run' \in RunStates
    BY <1>1, <1>5 DEF Return, Crash, RunStates
  <2>3. wake' \in BOOLEAN /\ err' \in BOOLEAN /\ ctx' \in BOOLEAN /\ lease' \in BOOLEAN
    BY <1>2, <1>5 DEF Return, Crash
  <2> QED
    BY <2>1, <2>2, <2>3
<1>6. CASE CancelRun
  <2>1. ASSUME NEW r \in RowRecord PROVE [r EXCEPT !.state = "canceled"] \in RowRecord
    BY DEF RowRecord, Rows, Final
  <2>2. stored' \in [Node -> RowRecord]
    BY <1>1, <1>6, <2>1 DEF CancelRun
  <2>3. wake' \in BOOLEAN /\ err' \in BOOLEAN /\ ctx' \in BOOLEAN /\ lease' \in BOOLEAN
    BY <1>2, <1>6 DEF CancelRun
  <2>4. node' = node /\ run' = run /\ claims' = claims /\ faults' = faults + 1
    BY <1>6 DEF CancelRun
  <2>5. run' \in RunStates /\ claims' \in Nat /\ faults' \in Nat
    BY <1>1, <2>4
  <2> QED
    BY <1>1, <2>2, <2>3, <2>4, <2>5
<1>7. ASSUME NEW n \in Node, Elapse(n)
      PROVE  node' \in [Node -> NodeRecord] /\ stored' \in [Node -> RowRecord] /\ UNCHANGED driver
  BY <1>1, <1>7 DEF Elapse, NodeRecord, RowRecord
<1>8. ASSUME NEW c \in Child, CreateRow(c)
      PROVE  node' \in [Node -> NodeRecord] /\ stored' \in [Node -> RowRecord] /\ UNCHANGED driver
  <2>1. ASSUME NEW r \in RowRecord PROVE [r EXCEPT !.state = "queued"] \in RowRecord
    BY DEF RowRecord, Rows, Final
  <2> QED
    BY <1>1, <1>8, <2>1 DEF CreateRow, Child
<1>9. ASSUME NEW c \in Child, AddNode(c)
      PROVE  /\ node' \in [Node -> NodeRecord] /\ stored' \in [Node -> RowRecord]
             /\ UNCHANGED <<run, err, ctx, lease, claims>> /\ faults' \in Nat
             /\ wake' = wake \/ wake' = TRUE
  BY <1>1, <1>3, <1>9 DEF AddNode, Child
<1>10. CASE \E n \in Node : Elapse(n)
  BY <1>1, <1>2, <1>7, <1>10 DEF driver
<1>11. CASE \E c \in Child : CreateRow(c)
  BY <1>1, <1>2, <1>8, <1>11 DEF driver
<1>12. CASE \E c \in Child : AddNode(c)
  <2>1. PICK c \in Child : AddNode(c)
    BY <1>12
  <2>2. wake' \in BOOLEAN
    BY <1>2, <1>9, <2>1
  <2> QED
    BY <1>1, <1>2, <1>9, <2>1, <2>2
<1> QED
  BY <1>4, <1>5, <1>6, <1>10, <1>11, <1>12 DEF Outer

\* The types of nodes and rows, in the steps of a driven run.
LEMMA Types_inner ==
  ASSUME Base, CallsInv, Inner
  PROVE  /\ node' \in [Node -> NodeRecord] /\ stored' \in [Node -> RowRecord]
         /\ wake' \in BOOLEAN /\ err' \in BOOLEAN /\ ctx' \in BOOLEAN /\ lease' \in BOOLEAN
         /\ run' \in RunStates /\ claims' \in Nat /\ faults' \in Nat
<1>1. Writing
  BY Inner_good DEF Good
<1>2. claims' \in Nat
  BY Inner_run DEF Base, TypeOK
<1>3. lease' \in BOOLEAN
  <2>1. lease' = lease \/ lease' = FALSE
    BY Inner_run
  <2> QED
    BY <2>1, Flags DEF Base
<1>4. run' \in RunStates
  <2>1. CASE Quiet
    BY <2>1 DEF Quiet, Abandon, Wake, TakeOutside, GiveBackOutside, LoseLease, StopDriver,
                TimerFires, LockResume, LeaveResumeLoop, LookAgain, AcquireResume, driver, RunStates, Base, TypeOK
  <2>2. CASE ~Quiet
    BY <2>2, Inner_run DEF RunStates, Base, TypeOK
  <2> QED
    BY <2>1, <2>2
<1> QED
  BY <1>1, <1>2, <1>3, <1>4 DEF Writing

\* The type invariant in parts.
LEMMA Types_parts ==
  TypeOK <=> /\ node \in [Node -> NodeRecord] /\ stored \in [Node -> RowRecord] /\ Shape
             /\ wake \in BOOLEAN /\ err \in BOOLEAN /\ ctx \in BOOLEAN /\ lease \in BOOLEAN
             /\ run \in RunStates /\ claims \in Nat /\ faults \in Nat
<1>1. TypeOK => Shape
  BY DEF TypeOK, Shape, AttemptRecord
<1>2. ASSUME Shape PROVE adding \subseteq Child /\ timers \subseteq Node
  BY <1>2 DEF Shape
<1>3. {wake, err, ctx, lease} \subseteq BOOLEAN
        <=> wake \in BOOLEAN /\ err \in BOOLEAN /\ ctx \in BOOLEAN /\ lease \in BOOLEAN
  OBVIOUS
<1>4. TypeOK => /\ node \in [Node -> NodeRecord] /\ stored \in [Node -> RowRecord]
                /\ run \in RunStates /\ claims \in Nat /\ faults \in Nat
  BY DEF TypeOK, NodeRecord, RowRecord, RunStates
<1>5. ASSUME node \in [Node -> NodeRecord], stored \in [Node -> RowRecord], Shape,
             {wake, err, ctx, lease} \subseteq BOOLEAN,
             run \in RunStates, claims \in Nat, faults \in Nat
      PROVE  TypeOK
  BY <1>2, <1>5 DEF TypeOK, Shape, NodeRecord, RowRecord, AttemptRecord, RunStates
<1>6. TypeOK => {wake, err, ctx, lease} \subseteq BOOLEAN
  BY DEF TypeOK
<1> QED
  BY <1>1, <1>3, <1>4, <1>5, <1>6

-----------------------------------------------------------------------------
(* The invariant                                                           *)

\* The invariant in the parts in which it is proved.
LEMMA Inv_parts ==
  Inv <=> TypeOK /\ LocalInv /\ ControlInv /\ GraphInv /\ RunInv
<1>1. CallsInv <=> BusyInv /\ \A c \in Child : c \in adding => c \notin Known /\ stored[c].state # "absent"
  BY DEF CallsInv, BusyInv, Busy
<1>2. TypeOK => Shape
  BY Types_parts
<1>3. TypeOK => (LocalInv <=> ExecInv /\ ActiveInv /\ OneAttempt /\ HeldIffRunning)
  BY Local_parts
<1> QED
  BY <1>1, <1>2, <1>3 DEF Inv, ControlInv, GraphInv

\* The same, of the state after a step.
LEMMA Parts_next ==
  /\ (Inv <=> TypeOK /\ LocalInv /\ ControlInv /\ GraphInv /\ RunInv)'
  /\ (TypeOK <=> /\ node \in [Node -> NodeRecord] /\ stored \in [Node -> RowRecord] /\ Shape
                 /\ wake \in BOOLEAN /\ err \in BOOLEAN /\ ctx \in BOOLEAN /\ lease \in BOOLEAN
                 /\ run \in RunStates /\ claims \in Nat /\ faults \in Nat)'
BY Inv_parts, Types_parts, PTL

\* A run starts with its root queued and nobody driving it.
LEMMA Inv_init == ASSUME GraphAssumption, Init PROVE Inv
<1> USE DEF Init
<1>1. Inactive \in AttemptRecord /\ Inactive.waiters = 0 /\ ~Inactive.held
  BY DEF Inactive, AttemptRecord
<1>2. /\ Absent \in RowRecord /\ Absent.failures = 0
      /\ [Absent EXCEPT !.state = "queued"] \in RowRecord
      /\ [Absent EXCEPT !.state = "queued"].state = "queued"
      /\ [Absent EXCEPT !.state = "queued"].attempt = 0
  BY DEF Absent, RowRecord, Rows, Final
<1>3. Known = {} /\ \A n \in Node : node[n] = Absent
  BY Absent_record DEF Known
<1>4. Shape
  BY <1>1 DEF Shape, Pcs, CallPcs, GraphAssumption
<1>5. TypeOK
  <2>1. node \in [Node -> NodeRecord] /\ stored \in [Node -> RowRecord]
    BY <1>2, Absent_record
  <2> QED
    BY <1>4, <2>1, Types_parts DEF RunStates
<1>6. LocalInv
  BY <1>3, Absent_record, Idle_fits DEF LocalInv, Local
<1>7. Holding = {} /\ Taking = {} /\ Returning = {} /\ \A p \in Node : Waiters(p) = {}
  BY <1>1 DEF Holding, Taking, Returning, Waiters, Children
<1>8. ControlInv
  <2>1. BusyInv /\ ResumeInv
    BY DEF BusyInv, Busy, ResumeInv, ResumePcs
  <2>2. Cardinality({}) = 0
    BY FS_EmptySet
  <2>3. WaitersInv
    BY <1>1, <1>7, <2>2 DEF WaitersInv
  <2>4. SlotConservation
    BY <1>7, <2>2 DEF SlotConservation, GraphAssumption
  <2> QED
    BY <1>4, <2>1, <2>3, <2>4 DEF ControlInv
<1>9. RunInv
  BY <1>3, Absent_record DEF RunInv
<1>10. GraphInv
  <2>1. \A n \in Node : /\ stored[n].attempt = 0
                        /\ n # Root => stored[n] = Absent
                        /\ n = Root => stored[n].state = "queued"
    BY <1>2, Absent_record
  <2>2. RowInv
    <3>1. \A n \in Node : stored[n].state = "absent" => stored[n].attempt = 0 /\ stored[n].failures = 0
      BY <1>2, <2>1
    <3>2. \A c \in Child : stored[c].state = "absent"
      BY <2>1, Absent_record DEF Child
    <3>3. \A n \in Node : ~(stored[n].attempt > 0)
      BY <2>1
    <3>4. stored[Root].state # "absent"
      BY <2>1 DEF GraphAssumption
    <3> QED
      BY <3>1, <3>2, <3>3, <3>4 DEF RowInv
  <2>3. RestInv /\ NodeInv /\ CommittedIsVisible /\ SubtreeClosed
    BY <1>3 DEF RestInv, NodeInv, CommittedIsVisible, SubtreeClosed
  <2>4. FirstInv
    BY <2>1, Absent_record DEF FirstInv, Child
  <2> QED
    BY <1>3, <2>2, <2>3, <2>4 DEF GraphInv
<1> QED
  BY <1>5, <1>6, <1>8, <1>9, <1>10, Inv_parts

\* Every step keeps the invariant.
LEMMA Inv_next == ASSUME GraphAssumption, Inv, Next PROVE Inv'
<1>1. /\ Base /\ CallsInv /\ ControlInv /\ GraphInv /\ RunInv
      /\ TypeOK /\ LocalInv
  BY Inv_parts DEF Base, Inv
<1>2. ControlInv'
  BY <1>1, Control_next
<1>3. CASE Inner
  <2>1. /\ Good /\ adding' = adding /\ claims' = claims
        /\ lease' => lease
        /\ run = "down" => run' = "down"
    BY <1>1, <1>3, Inner_good
  <2>2. GraphInv'
    BY <1>1, <2>1, Graph_inner
  <2>3. TypeOK'
    BY <1>1, <1>2, <1>3, Types_inner, Parts_next DEF ControlInv
  <2>4. RunInv'
    BY <1>1, <1>3, Run_inner
  <2> QED
    BY <1>2, <2>1, <2>2, <2>3, <2>4, Parts_next DEF Good
<1>4. CASE Outer
  <2>1. GraphInv' /\ LocalInv'
    BY <1>1, <1>4, Graph_outer
  <2>2. TypeOK'
    BY <1>1, <1>2, <1>4, Types_outer, Parts_next DEF ControlInv
  <2>3. RunInv'
    BY <1>1, <1>4, Run_outer
  <2> QED
    BY <1>2, <2>1, <2>2, <2>3, Parts_next
<1> QED
  BY <1>3, <1>4, Next_cases

\* And so does a step of nobody.
LEMMA Inv_stutter == ASSUME Inv, UNCHANGED vars PROVE Inv'
<1> USE DEF vars, pool, driver
<1>1. TypeOK' /\ ExecInv' /\ ActiveInv' /\ OneAttempt'
  BY DEF Inv, TypeOK, ExecInv, ActiveInv, OneAttempt
<1>2. CallsInv' /\ ResumeInv' /\ WaitersInv' /\ RunInv'
  BY DEF Inv, CallsInv, ResumeInv, WaitersInv, Waiters, RunInv, Known
<1>3. RowInv' /\ RestInv' /\ NodeInv' /\ FirstInv'
  BY DEF Inv, RowInv, RestInv, NodeInv, FirstInv, Known
<1>4. SlotConservation' /\ HeldIffRunning' /\ CommittedIsVisible' /\ SubtreeClosed'
  BY DEF Inv, SlotConservation, Holding, Taking, Returning, HeldIffRunning, CommittedIsVisible,
         SubtreeClosed, Terminal, Known
<1> QED
  BY <1>1, <1>2, <1>3, <1>4 DEF Inv

\* The inductive invariant: every step of GraphExec keeps it, whatever the tree, the
\* prerequisites, the slots and the faults are.
THEOREM Invariant == Spec => []Inv
<1>1. GraphAssumption
  BY GraphAssumption
<1>2. Init => Inv
  BY <1>1, Inv_init
<1>3. Inv /\ [Next]_vars => Inv'
  BY <1>1, Inv_next, Inv_stutter
<1> QED
  BY <1>2, <1>3, PTL DEF Spec

\* TypeOK, for every value of the constants.
THEOREM TypesCorrect == Spec => []TypeOK
<1>1. Inv => TypeOK
  BY DEF Inv
<1> QED
  BY <1>1, Invariant, PTL

\* No slot of the pool is lost or released twice (SlotPool, Wait, resume, execute).
THEOREM SlotsConserved == Spec => []SlotConservation
<1>1. Inv => SlotConservation
  BY DEF Inv
<1> QED
  BY <1>1, Invariant, PTL

\* An attempt holds a slot exactly when its action is shown as running.
THEOREM HeldRunning == Spec => []HeldIffRunning
<1>1. Inv => HeldIffRunning
  BY DEF Inv
<1> QED
  BY <1>1, Invariant, PTL

\* No two attempts of an action run at once: what dispatchLocked may pick has no
\* goroutine and no attempt left.
THEOREM AttemptsExclusive == Spec => []OneAttempt
<1>1. Inv => OneAttempt
  BY DEF Inv
<1> QED
  BY <1>1, Invariant, PTL

\* commitLocked: committed state is the only state visible.
THEOREM VisibleCommitted == Spec => []CommittedIsVisible
<1>1. Inv => CommittedIsVisible
  BY DEF Inv
<1> QED
  BY <1>1, Invariant, PTL

\* closeLocked leaves nothing open below an action that ended.
THEOREM SubtreesClosed == Spec => []SubtreeClosed
<1>1. Inv => SubtreeClosed
  BY DEF Inv
<1> QED
  BY <1>1, Invariant, PTL

-----------------------------------------------------------------------------
(* When an executor gives up                                               *)

\* While the claim is in force no lawful write is refused: the row is as the executor
\* last saw it, so its attempt is the node's and it is open.
LEMMA Not_refused ==
  ASSUME TypeOK, CommittedIsVisible, ~err, lease, NEW live, live, NEW upd,
         \A n \in DOMAIN upd : Lawful(n, upd[n])
  PROVE  ~Refused(upd, live)
<1>1. ASSUME NEW n \in DOMAIN upd PROVE stored[n].attempt = node[n].attempt /\ ~RowTerminal(n)
  <2>1. n \in Known /\ n \in Node /\ ~Terminal(n)
    BY <1>1 DEF Lawful, Known
  <2>2. stored[n] = RowOf(node[n]) /\ node[n] \in NodeRecord
    BY <2>1 DEF CommittedIsVisible, TypeOK, NodeRecord
  <2>3. RowOf(node[n]).state \notin Final
    BY <2>1, <2>2, RowOf_type DEF Status, Terminal, Final
  <2> QED
    BY <2>2, <2>3, RowOf_type DEF RowTerminal
<1> QED
  BY <1>1 DEF Refused

\* An executor in force: it drives the run, has not given up and holds the claim.
InForce == Base /\ CommittedIsVisible /\ ~err /\ lease
Clean == err' => faults' > 0

\* A commit in force fails for a fault only.
LEMMA One_clean ==
  ASSUME InForce, NEW live, live, NEW n \in Node, NEW r, Lawful(n, r),
         Commit(One(n, r), live) \/ CommitFails(One(n, r), OneOrder(n), live)
  PROVE  Clean
<1>1. ~Refused(One(n, r), live)
  BY Not_refused DEF InForce, Base, One
<1>2. CASE Commit(One(n, r), live)
  BY <1>2, One_commits DEF InForce, Base, Clean
<1>3. CASE CommitFails(One(n, r), OneOrder(n), live)
  BY <1>1, <1>3, One_fails DEF InForce, Base, Clean
<1> QED
  BY <1>2, <1>3

\* So do the writes of an end.
LEMMA End_clean ==
  ASSUME InForce, ctx, NEW n \in Node, NEW r, Lawful(n, r), r.state \in Final, Finished(n, r)
  PROVE  Clean
<1>1. \A m \in Open(Descendants[n]) : Lawful(m, Canceled(m))
  BY Lawful_values DEF InForce, Base, Open, Known, Canceled, Final, States, TypeOK
<1>2. \A m \in DOMAIN End(n, r) : Lawful(m, End(n, r)[m])
  BY <1>1 DEF End
<1>3. ~Refused(End(n, r), ctx)
  BY <1>2, Not_refused DEF InForce, Base
<1> QED
  BY <1>3, End_writes DEF InForce, Base, Clean

\* So do the writes of a close.
LEMMA Close_clean ==
  ASSUME InForce, NEW K, NEW order, order \subseteq SUBSET Open(K),
         \/ Writes(Close(K), TRUE) /\ (ctx' = ctx \/ ctx' = FALSE)
         \/ CommitFails(Close(K), order, TRUE)
  PROVE  Clean
<1>1. \A n \in DOMAIN Close(K) : Lawful(n, Close(K)[n])
  BY Lawful_values DEF InForce, Base, Close, Open, Known, Canceled, Final, States
<1>2. ~Refused(Close(K), TRUE)
  BY <1>1, Not_refused DEF InForce, Base
<1> QED
  BY <1>2, Close_writes DEF InForce, Base, Clean

\* Only an action with several prerequisites is failed twice.
LEMMA Repeats_need ==
  ASSUME GraphAssumption, RepeatedCommit
  PROVE  \E n \in Node : Cardinality(Prereq[n]) > 1
<1>1. PICK S \in DispatchOrder : \E n \in S \cap Doomed : Cardinality(BrokenFor(n, S)) > 1
  BY DEF RepeatedCommit
<1>2. PICK n \in Doomed : Cardinality(BrokenFor(n, S)) > 1
  BY <1>1
<1>3. n \in Node
  BY DEF Doomed, Due
<1>4. BrokenFor(n, S) \in SUBSET Prereq[n] /\ Prereq[n] \in SUBSET Node /\ IsFiniteSet(Node)
  BY <1>3 DEF BrokenFor, GraphAssumption
<1>5. IsFiniteSet(Prereq[n])
  BY <1>4, FS_Subset
<1>6. /\ Cardinality(BrokenFor(n, S)) <= Cardinality(Prereq[n])
      /\ Cardinality(Prereq[n]) \in Nat /\ Cardinality(BrokenFor(n, S)) \in Nat
  BY <1>4, <1>5, FS_Subset, FS_CardinalityType
<1> QED
  BY <1>2, <1>3, <1>6

\* The dispatcher, when no node is failed twice.
LEMMA Dispatch_clean ==
  ASSUME InForce, ~RepeatedCommit, Dispatch PROVE Clean
<1>1. /\ DOMAIN Dispatched = Doomed \cup Runnable /\ Doomed \cup Runnable \subseteq Node
      /\ \A n \in DOMAIN Dispatched : Lawful(n, Dispatched[n])
  BY Dispatched_lawful DEF InForce, Base
<1>2. DispatchOrder \subseteq SUBSET DOMAIN Dispatched
  BY <1>1 DEF DispatchOrder
<1> HIDE DEF Dispatched
<1>3. ~Refused(Dispatched, ctx)
  BY <1>1, Not_refused DEF InForce, Base, Dispatch
<1>4. CASE Commit(Dispatched, ctx)
  BY <1>4 DEF Commit, Writes, InForce, Clean
<1>5. CASE CommitFails(Dispatched, DispatchOrder, ctx)
  BY <1>1, <1>2, <1>3, <1>5, Fail_writes DEF InForce, Base, Clean
<1> QED
  BY <1>4, <1>5 DEF Dispatch

\* The lawful ends and steps of an open node, by where its goroutine stands.
LEMMA Open_lawful ==
  ASSUME Base, NEW n \in Node, ~Terminal(n), exec[n] # "none"
  PROVE  /\ \A s \in Final : /\ Lawful(n, [node[n] EXCEPT !.state = s])
                             /\ [node[n] EXCEPT !.state = s].state = s
         /\ \A s \in {"ready", "image", "running", "children"} :
              Lawful(n, [node[n] EXCEPT !.state = s])
<1>1. n \in Known /\ node[n].state # "pending"
  BY Open_local DEF Base, LocalInv, Local, Fits
<1> QED
  BY <1>1, Lawful_values DEF Base, States, Final, TypeOK

\* A node about to wait for its image.
LEMMA SeekImage_clean ==
  ASSUME InForce, ctx, NEW n \in Node, exec[n] # "none", ~Terminal(n), SeekImage(n) PROVE Clean
<1> DEFINE r == [node[n] EXCEPT !.state = "image"]
<1>1. Lawful(n, r)
  BY Open_lawful DEF InForce
<1> HIDE DEF r
<1>2. err' = err \/ Commit(One(n, r), ctx) \/ CommitFails(One(n, r), OneOrder(n), ctx)
  BY DEF SeekImage, r
<1> QED
  BY <1>1, <1>2, One_clean DEF InForce, Clean

\* The steps of execute.
LEMMA Execute_clean ==
  ASSUME InForce, NEW n \in Node, Start(n) \/ CacheReply(n) \/ ImageReply(n) \/ Begin(n) PROVE Clean
<1>1. CASE err' = err
  BY <1>1 DEF InForce, Clean
<1>2. ASSUME ~Terminal(n), ctx, NEW s \in Final, Finished(n, [node[n] EXCEPT !.state = s]),
             exec[n] # "none"
      PROVE  Clean
  <2> DEFINE r == [node[n] EXCEPT !.state = s]
  <2>1. Lawful(n, r) /\ r.state \in Final
    BY <1>2, Open_lawful DEF InForce
  <2> HIDE DEF r
  <2>2. Finished(n, r)
    BY <1>2 DEF r
  <2> QED
    BY <1>2, <2>1, <2>2, End_clean
<1>3. CASE Start(n)
  <2>1. CASE node[n].state = "ready" /\ ctx /\ SeekImage(n)
    BY <1>3, <2>1, SeekImage_clean DEF Start, Terminal, Final
  <2> QED
    BY <1>1, <1>3, <2>1 DEF Start
<1>4. CASE CacheReply(n)
  BY <1>1, <1>2, <1>4, SeekImage_clean DEF CacheReply, Final
<1>5. CASE ImageReply(n)
  <2> DEFINE r == [node[n] EXCEPT !.state = "ready"]
  <2>1. CASE ~Terminal(n) /\ ctx /\ (Commit(One(n, r), ctx) \/ CommitFails(One(n, r), OneOrder(n), ctx))
    <3>1. Lawful(n, r)
      BY <1>5, <2>1, Open_lawful DEF InForce, ImageReply
    <3> QED
      BY <2>1, <3>1, One_clean
  <2> QED
    BY <1>1, <1>2, <1>5, <2>1 DEF ImageReply, Final
<1>6. CASE Begin(n)
  <2> DEFINE r == [node[n] EXCEPT !.state = "running", !.attempt = @ + 1, !.backoff = FALSE]
  <2>1. CASE node[n].state = "ready" /\ ctx
             /\ (Commit(One(n, r), ctx) \/ CommitFails(One(n, r), OneOrder(n), ctx))
    <3>1. ~Terminal(n) /\ n \in Known
      BY <2>1 DEF Terminal, Final, Known
    <3>2. Lawful(n, r)
      BY <2>1, <3>1, Lawful_values DEF InForce, Base
    <3> QED
      BY <2>1, <3>2, One_clean
  <2> QED
    BY <1>1, <1>6, <2>1 DEF Begin
<1> QED
  BY <1>3, <1>4, <1>5, <1>6

\* The end of an attempt.
LEMMA Finish_clean ==
  ASSUME InForce, NEW n \in Node, Finish(n) PROVE Clean
<1> DEFINE failed == [node[n] EXCEPT !.state = "failed", !.failures = @ + 1]
           done == [node[n] EXCEPT !.state = "done"]
           r == [failed EXCEPT !.state = "pending", !.backoff = TRUE]
<1>1. CASE Superseded(n)
  BY <1>1 DEF Finish, InForce, Clean
<1>2. CASE ~Superseded(n)
  <2>1. ctx /\ ~Terminal(n) /\ n \in Known /\ node[n].state \in {"running", "children"} /\ exec[n] = "exit"
    BY <1>2, Open_local DEF Finish, Superseded, InForce
  <2>2. Lawful(n, done) /\ done.state \in Final
    BY <2>1, Open_lawful DEF InForce, Final
  <2>3. Lawful(n, failed) /\ failed.state \in Final
    <3>1. failed.state = "failed"
      BY DEF InForce, Base, TypeOK
    <3> QED
      BY <2>1, <3>1, Lawful_values DEF InForce, Base, Final
  <2>4. Retries(n) => Lawful(n, r)
    BY <2>1, Lawful_values DEF InForce, Base, Retries
  <2>5. \/ Finished(n, done) \/ Finished(n, failed)
        \/ Retries(n) /\ (Commit(One(n, r), ctx) \/ CommitFails(One(n, r), OneOrder(n), ctx))
    BY <1>2 DEF Finish
  <2> HIDE DEF done, failed, r
  <2> QED
    BY <2>1, <2>2, <2>3, <2>4, <2>5, End_clean, One_clean
<1> QED
  BY <1>1, <1>2

\* The waits of callers.
LEMMA Api_clean ==
  ASSUME InForce, CallsInv, ~GivesUpWait, NEW c \in Child, Wait(c) \/ Resume(c) PROVE Clean
<1> DEFINE p == Parent[c]
           w == [node[p] EXCEPT !.state = "children"]
           r == [node[p] EXCEPT !.state = "running"]
<1>1. p \in Node /\ exec[p] \in {"run", "exit"}
  BY DEF Wait, MayCall, Resume, CallsInv, InForce, Base, GraphAssumption, Child
<1>2. CASE err' = err
  BY <1>2 DEF InForce, Clean
<1>3. ~Terminal(p) => Lawful(p, w) /\ Lawful(p, r)
  BY <1>1, Open_lawful DEF InForce
<1>4. \/ err' = err
      \/ ~Terminal(p) /\ (Commit(One(p, w), TRUE) \/ CommitFails(One(p, w), OneOrder(p), TRUE))
      \/ ~Terminal(p) /\ (Commit(One(p, r), TRUE) \/ CommitFails(One(p, r), OneOrder(p), TRUE))
  <2>1. ASSUME CommitWithdrawn(p, One(p, w)), Acting(p), active[p].held,
               call[c] = "idle", SetCall(c, "returned")
        PROVE  FALSE
    BY <2>1 DEF CommitWithdrawn, SetCall, GivesUpWait, InForce, Base, TypeOK
  <2> QED
    BY <2>1 DEF Wait, Resume, RunningAgain, Acting
<1> HIDE DEF w, r
<1> QED
  BY <1>1, <1>2, <1>3, <1>4, One_clean

\* A step gives up for a fault only, a repeated commit of dispatch and a withdrawn wait
\* apart.
LEMMA Next_clean ==
  ASSUME InForce, CallsInv, ~(Dispatch /\ RepeatedCommit), ~GivesUpWait, Next PROVE Clean
<1>1. CASE Quiet \/ Outer \/ \E n \in Node : AcquireSlot(n) \/ TaskExits(n)
  BY <1>1 DEF Quiet, Abandon, Wake, TakeOutside, GiveBackOutside, LoseLease, StopDriver, TimerFires,
     LockResume, LeaveResumeLoop, LookAgain, AcquireResume, driver, Outer, Claim, Return, Crash, CancelRun, Elapse,
     CreateRow, AddNode, AcquireSlot, TaskExits, InForce, Clean
<1>2. CASE Dispatch
  BY <1>2, Dispatch_clean
<1>3. CASE CloseRun \/ Cancel
  <2>1. \/ Writes(Close(Node), TRUE) /\ (ctx' = ctx \/ ctx' = FALSE)
        \/ CommitFails(Close(Node), SUBSET Open(Node), TRUE)
    BY <1>3 DEF CloseRun, Cancel
  <2> QED
    BY <2>1, Close_clean
<1>4. ASSUME NEW n \in Node, CancelSubtree(n) PROVE Clean
  <2> DEFINE K == {n} \cup Descendants[n]
             order == IF Terminal(n) THEN SUBSET Open(K) ELSE EndOrder(n)
  <2>1. order \subseteq SUBSET Open(K)
    BY <1>4 DEF EndOrder, Open, CancelSubtree
  <2>2. \/ Writes(Close(K), TRUE) /\ (ctx' = ctx \/ ctx' = FALSE)
        \/ CommitFails(Close(K), order, TRUE)
    BY <1>4 DEF CancelSubtree, Commit
  <2> HIDE DEF K, order
  <2> QED
    BY <2>1, <2>2, Close_clean
<1>5. CASE \E n \in Node : Start(n) \/ CacheReply(n) \/ ImageReply(n) \/ Begin(n) \/ Finish(n)
  BY <1>5, Execute_clean, Finish_clean
<1>6. CASE \E c \in Child : Wait(c) \/ Resume(c)
  BY <1>6, Api_clean
<1>7. CASE \E c \in Child : StopWaiting(c)
  BY <1>7 DEF StopWaiting, InForce, Clean
<1> QED
  BY <1>1, <1>2, <1>3, <1>4, <1>5, <1>6, <1>7, Next_cases DEF Inner

\* Faults are counted, and the claim is lost by one or given back at the end.
LEMMA CommitFails_faults ==
  ASSUME NEW upd, NEW order, NEW live, CommitFails(upd, order, live)
  PROVE  faults' = faults \/ faults' = faults + 1
BY DEF CommitFails

\* Faults are counted, and without one nobody takes the claim away.
LEMMA Claim_kept ==
  ASSUME Next
  PROVE  /\ faults' = faults \/ faults' = faults + 1
         /\ \/ lease' = lease \/ lease' = TRUE \/ run' = "down" \/ faults' = faults + 1
         /\ run = "down" /\ run' # "down" => lease' = TRUE
<1>1. CASE Quiet \/ Outer \/ \E n \in Node : AcquireSlot(n) \/ TaskExits(n)
  BY <1>1 DEF Quiet, Abandon, Wake, TakeOutside, GiveBackOutside, LoseLease, StopDriver, TimerFires,
     LockResume, LeaveResumeLoop, LookAgain, AcquireResume, driver, Outer, Claim, Return, Crash, CancelRun, Elapse,
     CreateRow, AddNode, AcquireSlot, TaskExits
<1>2. CASE Dispatch
  BY <1>2, CommitFails_faults DEF Dispatch, RepeatedCommit, Commit, Writes
<1>3. CASE CloseRun \/ Cancel
  BY <1>3, CommitFails_faults DEF CloseRun, Cancel, Writes
<1>4. ASSUME NEW n \in Node, CancelSubtree(n)
      PROVE  (faults' = faults \/ faults' = faults + 1) /\ UNCHANGED <<lease, run>>
  BY <1>4, CommitFails_faults DEF CancelSubtree, Commit, Writes
<1>5. ASSUME NEW n \in Node, Start(n) \/ CacheReply(n) \/ ImageReply(n)
      PROVE  (faults' = faults \/ faults' = faults + 1) /\ UNCHANGED <<lease, run>>
  BY <1>5, CommitFails_faults DEF Start, CacheReply, ImageReply, SeekImage, Finished, Commit, Writes
<1>6. ASSUME NEW n \in Node, Begin(n) \/ Finish(n)
      PROVE  (faults' = faults \/ faults' = faults + 1) /\ UNCHANGED <<lease, run>>
  BY <1>6, CommitFails_faults DEF Begin, Finish, Finished, Commit, Writes
<1>7. ASSUME NEW c \in Child, Wait(c) \/ Resume(c) \/ StopWaiting(c)
      PROVE  (faults' = faults \/ faults' = faults + 1) /\ UNCHANGED <<lease, run>>
  BY <1>7, CommitFails_faults DEF Wait, CommitWithdrawn, Resume, StopWaiting, Commit, Writes
<1> QED
  BY <1>1, <1>2, <1>3, <1>4, <1>5, <1>6, <1>7, Next_cases DEF Inner

\* The claim is in force until the first fault.
LEMMA Fault_next ==
  ASSUME Inv, FaultInv, Next PROVE FaultInv'
<1>1. faults \in Nat /\ (faults' = faults \/ faults' = faults + 1)
  BY Claim_kept DEF Inv, TypeOK
<1>2. SUFFICES ASSUME faults' = 0, run' # "down" PROVE lease'
  BY DEF FaultInv
<1>3. faults = 0 /\ faults' # faults + 1
  BY <1>1, <1>2
<1>4. CASE run = "down"
  BY <1>2, <1>4, Claim_kept
<1>5. CASE run # "down"
  BY <1>2, <1>3, <1>5, Claim_kept DEF FaultInv
<1> QED
  BY <1>4, <1>5

\* Without a fault only a repeated commit of dispatch is refused, or a withdrawn wait.
LEMMA GivesUp_next ==
  ASSUME GraphAssumption, Inv, FaultInv, Next, ~err, err', ~(faults' > 0)
  PROVE  (Dispatch /\ RepeatedCommit) \/ GivesUpWait
<1>1. faults = 0
  BY Claim_kept DEF Inv, TypeOK
<1>2. /\ Base /\ CallsInv /\ RunInv /\ CommittedIsVisible
      /\ LocalInv
  BY Inv_parts DEF Base, Inv
<1>3. CASE run = "down"
  <2>1. CASE Inner
    <3>1. Quiet
      BY <1>2, <1>3, <2>1, Inner_down
    <3>2. err' = err
      BY <1>2, <3>1, Quiet_step
    <3> QED
      BY <3>2
  <2>2. CASE Outer
    BY <2>2 DEF Outer, Claim, Return, Crash, CancelRun, Elapse, CreateRow, AddNode, driver
  <2> QED
    BY <2>1, <2>2, Next_cases
<1>4. CASE run # "down"
  <2>1. InForce
    BY <1>1, <1>2, <1>4 DEF InForce, FaultInv
  <2> QED
    BY <1>2, <2>1, Next_clean DEF Clean
<1> QED
  BY <1>3, <1>4

\* The claim is in force until the first fault, at any time.
LEMMA Fault_always == Spec => []FaultInv
<1>1. Init => FaultInv
  BY DEF Init, FaultInv
<1>2. ASSUME FaultInv, UNCHANGED vars PROVE FaultInv'
  BY <1>2 DEF FaultInv, vars, driver
<1>3. FaultInv /\ Inv /\ [Next]_vars => FaultInv'
  BY <1>2, Fault_next
<1> QED
  BY <1>1, <1>3, Invariant, PTL DEF Spec

\* When an executor sets e.err: after a fault of the outside world; because the loop of
\* dispatchLocked committed a failure for a second missing prerequisite; or because a
\* task withdrew a Wait, whose commit uses the context of the call, before its attempt had
\* given its slot back. The fence of TransitionRunTaskAction refuses no other write of
\* the driver that has the claim.
THEOREM GivesUp ==
  Spec => [][~err /\ err' => faults' > 0 \/ (Dispatch /\ RepeatedCommit) \/ GivesUpWait]_vars
<1>1. Inv /\ FaultInv /\ [Next]_vars =>
        [~err /\ err' => faults' > 0 \/ (Dispatch /\ RepeatedCommit) \/ GivesUpWait]_vars
  BY GivesUp_next, GraphAssumption
<1> QED
  BY <1>1, Invariant, Fault_always, PTL DEF Spec

\* While no action has more than one prerequisite, only the outside world and a
\* withdrawn wait make an executor give up.
THEOREM OnlyFaultsPoison ==
  ASSUME \A n \in Node : Cardinality(Prereq[n]) <= 1
  PROVE  Spec => NeverPoisoned
<1>1. ~RepeatedCommit
  <2>1. \A n \in Node : Cardinality(Prereq[n]) \in Nat
    <3>1. \A n \in Node : Prereq[n] \in SUBSET Node
      BY GraphAssumption DEF GraphAssumption
    <3> QED
      BY <3>1, GraphAssumption, FS_Subset, FS_CardinalityType DEF GraphAssumption
  <2> QED
    BY <2>1, Repeats_need, GraphAssumption
<1>2. Inv /\ FaultInv /\ [Next]_vars => [~err /\ err' => faults' > 0 \/ GivesUpWait]_vars
  BY <1>1, GivesUp_next, GraphAssumption
<1> QED
  BY <1>2, Invariant, Fault_always, PTL DEF Spec, NeverPoisoned

\* The attempts that are told to stop are those of closed actions, and without a fault
\* an executor stops for good only when everything in its graph is closed.
StopInv ==
  /\ ~err => \A n \in Node : active[n].canceled => Terminal(n)
  /\ faults = 0 /\ run # "down" /\ ~err /\ ~ctx => \A n \in Known : Terminal(n)

\* The same of a step.
Calm ==
  /\ ~err' => \A n \in Node : active'[n].canceled => active[n].canceled \/ node'[n].state \in Final
  /\ ~err' /\ ctx /\ ~ctx' => \/ faults' > 0 \/ ~lease
                              \/ \A n \in Node : node'[n].state \in Final \cup {"absent"}

\* Attempts are told to stop with the nodes that are closed.
LEMMA CancelAttempts_calm ==
  ASSUME NEW K, NEW n \in Node, CancelAttempts(K)[n].canceled
  PROVE  active[n].canceled \/ n \in Open(K)
BY DEF CancelAttempts

\* Closing a part of the graph, or all of it.
LEMMA Close_calm ==
  ASSUME Base, CloseRun \/ Cancel \/ \E n \in Node : CancelSubtree(n) PROVE Calm
<1>1. ASSUME NEW K \in SUBSET Node, NEW order, order \subseteq SUBSET Open(K),
             \/ Writes(Close(K), TRUE) /\ (ctx' = ctx \/ ctx' = FALSE)
             \/ CommitFails(Close(K), order, TRUE),
             active' = CancelAttempts(K), K = Node \/ ctx' = ctx \/ err'
      PROVE  Calm
  <2>1. ~err' => \A n \in Node : node'[n] = IF n \in Open(K) THEN Canceled(n) ELSE node[n]
    BY <1>1, Close_writes DEF Base
  <2>2. \A n \in Open(K) : Canceled(n).state \in Final
    BY <1>1 DEF Open, Canceled, Final, Base, TypeOK
  <2>3. \A n \in Node : n \notin Open(Node) => node[n].state \in Final \cup {"absent"}
    BY DEF Open, Known, Terminal
  <2> QED
    BY <1>1, <2>1, <2>2, <2>3, CancelAttempts_calm DEF Calm
<1>2. CASE CloseRun \/ Cancel
  <2>1. \/ Writes(Close(Node), TRUE) /\ (ctx' = ctx \/ ctx' = FALSE)
        \/ CommitFails(Close(Node), SUBSET Open(Node), TRUE)
    BY <1>2 DEF CloseRun, Cancel
  <2> QED
    BY <1>1, <1>2, <2>1 DEF CloseRun, Cancel
<1>3. ASSUME NEW n \in Node, CancelSubtree(n) PROVE Calm
  <2> DEFINE K == {n} \cup Descendants[n]
             order == IF Terminal(n) THEN SUBSET Open(K) ELSE EndOrder(n)
  <2>1. order \subseteq SUBSET Open(K) /\ K \in SUBSET Node
    BY <1>3, Descendants_type DEF EndOrder, Open, CancelSubtree
  <2>2. \/ Writes(Close(K), TRUE) /\ ctx' = ctx
        \/ CommitFails(Close(K), order, TRUE) /\ err'
    BY <1>3 DEF CancelSubtree, Commit, CommitFails
  <2>3. active' = CancelAttempts(K)
    BY <1>3 DEF CancelSubtree
  <2> HIDE DEF K, order
  <2> QED
    BY <1>1, <2>1, <2>2, <2>3
<1> QED
  BY <1>2, <1>3

\* A commit keeps the context or sets the error.
LEMMA Commit_calm ==
  ASSUME NEW upd, NEW order, NEW live, Commit(upd, live) \/ CommitFails(upd, order, live)
  PROVE  ctx' = ctx \/ err'
BY DEF Commit, CommitFails

\* Of execute, with the ends of attempts.
LEMMA Execute_calm ==
  ASSUME Base, NEW n \in Node,
         \/ Start(n) \/ CacheReply(n) \/ ImageReply(n) \/ AcquireSlot(n) \/ Begin(n)
         \/ TaskExits(n) \/ Finish(n)
  PROVE  Calm
<1>1. ctx' = ctx \/ err'
  BY Commit_calm DEF Start, CacheReply, ImageReply, AcquireSlot, Begin, TaskExits, Finish, SeekImage,
     Finished, driver
<1>2. ASSUME NEW r, Lawful(n, r), r.state \in Final, Finished(n, r),
             \A m \in Node : active'[m].canceled => CancelAttempts(Descendants[n])[m].canceled
      PROVE  Calm
  <2>1. ~err' => \A m \in Open(Descendants[n]) : node'[m].state \in Final
    BY <1>2, End_writes DEF Base
  <2> QED
    BY <1>1, <1>2, <2>1, CancelAttempts_calm DEF Calm
<1>3. CASE \A m \in Node : active'[m].canceled => active[m].canceled
  BY <1>1, <1>3 DEF Calm
<1>4. CASE Start(n) \/ AcquireSlot(n) \/ TaskExits(n)
  BY <1>3, <1>4 DEF Start, AcquireSlot, TaskExits
<1>5. CASE Begin(n)
  <2>1. [Inactive EXCEPT !.on = TRUE, !.held = TRUE].canceled = FALSE
    BY DEF Inactive
  <2>2. active' = active \/ active' = [active EXCEPT ![n] = [Inactive EXCEPT !.on = TRUE, !.held = TRUE]]
    BY <1>5 DEF Begin
  <2>3. active \in [Node -> [on : BOOLEAN, held : BOOLEAN, canceled : BOOLEAN, waiters : Nat]]
    BY DEF Base, TypeOK
  <2> QED
    BY <1>3, <2>1, <2>2, <2>3
<1>6. ASSUME CacheReply(n) \/ ImageReply(n), NEW s \in {"done", "failed"}, ~Terminal(n),
             Finished(n, [node[n] EXCEPT !.state = s]), active' = CancelAttempts(Descendants[n])
      PROVE  Calm
  <2> DEFINE r == [node[n] EXCEPT !.state = s]
  <2>1. Lawful(n, r) /\ r.state \in Final
    BY <1>6, Open_lawful DEF CacheReply, ImageReply, Final
  <2>2. Finished(n, r)
    BY <1>6
  <2> HIDE DEF r
  <2> QED
    BY <1>2, <1>6, <2>1, <2>2
<1>7. CASE CacheReply(n) \/ ImageReply(n)
  BY <1>3, <1>6, <1>7 DEF CacheReply, ImageReply
<1>8. CASE Finish(n)
  <2> DEFINE failed == [node[n] EXCEPT !.state = "failed", !.failures = @ + 1]
             done == [node[n] EXCEPT !.state = "done"]
  <2>1. CASE active' = Detach(n)
    BY <1>3, <2>1 DEF Detach, Inactive, Base, TypeOK
  <2>2. CASE /\ ~Superseded(n) /\ (Finished(n, done) \/ Finished(n, failed))
             /\ active' = [CancelAttempts(Descendants[n]) EXCEPT ![n] = Detach(n)[n]]
    <3>1. ~Terminal(n) /\ n \in Known /\ node[n].state \in {"running", "children"} /\ exec[n] = "exit"
      <4>1. exec[n] = "exit" /\ ~Terminal(n)
        BY <1>8, <2>2 DEF Finish, Superseded
      <4> QED
        BY <4>1, Open_local DEF Base, LocalInv, Local, Fits, Terminal
    <3>2. Lawful(n, done) /\ done.state \in Final
      BY <3>1, Open_lawful DEF Final
    <3>3. Lawful(n, failed) /\ failed.state \in Final
      <4>1. failed.state = "failed"
        BY DEF Base, TypeOK
      <4> QED
        BY <3>1, <4>1, Lawful_values DEF Base, Final
    <3>4. \A m \in Node : active'[m].canceled => CancelAttempts(Descendants[n])[m].canceled
      BY <2>2 DEF Detach, Inactive, CancelAttempts, Base, TypeOK
    <3> HIDE DEF done, failed
    <3> QED
      BY <1>2, <2>2, <3>2, <3>3, <3>4
  <2> QED
    BY <1>8, <2>1, <2>2 DEF Finish
<1> QED
  BY <1>4, <1>5, <1>7, <1>8

\* Every step of the executor and of the API.
LEMMA Inner_calm ==
  ASSUME Base, FaultInv, run # "down", Inner PROVE Calm
<1>1. active' = active /\ (ctx' = ctx \/ err') => Calm
  BY DEF Calm
<1>2. CASE StopDriver
  BY <1>2 DEF StopDriver, FaultInv, Calm, Base, TypeOK
<1>3. CASE Quiet /\ ~StopDriver
  <2>1. active' = active /\ err' = err /\ (ctx' = ctx \/ Abandon)
    BY <1>3 DEF Quiet, Abandon, Wake, TakeOutside, GiveBackOutside, LoseLease, TimerFires,
       LockResume, LeaveResumeLoop, LookAgain, AcquireResume, driver
  <2>2. Abandon => err \/ ~ctx
    BY DEF Abandon
  <2> QED
    BY <2>1, <2>2 DEF Calm
<1>4. CASE Dispatch
  BY <1>1, <1>4, Commit_calm DEF Dispatch, RepeatedCommit
<1>5. CASE \E c \in Child : Wait(c) \/ Resume(c) \/ StopWaiting(c)
  <2>1. PICK c \in Child : Wait(c) \/ Resume(c) \/ StopWaiting(c)
    BY <1>5
  <2>2. ctx' = ctx \/ err'
    BY <2>1, Commit_calm DEF Wait, CommitWithdrawn, Resume, StopWaiting
  <2>3. Parent[c] \in Node
    BY DEF Base, GraphAssumption, Child
  <2>4. \A n \in Node : active'[n].canceled = active[n].canceled
    <3> DEFINE p == Parent[c]
    <3>1. \/ active' = active
          \/ active' = [active EXCEPT ![p].waiters = @ + 1]
          \/ active' = [active EXCEPT ![p].waiters = @ - 1]
          \/ active' = [active EXCEPT ![p].held = FALSE, ![p].waiters = @ + 1]
          \/ active' = [active EXCEPT ![p].held = TRUE]
      BY <2>1 DEF Wait, Resume, StopWaiting
    <3>2. active \in [Node -> [on : BOOLEAN, held : BOOLEAN, canceled : BOOLEAN, waiters : Nat]]
      BY DEF Base, TypeOK
    <3>3. ASSUME NEW r \in AttemptRecord
          PROVE  /\ [r EXCEPT !.waiters = @ + 1].canceled = r.canceled
                 /\ [r EXCEPT !.waiters = @ - 1].canceled = r.canceled
                 /\ [r EXCEPT !.held = TRUE].canceled = r.canceled
                 /\ [r EXCEPT !.held = FALSE, !.waiters = @ + 1].canceled = r.canceled
      BY DEF AttemptRecord
    <3> HIDE DEF p
    <3> QED
      BY <2>3, <3>1, <3>2, <3>3 DEF AttemptRecord, p
  <2> QED
    BY <2>2, <2>4 DEF Calm
<1> QED
  BY <1>2, <1>3, <1>4, <1>5, Close_calm, Execute_calm DEF Inner

\* StopInv, in every step.
LEMMA Stop_next ==
  ASSUME GraphAssumption, Inv, FaultInv, StopInv, Next PROVE StopInv'
<1>1. /\ Base /\ CallsInv /\ RunInv /\ LocalInv
      /\ faults \in Nat /\ (faults' = faults \/ faults' = faults + 1)
  BY Inv_parts, Claim_kept DEF Base, Inv, TypeOK
<1>2. CASE Inner /\ run # "down"
  <2>1. Calm /\ Writing
    BY <1>1, <1>2, Inner_calm, Inner_good DEF Good
  <2>2. ASSUME ~err', NEW n \in Node
        PROVE  /\ ~err /\ (Terminal(n) => node'[n] = node[n])
               /\ node[n].state = "absent" => node'[n] = node[n]
    BY <2>1, <2>2 DEF Writing, Written, Lawful, Known
  <2>3. ASSUME ~err', NEW n \in Node, active'[n].canceled PROVE node'[n].state \in Final
    BY <2>1, <2>2, <2>3 DEF Calm, StopInv, Terminal
  <2>4. ASSUME faults' = 0, ~err', ~ctx', NEW n \in Node, node'[n].state # "absent"
        PROVE  node'[n].state \in Final
    <3>1. faults = 0 /\ lease
      BY <1>1, <1>2, <2>4 DEF FaultInv
    <3>2. CASE ctx
      BY <2>1, <2>4, <3>1, <3>2 DEF Calm
    <3>3. CASE ~ctx
      BY <1>2, <2>2, <2>4, <3>1, <3>3 DEF StopInv, Known, Terminal
    <3> QED
      BY <3>2, <3>3
  <2> QED
    BY <2>3, <2>4 DEF StopInv, Known, Terminal
<1>3. CASE Inner /\ run = "down"
  <2>1. Quiet
    BY <1>1, <1>3, Inner_down
  <2>2. UNCHANGED <<node, active, err>> /\ run' = "down"
    BY <1>1, <1>3, <2>1, Quiet_step
  <2> QED
    BY <2>2 DEF StopInv, Terminal
<1>4. CASE Claim
  <2>1. \A n \in Node : active'[n] = Inactive
    BY <1>1, <1>4, Down_idle DEF Claim
  <2> QED
    BY <1>4, <2>1 DEF Claim, StopInv, Inactive
<1>5. CASE Return
  <2>1. \A n \in Node : active'[n] = Inactive
    BY <1>1, <1>5 DEF Return, LocalInv, Local, Fits
  <2> QED
    BY <1>5, <2>1 DEF Return, StopInv, Inactive
<1>6. CASE Crash
  BY <1>6 DEF Crash, StopInv, Inactive
<1>7. CASE CancelRun
  BY <1>1, <1>7 DEF CancelRun, StopInv, Terminal
<1>8. ASSUME NEW m \in Node, Elapse(m) PROVE StopInv'
  <2>1. \A n \in Node : node'[n].state = node[n].state
    BY <1>1, <1>8 DEF Elapse, Base, TypeOK
  <2> QED
    BY <1>8, <2>1 DEF Elapse, StopInv, Known, Terminal, driver
<1>9. ASSUME NEW c \in Child, CreateRow(c) PROVE StopInv'
  BY <1>9 DEF CreateRow, StopInv, Known, Terminal, driver
<1>10. ASSUME NEW c \in Child, AddNode(c) PROVE StopInv'
  <2>1. /\ exec[Parent[c]] \in {"run", "exit"} /\ c \notin Known
        /\ UNCHANGED <<active, run, err, ctx>>
    BY <1>1, <1>10 DEF AddNode, CallsInv
  <2>2. run # "down" /\ Parent[c] \in Node /\ c \in Node
    BY <1>1, <2>1 DEF RunInv, Base, GraphAssumption, Child
  <2>3. \A n \in Node : node'[n] = node[n] \/ n = c
    BY <1>1, <1>10 DEF AddNode, Base, TypeOK
  <2>4. CASE node' = node
    BY <1>1, <2>1, <2>4 DEF StopInv, Known, Terminal
  <2>5. CASE Acting(Parent[c]) /\ ~err
    <3>1. Parent[c] \in Known /\ ~Terminal(Parent[c])
      BY <1>1, <2>1, <2>5, Caller DEF Acting
    <3>2. ~active[c].canceled
      BY <2>1, <2>2, <2>5 DEF StopInv, Known, Terminal, Final
    <3> QED
      BY <1>1, <2>1, <2>2, <2>3, <2>5, <3>1, <3>2 DEF StopInv, Known, Terminal
  <2> QED
    BY <1>10, <2>4, <2>5 DEF AddNode
<1> QED
  BY <1>2, <1>3, <1>4, <1>5, <1>6, <1>7, <1>8, <1>9, <1>10, Next_cases DEF Outer

\* At any time.
LEMMA Stop_always == Spec => []StopInv
<1>1. Init => StopInv
  BY DEF Init, StopInv, Inactive
<1>2. ASSUME StopInv, UNCHANGED vars PROVE StopInv'
  BY <1>2 DEF StopInv, Known, Terminal, vars, driver
<1>3. StopInv /\ FaultInv /\ Inv /\ [Next]_vars => StopInv'
  BY <1>2, Stop_next, GraphAssumption
<1> QED
  BY <1>1, <1>3, Invariant, Fault_always, PTL DEF Spec

\* The same seen from a failed prerequisite: it fails its dependents and nothing else.
\* Tasks that withdraw no call of their own never have one canceled at the wrong moment:
\* an attempt is told to stop with its action closed, when Wait commits nothing.
THEOREM FailureIsLocal ==
  ASSUME \A n \in Node : Cardinality(Prereq[n]) <= 1
  PROVE  Spec => []FailedPrerequisiteIsLocal
<1> DEFINE Sane == Joins /\ faults = 0 => ~err
<1>1. Init => Sane
  BY DEF Init
<1>2. ASSUME Inv, FaultInv, StopInv, GivesUpWait, faults = 0, ~err, Joins PROVE FALSE
  <2>1. PICK c \in Child : Dead(Parent[c]) /\ Acting(Parent[c])
    BY <1>2 DEF GivesUpWait, Withdrawn
  <2>2. Base /\ RunInv /\ Parent[c] \in Node
    BY <1>2, Inv_parts, GraphAssumption DEF Base, Inv, GraphAssumption, Child
  <2>3. exec[Parent[c]] \in {"run", "exit"}
    BY <2>1, <2>2 DEF Acting, Base, LocalInv, Local, Fits
  <2>4. run # "down" /\ Parent[c] \in Known
    BY <2>1, <2>2, <2>3, Caller DEF RunInv, Acting
  <2> QED
    BY <1>2, <2>1, <2>2, <2>4 DEF Dead, Acting, StopInv
<1>3. ASSUME Sane, Inv, FaultInv, StopInv, Next,
             [~err /\ err' => faults' > 0 \/ GivesUpWait]_vars
      PROVE  Sane'
  <2>1. faults \in Nat /\ (faults' = faults \/ faults' = faults + 1)
    BY <1>3, Claim_kept DEF Inv, TypeOK
  <2>2. SUFFICES ASSUME Joins, faults' = 0, err' PROVE FALSE
    OBVIOUS
  <2>3. faults = 0 /\ ~err
    BY <1>3, <2>1, <2>2
  <2>4. GivesUpWait
    <3>1. err' # err
      BY <2>2, <2>3
    <3>2. vars' # vars
      BY <3>1 DEF vars, driver
    <3> QED
      BY <1>3, <2>2, <2>3, <3>2
  <2> QED
    BY <1>2, <1>3, <2>2, <2>3, <2>4
<1>4. ASSUME Sane, UNCHANGED vars PROVE Sane'
  BY <1>4 DEF vars, driver
<1>5. Sane /\ Inv /\ FaultInv /\ StopInv /\ [Next]_vars
        /\ [~err /\ err' => faults' > 0 \/ GivesUpWait]_vars => Sane'
  BY <1>3, <1>4
<1>6. Sane => FailedPrerequisiteIsLocal
  BY DEF FailedPrerequisiteIsLocal
<1> HIDE DEF Sane
<1> QED
  BY <1>1, <1>5, <1>6, Invariant, Fault_always, Stop_always, OnlyFaultsPoison, PTL DEF Spec, NeverPoisoned

-----------------------------------------------------------------------------
(* The rows keep the promises of RunLedger                                 *)

\* What a reader of the ledger sees of a row.
Entry(r) == [state |-> r.state, attempt |-> r.attempt, failures |-> r.failures]
KeepsRow(n) == Entry(stored'[n]) = Entry(stored[n]) \/ Ledger!Step(n)

\* A row, as an entry of the ledger.
LEMMA Entries ==
  ASSUME NEW r \in RowRecord
  PROVE  /\ Entry(r) \in Ledger!Row
         /\ Entry(r).state = r.state /\ Entry(r).attempt = r.attempt
         /\ Entry(r).failures = r.failures
BY DEF Entry, Ledger!Row, Ledger!OpenStates, Ledger!FinalStates, RowRecord, Rows, Final

\* A row that moves or ends without anything being counted.
LEMMA Plain_keeps ==
  ASSUME NEW n \in Node, stored[n] \in RowRecord, stored'[n] \in RowRecord,
         stored[n].state \notin Final \cup {"absent"}, stored'[n].state # "absent",
         stored'[n].attempt = stored[n].attempt, stored'[n].failures = stored[n].failures
  PROVE  KeepsRow(n)
<1> DEFINE r == Entry(stored[n])
           s == Entry(stored'[n])
<1>1. r.state \in Ledger!OpenStates /\ s.state \in Ledger!OpenStates \cup Ledger!FinalStates
  BY Entries DEF RowRecord, Rows, Final, Ledger!OpenStates, Ledger!FinalStates
<1>2. s = [r EXCEPT !.state = s.state]
  BY DEF Entry
<1>3. Ledger!Moves(r, s) \/ Ledger!Ends(r, s)
  BY <1>1, <1>2 DEF Ledger!Moves, Ledger!Ends
<1> QED
  BY <1>3 DEF KeepsRow, Ledger!Step, Entry

\* Every lawful write is a step of the ledger.
LEMMA Lawful_keeps ==
  ASSUME TypeOK, Writing, NEW n \in Node, NEW t \in NodeRecord, Lawful(n, t),
         stored[n] = RowOf(node[n]), stored'[n] = RowOf(t)
  PROVE  KeepsRow(n)
<1> DEFINE r == Entry(stored[n])
           s == Entry(stored'[n])
<1>1. /\ node[n] \in NodeRecord /\ stored[n] \in RowRecord /\ stored'[n] \in RowRecord
      /\ node[n].state \notin Final \cup {"absent"} /\ t.state # "absent"
  BY DEF TypeOK, NodeRecord, RowRecord, Writing, Lawful, Terminal, Known
<1>2. /\ r.state = Status(node[n].state) /\ r.attempt = node[n].attempt
      /\ r.failures = node[n].failures
      /\ s.state = Status(t.state) /\ s.attempt = t.attempt /\ s.failures = t.failures
  BY <1>1, Entries, RowOf_type
<1>3. CASE t = [node[n] EXCEPT !.state = t.state]
  <2>1. t.attempt = node[n].attempt /\ t.failures = node[n].failures
    BY <1>1, <1>3 DEF NodeRecord
  <2>2. stored[n].state \notin Final \cup {"absent"} /\ stored'[n].state # "absent"
    BY <1>1, RowOf_type DEF Status, NodeRecord, States, Final
  <2> QED
    BY <1>1, <2>1, <2>2, RowOf_type, Plain_keeps
<1>4. CASE /\ node[n].state = "ready" /\ t.state = "running"
           /\ t.attempt = node[n].attempt + 1 /\ t.failures = node[n].failures
  <2>1. r.state = "queued" /\ s.state = "running"
    BY <1>2, <1>4 DEF Status
  <2>2. s = [r EXCEPT !.state = "running", !.attempt = r.attempt + 1]
    BY <1>2, <1>4, <2>1 DEF Entry
  <2>3. Ledger!Begins(r, s)
    BY <2>1, <2>2 DEF Ledger!Begins
  <2> QED
    BY <2>3 DEF KeepsRow, Ledger!Step, Entry
<1>5. CASE /\ node[n].state \in {"running", "children"} /\ t.attempt = node[n].attempt
           /\ t.failures = node[n].failures + 1
           /\ \/ t.state = "failed"
              \/ t.state = "pending" /\ node[n].failures + 1 < MaxAttempts[n]
  <2>1. r.state \in {"running", "waiting"}
    BY <1>2, <1>5 DEF Status
  <2>2. CASE t.state = "failed"
    <3>1. s.state = "failed"
      BY <1>2, <2>2 DEF Status
    <3>2. s = [r EXCEPT !.state = "failed", !.failures = r.failures + 1]
      BY <1>2, <1>5, <3>1 DEF Entry
    <3>3. Ledger!Ends(r, s)
      BY <2>1, <3>1, <3>2 DEF Ledger!Ends, Ledger!OpenStates, Ledger!FinalStates
    <3> QED
      BY <3>3 DEF KeepsRow, Ledger!Step, Entry
  <2>3. CASE t.state = "pending" /\ node[n].failures + 1 < MaxAttempts[n]
    <3>1. s.state = "queued"
      BY <1>2, <2>3 DEF Status
    <3>2. s = [r EXCEPT !.state = "queued", !.failures = r.failures + 1]
      BY <1>2, <1>5, <3>1 DEF Entry
    <3>3. Ledger!Retries(r, s, MaxAttempts[n])
      BY <1>2, <2>1, <2>3, <3>2 DEF Ledger!Retries
    <3> QED
      BY <3>3 DEF KeepsRow, Ledger!Step, Entry
  <2> QED
    BY <1>5, <2>2, <2>3
<1> QED
  BY <1>3, <1>4, <1>5 DEF Lawful

\* The row of a child appears when its caller, which runs, creates it.
LEMMA CreateRow_keeps ==
  ASSUME Base, GraphInv, NEW c \in Child, CreateRow(c) PROVE \A n \in Node : KeepsRow(n)
<1>1. c \in Node /\ c # Root /\ Parent[c] \in Node
  BY DEF Base, GraphAssumption, Child
<1>2. /\ exec[Parent[c]] = "run" /\ stored[Parent[c]].attempt = node[Parent[c]].attempt
      /\ stored' = IF stored[c].state # "absent" THEN stored
                   ELSE [stored EXCEPT ![c].state = "queued"]
  BY DEF CreateRow, MayCall
<1>3. CASE stored[c].state # "absent"
  BY <1>2, <1>3 DEF KeepsRow
<1>4. CASE stored[c].state = "absent"
  <2>1. \A n \in Node : stored[n] \in RowRecord
    BY DEF Base, TypeOK, RowRecord
  <2>2. /\ stored'[c].state = "queued" /\ stored'[c].attempt = 0 /\ stored'[c].failures = 0
        /\ stored[c].attempt = 0 /\ stored[c].failures = 0
        /\ \A n \in Node \ {c} : stored'[n] = stored[n]
    BY <1>1, <1>2, <1>4, <2>1 DEF Base, TypeOK, GraphInv, RowInv, RowRecord
  <2>3. stored[Parent[c]].attempt > 0
    BY <1>1, <1>2 DEF Base, LocalInv, Local, Fits
  <2>4. /\ Entry(stored[c]) = Ledger!NoRow /\ Entry(stored'[c]) = Ledger!NewRow
        /\ Entry(stored[Parent[c]]).attempt > 0
    BY <1>4, <2>2, <2>3 DEF Entry, Ledger!NoRow, Ledger!NewRow
  <2>5. Ledger!Appears(c)
    BY <1>1, <2>4 DEF Ledger!Appears, Entry
  <2> QED
    BY <2>2, <2>5 DEF KeepsRow, Ledger!Step
<1> QED
  BY <1>3, <1>4

\* The steps around a driven run keep the promises of the ledger.
LEMMA Outer_keeps ==
  ASSUME Base, GraphInv, Outer, stored' \in [Node -> RowRecord] PROVE \A n \in Node : KeepsRow(n)
<1>1. \A n \in Node : stored[n] \in RowRecord /\ stored'[n] \in RowRecord
  BY DEF Base, TypeOK, RowRecord
<1>2. ASSUME Claim, NEW n \in Node PROVE KeepsRow(n)
  <2>1. stored'[n] = Reset(stored[n])
    BY <1>2 DEF Claim
  <2>2. CASE stored[n].state \in Final \cup {"absent"}
    BY <1>1, <2>1, <2>2, Restored DEF KeepsRow
  <2>3. CASE stored[n].state \notin Final \cup {"absent"}
    BY <1>1, <2>1, <2>3, Restored, Plain_keeps
  <2> QED
    BY <2>2, <2>3
<1>3. ASSUME Return \/ Crash \/ \E c \in Child : AddNode(c), NEW n \in Node PROVE KeepsRow(n)
  BY <1>3 DEF Return, Crash, AddNode, KeepsRow
<1>4. ASSUME CancelRun, NEW n \in Node PROVE KeepsRow(n)
  <2>1. stored'[n] = IF stored[n].state \in Final \cup {"absent"} THEN stored[n]
                     ELSE [stored[n] EXCEPT !.state = "canceled"]
    BY <1>4 DEF CancelRun
  <2>2. CASE stored[n].state \in Final \cup {"absent"}
    BY <2>1, <2>2 DEF KeepsRow
  <2>3. CASE stored[n].state \notin Final \cup {"absent"}
    <3>1. /\ stored'[n].state = "canceled" /\ stored'[n].attempt = stored[n].attempt
          /\ stored'[n].failures = stored[n].failures
      BY <1>1, <2>1, <2>3 DEF RowRecord
    <3> QED
      BY <1>1, <2>3, <3>1, Plain_keeps
  <2> QED
    BY <2>2, <2>3
<1>5. ASSUME NEW m \in Node, Elapse(m), NEW n \in Node PROVE KeepsRow(n)
  <2>1. /\ stored'[n].state = stored[n].state /\ stored'[n].attempt = stored[n].attempt
        /\ stored'[n].failures = stored[n].failures
    BY <1>5 DEF Elapse, Base, TypeOK
  <2> QED
    BY <2>1 DEF KeepsRow, Entry
<1> QED
  BY <1>2, <1>3, <1>4, <1>5, CreateRow_keeps DEF Outer

\* Whatever a step writes, it is a step of the ledger for every row.
LEMMA Next_keeps ==
  ASSUME GraphAssumption, Inv, Inv', Next PROVE \A n \in Node : KeepsRow(n)
<1>1. Base /\ CallsInv /\ GraphInv /\ RunInv /\ stored' \in [Node -> RowRecord]
  BY Inv_parts, Parts_next DEF Base, Inv
<1>2. CASE Outer
  BY <1>1, <1>2, Outer_keeps
<1>3. ASSUME Inner, NEW n \in Node PROVE KeepsRow(n)
  <2>1. Writing /\ TypeOK /\ CommittedIsVisible
    BY <1>1, <1>3, Inner_good DEF Good, Base, GraphInv
  <2>2. stored'[n] # stored[n] => /\ stored[n] = RowOf(node[n])
                                  /\ \E s \in NodeRecord : Lawful(n, s) /\ stored'[n] = RowOf(s)
    BY <2>1, Written_keeps DEF Writing
  <2> QED
    BY <2>1, <2>2, Lawful_keeps DEF KeepsRow
<1> QED
  BY <1>2, <1>3, Next_cases

\* The executors of a run, one after the other, write its rows as RunLedger promises:
\* attempts start one at a time and from a queued row, failures stay within the budget,
\* and a final row is never touched again (TransitionRunTaskAction, ResetRunActions,
\* CreateTaskAction, CancelRun).
THEOREM Implements == Spec => KeepsLedger
<1>1. Init => Ledger!Init
  <2>1. LET r == [Absent EXCEPT !.state = "queued"]
        IN r.state = "queued" /\ r.attempt = 0 /\ r.failures = 0
    BY DEF Absent
  <2> QED
    BY <2>1 DEF Init, Ledger!Init, Absent, Ledger!NewRow, Ledger!NoRow
<1>2. Inv /\ Inv' /\ [Next]_vars =>
        [Ledger!Next]_([n \in Node |-> [state |-> stored[n].state, attempt |-> stored[n].attempt,
                                        failures |-> stored[n].failures]])
  <2>1. ASSUME Inv, Inv', Next PROVE Ledger!Next
    <3>1. \A n \in Node : KeepsRow(n)
      BY <2>1, Next_keeps, GraphAssumption
    <3>2. \A n \in Node : Entry(stored'[n]) \in Ledger!Row
      BY <2>1, Parts_next, Entries
    <3> QED
      BY <3>1, <3>2 DEF Ledger!Next, KeepsRow, Entry
  <2>2. ASSUME UNCHANGED vars PROVE UNCHANGED stored
    BY <2>2 DEF vars
  <2> QED
    BY <2>1, <2>2
<1> QED
  BY <1>1, <1>2, Invariant, PTL DEF Spec, KeepsLedger, Ledger!Spec
=============================================================================
