----------------------------- MODULE RunLedger ------------------------------
(***************************************************************************)
(* What the rows of one run in lutra.task_actions promise to their readers *)
(* (the API, the next owner of the run), whoever writes them: an action    *)
(* moves between its open states, starts attempts one at a time, is        *)
(* charged for failures within its budget, and never leaves a final state. *)
(* GraphExec and RunLease are shown to implement this specification.       *)
(***************************************************************************)
EXTENDS Naturals

CONSTANTS
  Action,       \* the actions a run may consist of
  Root,         \* its root action
  Parent,       \* the caller of every other action
  MaxAttempts   \* ActionSpec.max_attempts

VARIABLE ledger

OpenStates == {"queued", "running", "waiting"}
FinalStates == {"done", "failed", "canceled"}
Row == [state : OpenStates \cup FinalStates \cup {"absent"}, attempt : Nat, failures : Nat]
NoRow == [state |-> "absent", attempt |-> 0, failures |-> 0]
NewRow == [state |-> "queued", attempt |-> 0, failures |-> 0]

Init == ledger = [n \in Action |-> IF n = Root THEN NewRow ELSE NoRow]

-----------------------------------------------------------------------------
(* What a committed transaction may do to one row, r before and s after.   *)

\* An action is queued, runs, waits or is queued again; nothing is counted.
Moves(r, s) ==
  r.state \in OpenStates /\ s.state \in OpenStates /\ s = [r EXCEPT !.state = s.state]

\* The next attempt starts: only a queued action, and with the next number.
Begins(r, s) ==
  r.state = "queued" /\ s = [r EXCEPT !.state = "running", !.attempt = r.attempt + 1]

\* An attempt failed, and another one is left.
Retries(r, s, max) ==
  /\ r.state \in {"running", "waiting"} /\ r.failures + 1 < max
  /\ s = [r EXCEPT !.state = "queued", !.failures = r.failures + 1]

\* The action ends; only the failure of an attempt is counted.
Ends(r, s) ==
  /\ r.state \in OpenStates /\ s.state \in FinalStates
  /\ \/ s = [r EXCEPT !.state = s.state]
     \/ /\ r.state \in {"running", "waiting"} /\ s.state = "failed"
        /\ s = [r EXCEPT !.state = "failed", !.failures = r.failures + 1]

\* A task that runs or ran creates the row of a child.
Appears(n) ==
  /\ n # Root /\ ledger[n] = NoRow /\ ledger'[n] = NewRow
  /\ ledger[Parent[n]].attempt > 0

Step(n) ==
  LET r == ledger[n]
      s == ledger'[n]
  IN Appears(n) \/ Moves(r, s) \/ Begins(r, s) \/ Retries(r, s, MaxAttempts[n]) \/ Ends(r, s)

\* One transaction may move many rows (a reset, a cancellation).
Next ==
  /\ ledger' \in [Action -> Row]
  /\ \A n \in Action : ledger'[n] = ledger[n] \/ Step(n)

Spec == Init /\ [][Next]_ledger

=============================================================================
