------------------------------ MODULE TaskCache ------------------------------
(***************************************************************************)
(* The result cache of tasks: internal/lutra/task_cache.go over one row of *)
(* lutra.task_cache, as execute (internal/graphexec/executor.go) uses it   *)
(* for the actions, of any runs on any workers, that share one cache key.  *)
(*                                                                         *)
(* The first to claim the key computes, under a lease; the others poll.    *)
(* Every statement is a transaction and a step of its own. An action draws *)
(* a new owner token each time it is dispatched.                           *)
(***************************************************************************)
EXTENDS Naturals

CONSTANTS
  Caller,       \* the actions with this CacheKey
  MaxAttempts,  \* their ActionSpec.max_attempts
  MaxFaults     \* bound: failed statements, late renewals, stops and crashes

ASSUME CacheAssumption == MaxAttempts \in Nat \ {0} /\ MaxFaults \in Nat

VARIABLES
  entry,     \* the row of lutra.task_cache
  pc,        \* where execute stands with an action
  turn,      \* how often the action was dispatched
  failures,  \* Node.Failures
  result,    \* what the action's cache or task returned
  closed,    \* actions whose node was canceled (closeLocked)
  renewing,  \* the owners whose renewal goroutine runs
  leaving,   \* the owners whose deferred Store has not run
  strays,    \* the owners whose task still runs when the run has a new owner
  asking,    \* the owners whose lookup still polls then
  unreleased, \* the owners whose deferred release failed
  faults

old == <<strays, asking>>
vars == <<entry, pc, turn, failures, result, closed, renewing, leaving, old, unreleased, faults>>

-----------------------------------------------------------------------------
(* State formulae. An operator whose name ends in Bug is a wrong variant of *)
(* the one that follows it, used only to try whether a property notices.   *)

Token == Caller \X Nat
me(c) == <<c, turn[c]>>

\* A cached result is an output or a failure that will recur (CacheableError);
\* who computed it stands for its content.
Value == [by : Token, kind : {"output", "error"}]
None == [kind |-> "none"]
Failed == [kind |-> "failed"]
ValuesBy(o) == [by : {o}, kind : {"output", "error"}]

NoEntry == [status |-> "none"]
Building == [status : {"building"}, owner : Token, live : BOOLEAN]
Ready == [status : {"ready"}, value : Value]
Claim(o) == [status |-> "building", owner |-> o, live |-> TRUE]
Polling == {"get", "insert", "expire"}

TypeOK ==
  /\ entry \in {NoEntry} \cup Building \cup Ready
  /\ pc \in [Caller -> Polling \cup {"queued", "work", "stored", "over"}]
  /\ turn \in [Caller -> Nat] /\ failures \in [Caller -> 0..MaxAttempts]
  /\ result \in [Caller -> Value \cup {None, Failed}]
  /\ closed \subseteq Caller
  /\ renewing \subseteq Token /\ leaving \subseteq Token /\ unreleased \subseteq Token
  /\ strays \subseteq Token /\ asking \subseteq Token
  /\ faults \in 0..MaxFaults

Init ==
  /\ entry = NoEntry
  /\ pc = [c \in Caller |-> "queued"] /\ turn = [c \in Caller |-> 0]
  /\ failures = [c \in Caller |-> 0] /\ result = [c \in Caller |-> None]
  /\ closed = {} /\ faults = 0
  /\ renewing = {} /\ leaving = {} /\ strays = {} /\ asking = {}
  /\ unreleased = {}

Goto(c, l) == pc' = [pc EXCEPT ![c] = l]
Returns(c, v) == result' = [result EXCEPT ![c] = v]
Fault == faults < MaxFaults /\ faults' = faults + 1

BuiltBy(o) == entry.status = "building" /\ entry.owner = o

HoldsBug(o) == entry.status # "none"

\* FinishTaskCache and RenewTaskCache: the claim is this owner's and in force.
Holds(o) == BuiltBy(o) /\ entry.live

ExpiredBug == FALSE

\* The claim is not in force any more.
Expired == entry.status = "building" /\ ~entry.live

ReleasedAnyBug(o) == IF entry.status = "building" THEN NoEntry ELSE entry

ReleasedReadyBug(o) ==
  IF BuiltBy(o) \/ (entry.status = "ready" /\ entry.value.by = o) THEN NoEntry ELSE entry

\* ReleaseTaskCache: the owner's claim is deleted, a result never.
Released(o) == IF BuiltBy(o) THEN NoEntry ELSE entry

-----------------------------------------------------------------------------
(* Lookup *)

Dispatch(c) ==
  /\ pc[c] = "queued" /\ c \notin closed
  /\ turn' = [turn EXCEPT ![c] = @ + 1] /\ Returns(c, None) /\ Goto(c, "get")
  /\ UNCHANGED <<entry, failures, closed, renewing, leaving, faults, old, unreleased>>

\* GetTaskCache; a live claim of another is polled every 100 ms. A hit ends the
\* action with the value, unless it was canceled meanwhile.
Get(c) ==
  /\ pc[c] = "get"
  /\ \/ entry.status = "none" /\ Goto(c, "insert") /\ UNCHANGED result
     \/ Expired /\ Goto(c, "expire") /\ UNCHANGED result
     \/ /\ entry.status = "ready" /\ Goto(c, "over")
        /\ IF c \in closed THEN UNCHANGED result ELSE Returns(c, entry.value)
  /\ UNCHANGED <<entry, turn, failures, closed, renewing, leaving, faults, old, unreleased>>

\* ClaimTaskCache inserts the row if there is none; the renewal starts with it.
\* A canceled action gives the claim back at once.
Insert(c) ==
  /\ pc[c] = "insert"
  /\ IF entry.status = "none"
     THEN /\ entry' = Claim(me(c))
          /\ renewing' = renewing \cup {me(c)}
          /\ IF c \in closed THEN Goto(c, "over") /\ leaving' = leaving \cup {me(c)}
                             ELSE Goto(c, "work") /\ UNCHANGED leaving
     ELSE Goto(c, "get") /\ UNCHANGED <<entry, renewing, leaving>>
  /\ UNCHANGED <<turn, failures, result, closed, faults, old, unreleased>>

\* ExpireTaskCache deletes whatever claim has expired by now.
Expire(c) ==
  /\ pc[c] = "expire" /\ Goto(c, "get")
  /\ entry' = IF Expired THEN NoEntry ELSE entry
  /\ UNCHANGED <<turn, failures, result, closed, renewing, leaving, faults, old, unreleased>>

\* A failed statement, which may have taken effect, ends the lookup, and with it
\* the action, without a retry. A claim made this way is neither renewed nor
\* given up.
LookupFails(c) ==
  /\ pc[c] \in Polling /\ Fault /\ Goto(c, "over")
  /\ Returns(c, IF c \in closed THEN None ELSE Failed)
  /\ \/ UNCHANGED entry
     \/ pc[c] = "insert" /\ entry.status = "none" /\ entry' = Claim(me(c))
     \/ pc[c] = "expire" /\ Expired /\ entry' = NoEntry
  /\ UNCHANGED <<turn, failures, closed, renewing, leaving, old, unreleased>>

-----------------------------------------------------------------------------
(* The owner of the claim computes *)

ImageFailsBug(c) ==
  /\ pc[c] = "work" /\ c \notin closed /\ Goto(c, "over") /\ Returns(c, Failed)
  /\ UNCHANGED <<entry, turn, failures, closed, renewing, leaving, faults, old, unreleased>>

\* The image cannot be built: the action fails before it ran.
ImageFails(c) ==
  /\ pc[c] = "work" /\ c \notin closed /\ Goto(c, "over") /\ Returns(c, Failed)
  /\ leaving' = leaving \cup {me(c)}
  /\ UNCHANGED <<entry, turn, failures, closed, renewing, faults, old, unreleased>>

\* The task returns a result: Store publishes it, unless the claim was lost.
Publish(c, kind) ==
  LET value == [by |-> me(c), kind |-> kind]
      ready == [status |-> "ready", value |-> value]
  IN /\ pc[c] = "work" /\ Goto(c, "stored")
     /\ \/ Holds(me(c)) /\ entry' = ready /\ Returns(c, value) /\ UNCHANGED faults
        \/ ~Holds(me(c)) /\ Returns(c, Failed) /\ UNCHANGED <<entry, faults>>
        \/ /\ Fault /\ Returns(c, Failed)
           /\ entry' \in {entry} \cup IF Holds(me(c)) THEN {ready} ELSE {}
     /\ UNCHANGED <<turn, failures, closed, renewing, leaving, old, unreleased>>

\* The task fails in a way that may not recur: Store gives the claim up.
GiveUp(c) ==
  /\ pc[c] = "work" /\ Goto(c, "stored") /\ Returns(c, Failed)
  /\ \/ entry' = Released(me(c)) /\ UNCHANGED faults
     \/ Fault /\ entry' \in {entry, Released(me(c))}
  /\ UNCHANGED <<turn, failures, closed, renewing, leaving, old, unreleased>>

MayRetry(c) == failures[c] + 1 < MaxAttempts

\* execute books the result, and returns: the deferred Store is still to come
\* when a retry is already dispatched.
Commit(c) ==
  /\ pc[c] = "stored" /\ leaving' = leaving \cup {me(c)}
  /\ IF c \in closed
     THEN Goto(c, "over") /\ Returns(c, None) /\ UNCHANGED failures
     ELSE /\ UNCHANGED result
          /\ Goto(c, IF result[c] = Failed /\ MayRetry(c) THEN "queued" ELSE "over")
          /\ IF result[c].kind = "output"
             THEN UNCHANGED failures
             ELSE failures' = [failures EXCEPT ![c] = @ + 1]
  /\ UNCHANGED <<entry, turn, closed, renewing, faults, old, unreleased>>

\* The deferred Store(context.Canceled) of execute, and the end of its claim.
Leave(o) ==
  /\ o \in leaving /\ leaving' = leaving \ {o}
  /\ \/ entry' = Released(o) /\ UNCHANGED <<unreleased, faults>>
     \/ Fault /\ unreleased' = unreleased \cup {o} /\ UNCHANGED entry
  /\ UNCHANGED <<pc, turn, failures, result, closed, renewing, old>>

-----------------------------------------------------------------------------
(* Renewal, and what happens to the worker *)

\* The next owner of the run finds the action as it was committed last.
Redispatched(c) ==
  /\ Goto(c, IF c \in closed THEN "over" ELSE "queued") /\ Returns(c, None)
  /\ UNCHANGED <<entry, turn, failures, closed>>

\* A renewal changed no row, or failed; nothing tells the task.
RenewalEnds(o) ==
  /\ o \in renewing /\ renewing' = renewing \ {o}
  /\ \/ ~Holds(o) /\ UNCHANGED faults
     \/ Fault
  /\ UNCHANGED <<entry, pc, turn, failures, result, closed, leaving, old, unreleased>>

\* now() passes lease_until: nobody renews the claim, or somebody too late.
Lapse ==
  /\ entry.status = "building" /\ entry.live
  /\ entry' = [entry EXCEPT !.live = FALSE]
  /\ \/ entry.owner \notin renewing /\ UNCHANGED faults
     \/ Fault
  /\ UNCHANGED <<pc, turn, failures, result, closed, renewing, leaving, old, unreleased>>

\* The action is canceled (closeLocked). A lookup goes on; a task is killed.
Close(c) ==
  /\ pc[c] # "over" /\ c \notin closed /\ Fault
  /\ closed' = closed \cup {c}
  /\ IF pc[c] = "queued" THEN Goto(c, "over") ELSE UNCHANGED pc
  /\ UNCHANGED <<entry, turn, failures, result, renewing, leaving, old, unreleased>>
Killed(c) ==
  /\ pc[c] = "work" /\ c \in closed
  /\ Goto(c, "over") /\ leaving' = leaving \cup {me(c)}
  /\ UNCHANGED <<entry, turn, failures, result, closed, renewing, faults, old, unreleased>>

\* The run's executor stops: the next owner of the run dispatches the action
\* again. Its renewal ends with the context, its claim with the deferred Store.
Stop(c) ==
  /\ pc[c] \in Polling \cup {"work", "stored"} /\ Fault
  /\ leaving' = IF pc[c] \in Polling THEN leaving ELSE leaving \cup {me(c)}
  /\ renewing' = renewing \ {me(c)}
  /\ Redispatched(c) /\ UNCHANGED <<old, unreleased>>

\* The worker dies: nobody gives the claim up.
Crash(c) ==
  /\ pc[c] \in Polling \cup {"work", "stored"} /\ Fault
  /\ renewing' = renewing \ {me(c)}
  /\ Redispatched(c) /\ UNCHANGED <<leaving, old, unreleased>>

\* The run is taken over while its old owner, which does not know, goes on with
\* the task, or with asking for the claim.
TakenOver(c) ==
  /\ pc[c] \in Polling \cup {"work"} /\ Fault
  /\ IF pc[c] = "work" THEN strays' = strays \cup {me(c)} /\ UNCHANGED asking
                       ELSE asking' = asking \cup {me(c)} /\ UNCHANGED strays
  /\ Redispatched(c) /\ UNCHANGED <<renewing, leaving, unreleased>>

\* Such a lookup may expire a claim, and make one: execute cannot commit anything
\* any more, and its deferred Store gives the claim up.
StrayAsks(o) ==
  /\ o \in asking
  /\ \/ /\ entry.status = "none" /\ entry' = Claim(o)
        /\ asking' = asking \ {o}
        /\ renewing' = renewing \cup {o} /\ leaving' = leaving \cup {o}
     \/ Expired /\ entry' = NoEntry /\ UNCHANGED <<asking, renewing, leaving>>
  /\ UNCHANGED <<pc, turn, failures, result, closed, strays, unreleased, faults>>

\* Such a task ends, publishes what it has or not, and books nothing.
StrayEnds(o) ==
  /\ o \in strays /\ strays' = strays \ {o}
  /\ renewing' = renewing \ {o} /\ leaving' = leaving \cup {o}
  /\ \/ UNCHANGED entry
     \/ Holds(o) /\ entry' \in {[status |-> "ready", value |-> v] : v \in ValuesBy(o)}
  /\ UNCHANGED <<pc, turn, failures, result, closed, asking, unreleased, faults>>

-----------------------------------------------------------------------------

Action(c) ==
  \/ Dispatch(c) \/ Get(c) \/ Insert(c) \/ Expire(c) \/ LookupFails(c)
  \/ ImageFails(c) \/ GiveUp(c) \/ Commit(c) \/ Close(c) \/ Killed(c)
  \/ Stop(c) \/ Crash(c) \/ TakenOver(c)
  \/ \E kind \in {"output", "error"} : Publish(c, kind)

Next ==
  \/ \E c \in Caller : Action(c)
  \/ \E o \in leaving : Leave(o)
  \/ \E o \in strays : StrayEnds(o)
  \/ \E o \in asking : StrayAsks(o)
  \/ \E o \in renewing : RenewalEnds(o)
  \/ Lapse

Spec == Init /\ [][Next]_vars

\* Lookups poll, tasks answer, statements return, and time passes.
Fairness ==
  /\ \A c \in Caller :
       /\ WF_vars(Dispatch(c)) /\ WF_vars(Get(c)) /\ WF_vars(Insert(c)) /\ WF_vars(Expire(c))
       /\ WF_vars(GiveUp(c) \/ \E kind \in {"output", "error"} : Publish(c, kind))
       /\ WF_vars(Commit(c))
  /\ WF_vars(\E o \in leaving : Leave(o)) /\ WF_vars(\E o \in strays : StrayEnds(o))
  /\ WF_vars(Lapse /\ UNCHANGED faults)
FairSpec == Spec /\ Fairness

-----------------------------------------------------------------------------
(* Properties *)

\* All actions that ended with a result, computed or found, have the same one:
\* a task that lost its claim and goes on computing does not end its action.
OneResult ==
  \A c \in Caller : pc[c] = "over" /\ result[c] \in Value =>
    entry = [status |-> "ready", value |-> result[c]]

\* A published result is never replaced or deleted, by whatever old owner
\* publishes late, gives up late or cleans up.
ResultsStay == [][entry.status = "ready" => entry' = entry]_vars

\* Without a fault nobody computes while another does.
OneComputes ==
  faults = 0 => \A c, d \in Caller : pc[c] = "work" /\ pc[d] = "work" => c = d

\* A claim that is in force and renewed is being computed or given up: no owner
\* has forgotten it while its renewal keeps everybody else out, unless its
\* release failed.
ClaimsAreUsed ==
  \A c \in Caller : \A o \in renewing \ unreleased :
    Holds(o) /\ o[1] = c =>
      o \in leaving \cup strays \/ (o = me(c) /\ pc[c] \in {"work", "stored"})

\* Every action that asks the cache ends, whoever crashed holding the claim,
\* unless a release failed: its owner may renew the claim for ever.
EverybodyEnds == \A c \in Caller : <>(pc[c] = "over" \/ unreleased # {})
=============================================================================
