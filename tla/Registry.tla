------------------------------ MODULE Registry ------------------------------
(***************************************************************************)
(* From uploaded sources to a run: RegisterEnvironment (environments.go)   *)
(* and CreateRun (runs.go) of internal/lutra on top of the blob store. An  *)
(* environment stands for a name and version; its version is a hash of all *)
(* that is declared, so that equal versions have equal sources and         *)
(* dependencies. Malformed declarations are refused before any statement.  *)
(*                                                                         *)
(* Rows of environments, blobs and runs are only ever added. A transaction *)
(* sees what is committed when a statement starts, and an insert waits for *)
(* an uncommitted one of the same unique key.                              *)
(***************************************************************************)
EXTENDS BlobStore

CONSTANTS
  Env,      \* environments
  Sources,  \* the digests of an environment's source and build context
  Deps,     \* EnvironmentSpec.dependencies
  Key,      \* idempotency keys
  Input,    \* an entrypoint with an action spec
  Run,      \* run ids
  Caller    \* clients, each with one call at a time

ASSUME RegistryAssumption ==
  Sources \in [Env -> SUBSET Digest] /\ Deps \in [Env -> SUBSET Env]

VARIABLES
  envs,     \* lutra.task_environments
  runs,     \* lutra.runs with the root action
  op,       \* the call each client has under way
  acked,    \* environments whose registration was confirmed
  answers   \* what CreateRun answered to whom

registry == <<envs, runs, op, acked, answers>>
allVars == <<vars, registry>>

-----------------------------------------------------------------------------
Idle == [kind |-> "idle"]
Invocation == [key : Key, env : Env, input : Input]
Registering == [kind : {"register"}, env : Env, pc : {"insert", "deps"}]
Creating == [kind : {"run"}, what : Invocation, pc : {"insert", "root", "read"},
             run : Run \cup {None}]

RegistryTypeOK ==
  /\ envs \subseteq Env /\ acked \subseteq Env
  /\ runs \in [Run -> Invocation \cup {Idle}]
  /\ op \in [Caller -> {Idle} \cup Registering \cup Creating]
  /\ answers \subseteq [what : Invocation, run : Run]

RegistryInit ==
  /\ envs = {} /\ acked = {} /\ answers = {}
  /\ runs = [x \in Run |-> Idle] /\ op = [c \in Caller |-> Idle]

Ends(c) == op' = [op EXCEPT ![c] = Idle]
Uploaded(e) == \A d \in Sources[e] : blobs[d] # None

-----------------------------------------------------------------------------
(* RegisterEnvironment *)

\* GetEnvironment and the blobs of the sources. A repetition is confirmed at once.
LookUp(c, e) ==
  /\ op[c] = Idle
  /\ IF e \in envs
     THEN acked' = acked \cup {e} /\ UNCHANGED op
     ELSE /\ Uploaded(e)
          /\ op' = [op EXCEPT ![c] = [kind |-> "register", env |-> e, pc |-> "insert"]]
          /\ UNCHANGED acked
  /\ UNCHANGED <<vars, envs, runs, answers>>

Inserting(e) == {c \in Caller : op[c].kind = "register" /\ op[c].env = e /\ op[c].pc = "deps"}

\* InsertEnvironment. Who finds the row of another does not look at dependencies.
BlockedBug(e) == FALSE
Blocked(e) == Inserting(e) # {}

InsertEnvironment(c) ==
  /\ op[c].kind = "register" /\ op[c].pc = "insert" /\ ~Blocked(op[c].env)
  /\ IF op[c].env \in envs \/ Inserting(op[c].env) # {}
     THEN acked' = acked \cup {op[c].env} /\ Ends(c)
     ELSE op' = [op EXCEPT ![c].pc = "deps"] /\ UNCHANGED acked
  /\ UNCHANGED <<vars, envs, runs, answers>>

\* lookupEnvironment of each dependency; the transaction is committed, or rolled
\* back because one is missing.
Confirm(c) ==
  /\ op[c].kind = "register" /\ op[c].pc = "deps"
  /\ IF Deps[op[c].env] \subseteq envs
     THEN envs' = envs \cup {op[c].env} /\ acked' = acked \cup {op[c].env}
     ELSE UNCHANGED <<envs, acked>>
  /\ Ends(c)
  /\ UNCHANGED <<vars, runs, answers>>

-----------------------------------------------------------------------------
(* CreateRun *)

\* lookupTask: only of a registered environment.
CreateRun(c, w) ==
  /\ op[c] = Idle /\ w.env \in envs
  /\ op' = [op EXCEPT ![c] = [kind |-> "run", what |-> w, pc |-> "insert", run |-> None]]
  /\ UNCHANGED <<vars, envs, runs, acked, answers>>

Opening(k) == {c \in Caller : op[c].kind = "run" /\ op[c].what.key = k /\ op[c].pc = "root"}
Existing(k) == {x \in Run : runs[x] # Idle /\ runs[x].key = k}
Fresh == {x \in Run : runs[x] = Idle /\ \A c \in Caller : op[c].kind = "run" => op[c].run # x}

\* The key is taken: the same invocation gets the run, another is refused.
SameInvocationBug(x, w) == TRUE
SameInvocation(x, w) == runs[x] = w

InsertRun(c) ==
  LET w == op[c].what
  IN /\ op[c].kind = "run" /\ op[c].pc = "insert" /\ Opening(w.key) = {}
     /\ \/ \E x \in Existing(w.key) :
             op' = [op EXCEPT ![c] = IF SameInvocation(x, w)
                                     THEN [@ EXCEPT !.pc = "read", !.run = x] ELSE Idle]
        \/ /\ Existing(w.key) = {}
           /\ \E x \in Fresh : op' = [op EXCEPT ![c].pc = "root", ![c].run = x]
     /\ UNCHANGED <<vars, envs, runs, acked, answers>>

\* The root action, its place in the run, the status event and the commit.
InsertRootAction(c) ==
  /\ op[c].kind = "run" /\ op[c].pc = "root"
  /\ runs' = [runs EXCEPT ![op[c].run] = op[c].what]
  /\ op' = [op EXCEPT ![c].pc = "read"]
  /\ UNCHANGED <<vars, envs, acked, answers>>

ReadRun(c) ==
  /\ op[c].kind = "run" /\ op[c].pc = "read"
  /\ answers' = answers \cup {[what |-> op[c].what, run |-> op[c].run]}
  /\ Ends(c)
  /\ UNCHANGED <<vars, envs, runs, acked>>

\* A call fails or its answer is lost: its transaction, if not committed, is
\* rolled back, and the client may call again. The commit of a registration may
\* have been made.
CallFails(c) ==
  /\ op[c] # Idle /\ Fault /\ Ends(c)
  /\ \/ UNCHANGED envs
     \/ /\ op[c].kind = "register" /\ op[c].pc = "deps" /\ Deps[op[c].env] \subseteq envs
        /\ envs' = envs \cup {op[c].env}
  /\ UNCHANGED <<blobs, store, session, ids, tx, told, runs, acked, answers>>

-----------------------------------------------------------------------------
DeployInit == Init /\ RegistryInit

Call(c) ==
  \/ \E e \in Env : LookUp(c, e)
  \/ InsertEnvironment(c) \/ Confirm(c)
  \/ \E w \in Invocation : CreateRun(c, w)
  \/ InsertRun(c) \/ InsertRootAction(c) \/ ReadRun(c) \/ CallFails(c)

DeployNext == (Next /\ UNCHANGED registry) \/ \E c \in Caller : Call(c)

DeploySpec == DeployInit /\ [][DeployNext]_allVars

DeployFairSpec ==
  /\ DeploySpec
  /\ \A i \in Id : /\ WF_vars(Handler(i)) /\ WF_vars(Expire(i))
                   /\ SF_vars(Sweep(i))

-----------------------------------------------------------------------------
(* Properties *)

\* What was confirmed can be run: a confirmed or committed environment has its
\* sources in the store and its dependencies, and theirs, registered; so has the
\* environment of every run. (RegisterEnvironment, lookupTask)
Usable(e) == e \in envs /\ Uploaded(e) /\ Deps[e] \subseteq envs
RegisteredIsUsable ==
  /\ \A e \in envs \cup acked : Usable(e)
  /\ \A x \in Run : runs[x] # Idle => Usable(runs[x].env)

\* However often a call is repeated, after lost answers and beside one another, a
\* key has one run, everyone who was given a run for it asked for the same
\* invocation, and the run is one of that invocation. (CreateRun)
OneRunPerKey ==
  /\ \A x, y \in Run : runs[x] # Idle /\ runs[y] # Idle /\ runs[x].key = runs[y].key => x = y
  /\ \A a \in answers : runs[a.run] = a.what
=============================================================================
