---------------------------- MODULE Registry_proof ----------------------------
(***************************************************************************)
(* What is registered can be run and a key has one run, for any clients,   *)
(* environments, keys and number of faults; and the blob store keeps its   *)
(* promise under them.                                                     *)
(***************************************************************************)
EXTENDS Registry, BlobStore_proof

-----------------------------------------------------------------------------
(* The inductive invariant *)

\* What a registered environment needs is there, and whoever registers or runs
\* one has seen it.
UsableInv ==
  /\ \A e \in envs : Uploaded(e) /\ Deps[e] \subseteq envs
  /\ acked \subseteq envs
  /\ \A c \in Caller : op[c].kind = "register" => Uploaded(op[c].env)
  /\ \A c \in Caller : op[c].kind = "run" => op[c].what.env \in envs
  /\ \A x \in Run : runs[x] # Idle => runs[x].env \in envs

\* A call that inserted its run has the key and the id for itself, and one that is
\* past the commit has a run of its invocation.
CallInv ==
  \A c \in Caller : op[c].kind = "run" =>
    /\ op[c].pc = "root" => /\ op[c].run \in Run /\ runs[op[c].run] = Idle
                            /\ Existing(op[c].what.key) = {}
    /\ op[c].pc = "read" => op[c].run \in Run /\ runs[op[c].run] = op[c].what

AloneInv ==
  \A b, c \in Caller :
    /\ op[b].kind = "run" /\ op[b].pc = "root" /\ op[c].kind = "run" /\ op[c].pc = "root"
    /\ op[b].what.key = op[c].what.key \/ op[b].run = op[c].run
    => b = c

RInv == IInv /\ RegistryTypeOK /\ UsableInv /\ CallInv /\ AloneInv /\ OneRunPerKey

-----------------------------------------------------------------------------
(* Lemmas *)

\* A run id that is not used is told apart from any run.
LEMMA NotIdle == \A w \in Invocation : w # Idle
  BY DEF Invocation, Idle

\* What a call's record becomes when it has a run.
Has(c, p, x) == [kind |-> "run", what |-> op[c].what, pc |-> p, run |-> x]

\* The record of a call of CreateRun.
LEMMA Records ==
  ASSUME NEW c \in Caller, op[c] \in Creating
  PROVE  /\ op[c] = Has(c, op[c].pc, op[c].run) /\ op[c].kind = "run"
         /\ op[c].what \in Invocation /\ op[c].run \in Run \cup {None}
         /\ \A p \in {"insert", "root", "read"}, x \in Run \cup {None} : Has(c, p, x) \in Creating
         /\ [op[c] EXCEPT !.pc = "read"] = Has(c, "read", op[c].run)
<1> HIDE DEF Invocation
<1>1. op[c] = Has(c, op[c].pc, op[c].run) /\ op[c].kind = "run"
  BY DEF Creating, Has
<1>2. op[c].what \in Invocation /\ op[c].run \in Run \cup {None}
  BY DEF Creating
<1>3. \A p \in {"insert", "root", "read"}, x \in Run \cup {None} : Has(c, p, x) \in Creating
  BY <1>2 DEF Creating, Has
<1>4. [op[c] EXCEPT !.pc = "read"] = Has(c, "read", op[c].run)
  BY <1>1 DEF Has
<1> QED
  BY <1>1, <1>2, <1>3, <1>4

\* InsertRun refuses the invocation, finds its run, or has the key to itself.
LEMMA Inserts ==
  ASSUME RegistryTypeOK, NEW c \in Caller, InsertRun(c)
  PROVE  /\ op[c] \in Creating /\ op[c].kind = "run"
         /\ \/ op' = [op EXCEPT ![c] = Idle]
            \/ \E x \in Run : runs[x] = op[c].what /\ op' = [op EXCEPT ![c] = Has(c, "read", x)]
            \/ /\ Existing(op[c].what.key) = {} /\ Opening(op[c].what.key) = {}
               /\ \E x \in Fresh : op' = [op EXCEPT ![c] = Has(c, "root", x)]
<1>1. op[c] \in Creating /\ op[c].kind = "run"
  <2>1. op[c].kind = "run" /\ op[c] \in {Idle} \cup Registering \cup Creating
    BY DEF InsertRun, RegistryTypeOK
  <2> QED
    BY <2>1 DEF Registering, Idle
<1>2. ASSUME NEW p, NEW x PROVE [op[c] EXCEPT !.pc = p, !.run = x] = Has(c, p, x)
  <2>1. op[c] = [kind |-> "run", what |-> op[c].what, pc |-> op[c].pc, run |-> op[c].run]
    BY <1>1, Records DEF Has
  <2> DEFINE r == [op[c] EXCEPT !.pc = p]
  <2>2. r = [kind |-> "run", what |-> op[c].what, pc |-> p, run |-> op[c].run]
    BY <2>1
  <2> HIDE DEF r
  <2>3. [r EXCEPT !.run = x] = Has(c, p, x)
    BY <2>2 DEF Has
  <2> QED
    BY <2>3 DEF r
<1>3. ASSUME NEW x \in Existing(op[c].what.key),
             op' = [op EXCEPT ![c] = IF SameInvocation(x, op[c].what)
                                     THEN [op[c] EXCEPT !.pc = "read", !.run = x] ELSE Idle]
      PROVE  \/ op' = [op EXCEPT ![c] = Idle]
             \/ \E y \in Run : runs[y] = op[c].what /\ op' = [op EXCEPT ![c] = Has(c, "read", y)]
  <2>1. [op[c] EXCEPT !.pc = "read", !.run = x] = Has(c, "read", x)
    BY <1>2
  <2>2. CASE SameInvocation(x, op[c].what)
    BY <1>3, <2>1, <2>2 DEF SameInvocation, Existing
  <2>3. CASE ~SameInvocation(x, op[c].what)
    BY <1>3, <2>3
  <2> QED
    BY <2>2, <2>3
<1>4. ASSUME NEW x, op' = [op EXCEPT ![c].pc = "root", ![c].run = x]
      PROVE  op' = [op EXCEPT ![c] = Has(c, "root", x)]
  <2>1. op' = [op EXCEPT ![c] = [op[c] EXCEPT !.pc = "root", !.run = x]]
    BY <1>4 DEF RegistryTypeOK
  <2> QED
    BY <1>2, <2>1
<1>5. \/ \E x \in Existing(op[c].what.key) :
           op' = [op EXCEPT ![c] = IF SameInvocation(x, op[c].what)
                                   THEN [op[c] EXCEPT !.pc = "read", !.run = x] ELSE Idle]
      \/ /\ Existing(op[c].what.key) = {} /\ Opening(op[c].what.key) = {}
         /\ \E x \in Fresh : op' = [op EXCEPT ![c].pc = "root", ![c].run = x]
  BY DEF InsertRun
<1> QED
  BY <1>1, <1>3, <1>4, <1>5

\* A published digest stays published, and the blob store's invariant is kept
\* also by a call that fails.
LEMMA Blobs ==
  ASSUME IInv, [DeployNext]_allVars
  PROVE  IInv' /\ \A d \in Digest : blobs[d] # None => blobs'[d] # None
<1>1. CASE [Next]_vars
  <2>1. IInv'
    BY <1>1, Types, Published_inv, Id_inv, Tx_inv, Index_inv, Told_inv DEF IInv
  <2>2. ASSUME NEW d \in Digest, blobs[d] # None PROVE blobs'[d] # None
    <3>1. Contents[d] # None
      BY <2>2 DEF Contents, Stored, IInv, PublishedInv, Good, None
    <3>2. Contents'[d] # None
      BY <1>1, <3>1, Effects DEF Silent, Tells, Publishes, Contents, Abstract!Content, None
    <3> QED
      BY <3>2 DEF Contents, Stored
  <2> QED
    BY <2>1, <2>2
<1>2. ASSUME NEW c \in Caller, CallFails(c)
      PROVE  IInv' /\ blobs' = blobs
  BY <1>2, BlobAssumption DEF CallFails, Fault, store, ids, IInv, TypeOK, PublishedInv,
     IdInv, TxInv, IndexInv, ToldInv, Good
<1>3. ASSUME NEW c \in Caller, Call(c), ~CallFails(c) PROVE UNCHANGED vars
  BY <1>3 DEF Call, LookUp, InsertEnvironment, Confirm, CreateRun, InsertRun, InsertRootAction,
              ReadRun
<1> QED
  BY <1>1, <1>2, <1>3 DEF DeployNext, allVars

\* Every step keeps the types of the variables of the registration.
LEMMA CallTypes ==
  ASSUME RInv, [DeployNext]_allVars PROVE RegistryTypeOK'
<1> USE RegistryAssumption DEF RInv, RegistryTypeOK
<1> DEFINE Calls == {Idle} \cup Registering \cup Creating
<1>1. CASE UNCHANGED registry
  BY <1>1 DEF registry
<1>2. ASSUME NEW c \in Caller, NEW e \in Env, LookUp(c, e) PROVE RegistryTypeOK'
  BY <1>2 DEF LookUp, Registering
<1>3. ASSUME NEW c \in Caller, InsertEnvironment(c) PROVE RegistryTypeOK'
  BY <1>3 DEF InsertEnvironment, Ends, Idle, Registering, Creating
<1>4. ASSUME NEW c \in Caller, Confirm(c) PROVE RegistryTypeOK'
  BY <1>4 DEF Confirm, Ends, Idle, Registering, Creating
<1>5. ASSUME NEW c \in Caller, NEW w \in Invocation, CreateRun(c, w) PROVE RegistryTypeOK'
  BY <1>5 DEF CreateRun, Creating
<1>6. ASSUME NEW c \in Caller, InsertRun(c) PROVE RegistryTypeOK'
  <2>1. op[c] \in Creating /\ UNCHANGED <<envs, runs, acked, answers>>
    BY <1>6, Inserts DEF InsertRun
  <2>2. \E r \in Calls : op' = [op EXCEPT ![c] = r]
    BY <1>6, <2>1, Inserts, Records DEF Fresh
  <2> QED
    BY <2>1, <2>2
<1>7. ASSUME NEW c \in Caller, InsertRootAction(c) PROVE RegistryTypeOK'
  <2>1. op[c] \in Creating /\ UNCHANGED <<envs, acked, answers>>
    BY <1>7 DEF InsertRootAction, Idle, Registering, Creating
  <2>2. op' = [op EXCEPT ![c] = [op[c] EXCEPT !.pc = "read"]]
    BY <1>7 DEF InsertRootAction
  <2>3. op' = [op EXCEPT ![c] = Has(c, "read", op[c].run)]
    BY <2>1, <2>2, Records
  <2>4. Has(c, "read", op[c].run) \in Creating
    BY <2>1, Records
  <2>5. runs' \in [Run -> Invocation \cup {Idle}]
    BY <1>7, <2>1, Records DEF InsertRootAction
  <2> QED
    BY <2>1, <2>3, <2>4, <2>5
<1>8. ASSUME NEW c \in Caller, ReadRun(c) PROVE RegistryTypeOK'
  <2>1. op[c] \in Creating /\ UNCHANGED <<envs, acked, runs>>
    BY <1>8 DEF ReadRun, Idle, Registering, Creating
  <2>2. op[c].what \in Invocation /\ op[c].run \in Run
    BY <1>8, <2>1, Records DEF ReadRun, CallInv
  <2>3. answers' \subseteq [what : Invocation, run : Run]
    BY <1>8, <2>2 DEF ReadRun
  <2>4. op' \in [Caller -> {Idle} \cup Registering \cup Creating]
    BY <1>8 DEF ReadRun, Ends
  <2> QED
    BY <2>1, <2>3, <2>4
<1>9. ASSUME NEW c \in Caller, CallFails(c) PROVE RegistryTypeOK'
  BY <1>9 DEF CallFails, Ends, Idle, Registering, Creating
<1> QED
  BY <1>1, <1>2, <1>3, <1>4, <1>5, <1>6, <1>7, <1>8, <1>9 DEF DeployNext, Call, allVars

\* Blobs and environments stay, and who registers one has seen what it needs.
LEMMA Usable_inv ==
  ASSUME RInv, [DeployNext]_allVars PROVE UsableInv'
<1> USE RegistryAssumption, NotIdle DEF RInv, RegistryTypeOK, UsableInv, Uploaded, Invocation, Registering, Creating, Idle
<1>1. CASE UNCHANGED registry
  BY <1>1, Blobs DEF registry
<1>2. ASSUME NEW c \in Caller, NEW e \in Env, LookUp(c, e) PROVE UsableInv'
  BY <1>2, Blobs DEF LookUp, vars
<1>3. ASSUME NEW c \in Caller, InsertEnvironment(c) PROVE UsableInv'
  BY <1>3, Blobs DEF InsertEnvironment, Blocked, Ends, vars
<1>4. ASSUME NEW c \in Caller, Confirm(c) PROVE UsableInv'
  BY <1>4, Blobs DEF Confirm, Ends, vars
<1>5. ASSUME NEW c \in Caller, NEW w \in Invocation, CreateRun(c, w) PROVE UsableInv'
  BY <1>5, Blobs DEF CreateRun, vars
<1>6. ASSUME NEW c \in Caller, InsertRun(c) PROVE UsableInv'
  <2>1. op[c] \in Creating /\ op[c].kind = "run" /\ UNCHANGED <<blobs, envs, runs, acked, answers>>
    BY <1>6, Inserts DEF InsertRun, vars
  <2>2. CASE op' = [op EXCEPT ![c] = Idle]
    BY <2>1, <2>2
  <2>3. ASSUME NEW x \in Run, runs[x] = op[c].what, op' = [op EXCEPT ![c] = Has(c, "read", x)]
        PROVE  UsableInv'
    BY <2>1, <2>3 DEF Has
  <2>4. ASSUME Existing(op[c].what.key) = {}, Opening(op[c].what.key) = {},
               NEW x \in Fresh, op' = [op EXCEPT ![c] = Has(c, "root", x)]
        PROVE  UsableInv'
    BY <2>1, <2>4 DEF Has, Fresh, Opening
  <2> HIDE DEF RegistryTypeOK, UsableInv
  <2> QED
    BY <1>6, Inserts, <2>2, <2>3, <2>4
<1>7. ASSUME NEW c \in Caller, InsertRootAction(c) PROVE UsableInv'
  BY <1>7, Blobs DEF InsertRootAction, vars
<1>8. ASSUME NEW c \in Caller, ReadRun(c) PROVE UsableInv'
  BY <1>8, Blobs DEF ReadRun, Ends, vars
<1>9. ASSUME NEW c \in Caller, CallFails(c) PROVE UsableInv'
  BY <1>9, Blobs DEF CallFails, Ends, vars
<1> QED
  BY <1>1, <1>2, <1>3, <1>4, <1>5, <1>6, <1>7, <1>8, <1>9 DEF DeployNext, Call, allVars

\* Nobody else uses the key or the id of a call that has inserted its run.
LEMMA Call_inv ==
  ASSUME RInv, [DeployNext]_allVars PROVE CallInv'
<1> USE RegistryAssumption, NotIdle DEF RInv, RegistryTypeOK, CallInv, AloneInv, Existing, Registering, Creating, Idle
<1>1. CASE UNCHANGED registry
  BY <1>1 DEF registry
<1>2. ASSUME NEW c \in Caller, NEW e \in Env, LookUp(c, e) PROVE CallInv'
  BY <1>2 DEF LookUp, vars
<1>3. ASSUME NEW c \in Caller, InsertEnvironment(c) PROVE CallInv'
  BY <1>3 DEF InsertEnvironment, Blocked, Ends, vars
<1>4. ASSUME NEW c \in Caller, Confirm(c) PROVE CallInv'
  BY <1>4 DEF Confirm, Ends, vars
<1>5. ASSUME NEW c \in Caller, NEW w \in Invocation, CreateRun(c, w) PROVE CallInv'
  BY <1>5 DEF CreateRun, vars
<1>6. ASSUME NEW c \in Caller, InsertRun(c) PROVE CallInv'
  <2>1. op[c] \in Creating /\ op[c].kind = "run" /\ UNCHANGED <<blobs, envs, runs, acked, answers>>
    BY <1>6, Inserts DEF InsertRun, vars
  <2>2. CASE op' = [op EXCEPT ![c] = Idle]
    BY <2>1, <2>2
  <2>3. ASSUME NEW x \in Run, runs[x] = op[c].what, op' = [op EXCEPT ![c] = Has(c, "read", x)]
        PROVE  CallInv'
    BY <2>1, <2>3 DEF Has
  <2>4. ASSUME Existing(op[c].what.key) = {}, Opening(op[c].what.key) = {},
               NEW x \in Fresh, op' = [op EXCEPT ![c] = Has(c, "root", x)]
        PROVE  CallInv'
    BY <2>1, <2>4 DEF Has, Fresh, Opening
  <2> HIDE DEF RegistryTypeOK, CallInv
  <2> QED
    BY <1>6, Inserts, <2>2, <2>3, <2>4
<1>7. ASSUME NEW c \in Caller, InsertRootAction(c) PROVE CallInv'
  BY <1>7 DEF InsertRootAction, vars
<1>8. ASSUME NEW c \in Caller, ReadRun(c) PROVE CallInv'
  BY <1>8 DEF ReadRun, Ends, vars
<1>9. ASSUME NEW c \in Caller, CallFails(c) PROVE CallInv'
  BY <1>9 DEF CallFails, Ends, vars
<1> QED
  BY <1>1, <1>2, <1>3, <1>4, <1>5, <1>6, <1>7, <1>8, <1>9 DEF DeployNext, Call, allVars

\* The unique index on the key, and fresh ids.
LEMMA Alone_inv ==
  ASSUME RInv, [DeployNext]_allVars PROVE AloneInv'
<1> USE RegistryAssumption, NotIdle DEF RInv, RegistryTypeOK, AloneInv, Registering, Creating, Idle
<1>1. CASE UNCHANGED registry
  BY <1>1 DEF registry
<1>2. ASSUME NEW c \in Caller, NEW e \in Env, LookUp(c, e) PROVE AloneInv'
  BY <1>2 DEF LookUp, vars
<1>3. ASSUME NEW c \in Caller, InsertEnvironment(c) PROVE AloneInv'
  BY <1>3 DEF InsertEnvironment, Blocked, Ends, vars
<1>4. ASSUME NEW c \in Caller, Confirm(c) PROVE AloneInv'
  BY <1>4 DEF Confirm, Ends, vars
<1>5. ASSUME NEW c \in Caller, NEW w \in Invocation, CreateRun(c, w) PROVE AloneInv'
  BY <1>5 DEF CreateRun, vars
<1>6. ASSUME NEW c \in Caller, InsertRun(c) PROVE AloneInv'
  <2>1. op[c] \in Creating /\ op[c].kind = "run" /\ UNCHANGED <<blobs, envs, runs, acked, answers>>
    BY <1>6, Inserts DEF InsertRun, vars
  <2>2. CASE op' = [op EXCEPT ![c] = Idle]
    BY <2>1, <2>2
  <2>3. ASSUME NEW x \in Run, runs[x] = op[c].what, op' = [op EXCEPT ![c] = Has(c, "read", x)]
        PROVE  AloneInv'
    BY <2>1, <2>3 DEF Has
  <2>4. ASSUME Existing(op[c].what.key) = {}, Opening(op[c].what.key) = {},
               NEW x \in Fresh, op' = [op EXCEPT ![c] = Has(c, "root", x)]
        PROVE  AloneInv'
    BY <2>1, <2>4 DEF Has, Fresh, Opening
  <2> HIDE DEF RegistryTypeOK, AloneInv
  <2> QED
    BY <1>6, Inserts, <2>2, <2>3, <2>4
<1>7. ASSUME NEW c \in Caller, InsertRootAction(c) PROVE AloneInv'
  BY <1>7 DEF InsertRootAction, vars
<1>8. ASSUME NEW c \in Caller, ReadRun(c) PROVE AloneInv'
  BY <1>8 DEF ReadRun, Ends, vars
<1>9. ASSUME NEW c \in Caller, CallFails(c) PROVE AloneInv'
  BY <1>9 DEF CallFails, Ends, vars
<1> QED
  BY <1>1, <1>2, <1>3, <1>4, <1>5, <1>6, <1>7, <1>8, <1>9 DEF DeployNext, Call, allVars

\* A run is only opened for a key without one.
LEMMA One_inv ==
  ASSUME RInv, [DeployNext]_allVars PROVE OneRunPerKey'
<1> USE RegistryAssumption, NotIdle DEF RInv, RegistryTypeOK, CallInv, OneRunPerKey, Existing, Registering, Creating, Idle
<1>1. CASE UNCHANGED registry
  BY <1>1 DEF registry
<1>2. ASSUME NEW c \in Caller, NEW e \in Env, LookUp(c, e) PROVE OneRunPerKey'
  BY <1>2 DEF LookUp, vars
<1>3. ASSUME NEW c \in Caller, InsertEnvironment(c) PROVE OneRunPerKey'
  BY <1>3 DEF InsertEnvironment, Blocked, Ends, vars
<1>4. ASSUME NEW c \in Caller, Confirm(c) PROVE OneRunPerKey'
  BY <1>4 DEF Confirm, Ends, vars
<1>5. ASSUME NEW c \in Caller, NEW w \in Invocation, CreateRun(c, w) PROVE OneRunPerKey'
  BY <1>5 DEF CreateRun, vars
<1>6. ASSUME NEW c \in Caller, InsertRun(c) PROVE OneRunPerKey'
  BY <1>6 DEF InsertRun, Opening, Existing, Fresh, SameInvocation, vars
<1>7. ASSUME NEW c \in Caller, InsertRootAction(c) PROVE OneRunPerKey'
  BY <1>7 DEF InsertRootAction, vars
<1>8. ASSUME NEW c \in Caller, ReadRun(c) PROVE OneRunPerKey'
  BY <1>8 DEF ReadRun, Ends, vars
<1>9. ASSUME NEW c \in Caller, CallFails(c) PROVE OneRunPerKey'
  BY <1>9 DEF CallFails, Ends, vars
<1> QED
  BY <1>1, <1>2, <1>3, <1>4, <1>5, <1>6, <1>7, <1>8, <1>9 DEF DeployNext, Call, allVars

-----------------------------------------------------------------------------
(* Theorems *)

\* The inductive invariant of registration and of the opening of runs, with that of
\* the blob store. (RegisterEnvironment, CreateRun)
THEOREM DeployInductive == DeploySpec => []RInv
<1>1. DeployInit => RInv
  <2>1. Init => IInv
    BY BlobAssumption DEF Init, IInv, TypeOK, PublishedInv, IdInv, TxInv, IndexInv, ToldInv, Good,
                          None, Bytes
  <2> QED
    BY <2>1 DEF DeployInit, RegistryInit, RInv, RegistryTypeOK, UsableInv, CallInv, AloneInv,
                OneRunPerKey, Idle
<1>2. ASSUME RInv, [DeployNext]_allVars PROVE RInv'
  BY <1>2, Blobs, CallTypes, Usable_inv, Call_inv, Alone_inv, One_inv DEF RInv
<1> QED
  BY <1>1, <1>2, PTL DEF DeploySpec

\* What was registered or confirmed has its sources and dependencies in place, for
\* any environments, clients and faults. (RegisterEnvironment, lookupTask)
THEOREM DeployUsable == DeploySpec => []RegisteredIsUsable
<1>1. RInv => RegisteredIsUsable
  BY DEF RInv, UsableInv, RegisteredIsUsable, Usable
<1> QED
  BY <1>1, DeployInductive, PTL

\* A key has one run, whoever repeats a call and however often. (CreateRun)
THEOREM DeployOneRun == DeploySpec => []OneRunPerKey
<1>1. RInv => OneRunPerKey
  BY DEF RInv
<1> QED
  BY <1>1, DeployInductive, PTL

\* The blob store still implements the content store with the clients that register
\* and run what was uploaded. (internal/blob, RegisterEnvironment, CreateRun)
THEOREM DeployKeeps == DeploySpec => KeepsContent
<1>1. DeployInit => Abstract!Init
  BY DEF DeployInit, Init, Abstract!Init, Stored, None, Abstract!None
<1>2. ASSUME RInv, [DeployNext]_allVars PROVE [Abstract!Next]_<<Contents, told>>
  <2>1. CASE [Next]_vars
    BY <1>2, <2>1, Implements DEF RInv
  <2>2. CASE UNCHANGED <<blobs, object, told>>
    BY <2>2 DEF Contents, Stored
  <2>3. ASSUME NEW c \in Caller, Call(c) PROVE UNCHANGED <<blobs, object, told>>
    BY <2>3 DEF Call, LookUp, InsertEnvironment, Confirm, CreateRun, InsertRun, InsertRootAction,
                ReadRun, CallFails, vars, store
  <2> QED
    BY <1>2, <2>1, <2>2, <2>3 DEF DeployNext, allVars
<1> QED
  BY <1>1, <1>2, DeployInductive, PTL DEF DeploySpec, KeepsContent, Abstract!Spec, Contents
=============================================================================
