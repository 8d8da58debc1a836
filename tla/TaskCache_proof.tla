--------------------------- MODULE TaskCache_proof --------------------------
(***************************************************************************)
(* Proofs about TaskCache, for any number of actions that share the key,   *)
(* any retry budget and any number of faults.                              *)
(***************************************************************************)
EXTENDS TaskCache, TLAPS

\* An action that has not ended may fail once more.
BudgetInv == \A c \in Caller : pc[c] # "over" => failures[c] < MaxAttempts

\* Every result an action has is the one in the table.
AgreedInv ==
  \A c \in Caller : result[c] \in Value => entry = [status |-> "ready", value |-> result[c]]

\* Tokens are not used twice: that of a lookup is new, that of a task belongs to
\* no earlier dispatch.
FreshInv ==
  /\ \A o \in renewing \cup leaving \cup strays \cup asking : o[2] <= turn[o[1]]
  /\ \A c \in Caller : pc[c] \in Polling => me(c) \notin renewing
  /\ \A c \in Caller : pc[c] \in Polling \cup {"work", "stored"} => me(c) \notin leaving \cup strays \cup asking

\* Without a fault the claim of a task stays in force until the task returns.
InForceInv ==
  faults = 0 => \A c \in Caller : pc[c] = "work" => me(c) \in renewing /\ Holds(me(c))

IInv == TypeOK /\ BudgetInv /\ AgreedInv /\ FreshInv /\ InForceInv /\ ClaimsAreUsed

-----------------------------------------------------------------------------
(* The row and the tokens *)

\* The row is in one of three states, and a claim differs from both others.
LEMMA Rows ==
  ASSUME entry \in {NoEntry} \cup Building \cup Ready
  PROVE  /\ entry.status \in {"none", "building", "ready"}
         /\ entry.status = "none" => entry = NoEntry
         /\ entry.status = "building" => entry \in Building /\ [entry EXCEPT !.live = FALSE] \in Building
         /\ entry.status = "ready" => /\ entry \in Ready /\ entry.value \in Value
                                     /\ entry = [status |-> "ready", value |-> entry.value]
<1>1. CASE entry = NoEntry
  BY <1>1 DEF NoEntry
<1>2. CASE entry \in Building
  BY <1>2 DEF Building
<1>3. CASE entry \in Ready
  BY <1>3 DEF Ready
<1>4. QED BY <1>1, <1>2, <1>3

\* A token names its action and dispatch.
LEMMA Tokens ==
  ASSUME NEW c \in Caller, turn \in [Caller -> Nat]
  PROVE  /\ me(c) \in Token /\ me(c)[1] = c /\ me(c)[2] = turn[c]
         /\ \A d \in Caller : me(c) = me(d) => c = d
         /\ Claim(me(c)) \in Building
BY DEF me, Token, Claim, Building

\* The rows that can be written are rows, and neither kind of failure is a result.
LEMMA Written ==
  /\ NoEntry.status = "none" /\ None \notin Value /\ Failed \notin Value
  /\ \A o \in Token, l \in BOOLEAN : [status |-> "building", owner |-> o, live |-> l] \in Building
  /\ \A o \in Token, k \in {"output", "error"} : [by |-> o, kind |-> k] \in Value
  /\ \A o \in Token : ValuesBy(o) \subseteq Value
  /\ \A v \in Value : [status |-> "ready", value |-> v] \in Ready
<1>1. \A v \in Value : v.kind \in {"output", "error"}
  BY DEF Value
<1>2. None.kind = "none" /\ Failed.kind = "failed"
  BY DEF None, Failed
<1>3. QED BY <1>1, <1>2 DEF Building, Value, ValuesBy, Ready, NoEntry

-----------------------------------------------------------------------------
(* Type correctness and the budget *)

\* An action takes its types along, and its failures stay below the budget while it
\* may be retried.
LEMMA Types ==
  ASSUME CacheAssumption, TypeOK, BudgetInv, [Next]_vars
  PROVE  TypeOK' /\ BudgetInv'
<1> USE DEF old, CacheAssumption, TypeOK, BudgetInv, Goto, Returns, Polling
<1>1. ASSUME NEW c \in Caller, Dispatch(c) PROVE TypeOK' /\ BudgetInv'
  BY <1>1, Rows, Tokens, Written DEF Dispatch
<1>2. ASSUME NEW c \in Caller, Get(c) PROVE TypeOK' /\ BudgetInv'
  <2>1. entry' = entry /\ (result' = result \/ (entry.value \in Value /\ Returns(c, entry.value)))
    BY <1>2, Rows DEF Get
  <2>2. result' \in [Caller -> Value \cup {None, Failed}]
    BY <2>1
  <2>3. QED BY <1>2, <2>1, <2>2 DEF Get
<1>3. ASSUME NEW c \in Caller, Insert(c) PROVE TypeOK' /\ BudgetInv'
  <2>1. entry' = Claim(me(c)) \/ entry' = entry
    BY <1>3 DEF Insert
  <2>2. entry' \in {NoEntry} \cup Building \cup Ready
    BY <2>1, Tokens
  <2>3. QED BY <1>3, <2>2, Tokens DEF Insert
<1>4. ASSUME NEW c \in Caller, Expire(c) PROVE TypeOK' /\ BudgetInv'
  BY <1>4, Rows, Tokens, Written DEF Expire, Expired
<1>5. ASSUME NEW c \in Caller, LookupFails(c) PROVE TypeOK' /\ BudgetInv'
  <2>1. entry' \in {NoEntry} \cup Building \cup Ready
    BY <1>5, Tokens DEF LookupFails
  <2>2. QED BY <1>5, <2>1 DEF LookupFails, Fault
<1>6. ASSUME NEW c \in Caller, ImageFails(c) PROVE TypeOK' /\ BudgetInv'
  BY <1>6, Rows, Tokens, Written DEF ImageFails
<1>7. ASSUME NEW c \in Caller, GiveUp(c) PROVE TypeOK' /\ BudgetInv'
  BY <1>7, Rows, Tokens, Written DEF GiveUp, Fault, Released, BuiltBy
<1>8. ASSUME NEW c \in Caller, Commit(c) PROVE TypeOK' /\ BudgetInv'
  BY <1>8, Rows, Tokens, Written DEF Commit, MayRetry
<1>9. ASSUME NEW c \in Caller, Close(c) PROVE TypeOK' /\ BudgetInv'
  BY <1>9, Rows, Tokens, Written DEF Close, Fault
<1>10. ASSUME NEW c \in Caller, Killed(c) PROVE TypeOK' /\ BudgetInv'
  BY <1>10, Rows, Tokens, Written DEF Killed
<1>11. ASSUME NEW c \in Caller, Stop(c) PROVE TypeOK' /\ BudgetInv'
  BY <1>11, Rows, Tokens, Written DEF Stop, Redispatched, Fault
<1>12. ASSUME NEW c \in Caller, Crash(c) PROVE TypeOK' /\ BudgetInv'
  BY <1>12, Rows, Tokens, Written DEF Crash, Redispatched, Fault
<1>13. ASSUME NEW c \in Caller, TakenOver(c) PROVE TypeOK' /\ BudgetInv'
  BY <1>13, Rows, Tokens, Written DEF TakenOver, Redispatched, Fault
<1>14. ASSUME NEW c \in Caller, NEW kind \in {"output", "error"}, Publish(c, kind)
      PROVE TypeOK' /\ BudgetInv'
  <2>1. [by |-> me(c), kind |-> kind] \in Value
    BY <1>14, Tokens, Written
  <2>2. entry' \in {NoEntry} \cup Building \cup Ready
    BY <1>14, <2>1, Written DEF Publish
  <2>3. result' \in [Caller -> Value \cup {None, Failed}]
    BY <1>14, <2>1 DEF Publish
  <2>4. QED BY <1>14, <2>2, <2>3 DEF Publish, Fault
<1>15. ASSUME NEW o \in leaving, Leave(o) PROVE TypeOK' /\ BudgetInv'
  BY <1>15, Rows, Tokens, Written DEF Leave, Fault, Released, BuiltBy
<1>16. ASSUME NEW o \in strays, StrayEnds(o) PROVE TypeOK' /\ BudgetInv'
  BY <1>16, Rows, Tokens, Written DEF StrayEnds, Holds, BuiltBy
<1>17. ASSUME NEW o \in renewing, RenewalEnds(o) PROVE TypeOK' /\ BudgetInv'
  BY <1>17, Rows, Tokens, Written DEF RenewalEnds, Fault
<1>18. ASSUME NEW o \in asking, StrayAsks(o) PROVE TypeOK' /\ BudgetInv'
  <2>1. entry' = Claim(o) \/ entry' = NoEntry
    BY <1>18 DEF StrayAsks
  <2>2. entry' \in {NoEntry} \cup Building \cup Ready
    BY <2>1, Written DEF Claim
  <2>3. QED BY <1>18, <2>2 DEF StrayAsks
<1>19. ASSUME Lapse PROVE TypeOK' /\ BudgetInv'
  <2>1. entry' \in Building
    BY <1>19, Rows DEF Lapse
  <2>2. QED BY <1>19, <2>1 DEF Lapse, Fault
<1>20. CASE UNCHANGED vars
  BY <1>20 DEF vars, old
<1>21. QED BY <1>1, <1>2, <1>3, <1>4, <1>5, <1>6, <1>7, <1>8, <1>9, <1>10, <1>11, <1>12,
           <1>13, <1>14, <1>15, <1>16, <1>17, <1>18, <1>19, <1>20 DEF Next, Action

\* Publishing needs the claim, so it never changes a result others have.
LEMMA Agreed ==
  ASSUME TypeOK, AgreedInv, [Next]_vars
  PROVE  AgreedInv'
<1> USE DEF old, TypeOK, AgreedInv, Goto, Returns
<1>1. ASSUME NEW c \in Caller, Dispatch(c) PROVE AgreedInv'
  BY <1>1, Rows, Tokens, Written DEF Dispatch
<1>2. ASSUME NEW c \in Caller, Get(c) PROVE AgreedInv'
  <2>1. entry' = entry
    BY <1>2 DEF Get
  <2>2. \/ result' = result
        \/ Returns(c, entry.value) /\ entry = [status |-> "ready", value |-> entry.value]
    BY <1>2, Rows DEF Get
  <2>3. QED BY <2>1, <2>2
<1>3. ASSUME NEW c \in Caller, Insert(c) PROVE AgreedInv'
  BY <1>3, Rows, Tokens, Written DEF Insert, Claim
<1>4. ASSUME NEW c \in Caller, Expire(c) PROVE AgreedInv'
  BY <1>4, Rows, Tokens, Written DEF Expire, Expired
<1>5. ASSUME NEW c \in Caller, LookupFails(c) PROVE AgreedInv'
  BY <1>5, Rows, Tokens, Written DEF LookupFails, Claim, Fault, Expired
<1>6. ASSUME NEW c \in Caller, ImageFails(c) PROVE AgreedInv'
  BY <1>6, Rows, Tokens, Written DEF ImageFails
<1>7. ASSUME NEW c \in Caller, GiveUp(c) PROVE AgreedInv'
  BY <1>7, Rows, Tokens, Written DEF GiveUp, Fault, Released, BuiltBy
<1>8. ASSUME NEW c \in Caller, Commit(c) PROVE AgreedInv'
  BY <1>8, Rows, Tokens, Written DEF Commit, MayRetry
<1>9. ASSUME NEW c \in Caller, Close(c) PROVE AgreedInv'
  BY <1>9, Rows, Tokens, Written DEF Close, Fault
<1>10. ASSUME NEW c \in Caller, Killed(c) PROVE AgreedInv'
  BY <1>10, Rows, Tokens, Written DEF Killed
<1>11. ASSUME NEW c \in Caller, Stop(c) PROVE AgreedInv'
  BY <1>11, Rows, Tokens, Written DEF Stop, Redispatched, Fault
<1>12. ASSUME NEW c \in Caller, Crash(c) PROVE AgreedInv'
  BY <1>12, Rows, Tokens, Written DEF Crash, Redispatched, Fault
<1>13. ASSUME NEW c \in Caller, TakenOver(c) PROVE AgreedInv'
  BY <1>13, Rows, Tokens, Written DEF TakenOver, Redispatched, Fault
<1>14. ASSUME NEW c \in Caller, NEW kind \in {"output", "error"}, Publish(c, kind)
      PROVE AgreedInv'
  BY <1>14, Rows, Tokens, Written DEF Publish, Fault, Holds, BuiltBy
<1>15. ASSUME NEW o \in leaving, Leave(o) PROVE AgreedInv'
  BY <1>15, Rows, Tokens, Written DEF Leave, Fault, Released, BuiltBy
<1>16. ASSUME NEW o \in strays, StrayEnds(o) PROVE AgreedInv'
  BY <1>16, Rows, Tokens, Written DEF StrayEnds, Holds, BuiltBy
<1>17. ASSUME NEW o \in renewing, RenewalEnds(o) PROVE AgreedInv'
  BY <1>17, Rows, Tokens, Written DEF RenewalEnds, Fault
<1>18. ASSUME NEW o \in asking, StrayAsks(o) PROVE AgreedInv'
  BY <1>18, Rows, Tokens, Written DEF StrayAsks, Claim, Expired
<1>19. ASSUME Lapse PROVE AgreedInv'
  BY <1>19, Rows, Tokens, Written DEF Lapse, Fault
<1>20. CASE UNCHANGED vars
  BY <1>20 DEF vars, old
<1>21. QED BY <1>1, <1>2, <1>3, <1>4, <1>5, <1>6, <1>7, <1>8, <1>9, <1>10, <1>11, <1>12,
           <1>13, <1>14, <1>15, <1>16, <1>17, <1>18, <1>19, <1>20 DEF Next, Action

\* Every dispatch draws a token above those in use.
LEMMA Fresh ==
  ASSUME TypeOK, FreshInv, [Next]_vars
  PROVE  FreshInv'
<1> USE DEF old, TypeOK, FreshInv, me, Token, Goto, Returns, Polling
<1>1. ASSUME NEW c \in Caller, Dispatch(c) PROVE FreshInv'
  BY <1>1, Rows, Tokens, Written DEF Dispatch
<1>2. ASSUME NEW c \in Caller, Get(c) PROVE FreshInv'
  BY <1>2, Rows, Tokens, Written DEF Get, Expired
<1>3. ASSUME NEW c \in Caller, Insert(c) PROVE FreshInv'
  BY <1>3, Rows, Tokens, Written DEF Insert, Claim
<1>4. ASSUME NEW c \in Caller, Expire(c) PROVE FreshInv'
  BY <1>4, Rows, Tokens, Written DEF Expire, Expired
<1>5. ASSUME NEW c \in Caller, LookupFails(c) PROVE FreshInv'
  BY <1>5, Rows, Tokens, Written DEF LookupFails, Claim, Fault, Expired
<1>6. ASSUME NEW c \in Caller, ImageFails(c) PROVE FreshInv'
  BY <1>6, Rows, Tokens, Written DEF ImageFails
<1>7. ASSUME NEW c \in Caller, GiveUp(c) PROVE FreshInv'
  BY <1>7, Rows, Tokens, Written DEF GiveUp, Fault, Released, BuiltBy
<1>8. ASSUME NEW c \in Caller, Commit(c) PROVE FreshInv'
  BY <1>8, Rows, Tokens, Written DEF Commit, MayRetry
<1>9. ASSUME NEW c \in Caller, Close(c) PROVE FreshInv'
  BY <1>9, Rows, Tokens, Written DEF Close, Fault
<1>10. ASSUME NEW c \in Caller, Killed(c) PROVE FreshInv'
  BY <1>10, Rows, Tokens, Written DEF Killed
<1>11. ASSUME NEW c \in Caller, Stop(c) PROVE FreshInv'
  BY <1>11, Rows, Tokens, Written DEF Stop, Redispatched, Fault
<1>12. ASSUME NEW c \in Caller, Crash(c) PROVE FreshInv'
  BY <1>12, Rows, Tokens, Written DEF Crash, Redispatched, Fault
<1>13. ASSUME NEW c \in Caller, TakenOver(c) PROVE FreshInv'
  BY <1>13, Rows, Tokens, Written DEF TakenOver, Redispatched, Fault
<1>14. ASSUME NEW c \in Caller, NEW kind \in {"output", "error"}, Publish(c, kind)
      PROVE FreshInv'
  BY <1>14, Rows, Tokens, Written DEF Publish, Fault, Holds, BuiltBy
<1>15. ASSUME NEW o \in leaving, Leave(o) PROVE FreshInv'
  BY <1>15, Rows, Tokens, Written DEF Leave, Fault, Released, BuiltBy
<1>16. ASSUME NEW o \in strays, StrayEnds(o) PROVE FreshInv'
  BY <1>16, Rows, Tokens, Written DEF StrayEnds, Holds, BuiltBy
<1>17. ASSUME NEW o \in renewing, RenewalEnds(o) PROVE FreshInv'
  BY <1>17, Rows, Tokens, Written DEF RenewalEnds, Fault
<1>18. ASSUME NEW o \in asking, StrayAsks(o) PROVE FreshInv'
  BY <1>18, Rows, Tokens, Written DEF StrayAsks, Claim, Expired
<1>19. ASSUME Lapse PROVE FreshInv'
  BY <1>19, Rows, Tokens, Written DEF Lapse, Fault
<1>20. CASE UNCHANGED vars
  BY <1>20 DEF vars, old
<1>21. QED BY <1>1, <1>2, <1>3, <1>4, <1>5, <1>6, <1>7, <1>8, <1>9, <1>10, <1>11, <1>12,
           <1>13, <1>14, <1>15, <1>16, <1>17, <1>18, <1>19, <1>20 DEF Next, Action

\* A claim can only be taken from its owner by a fault.
LEMMA InForce ==
  ASSUME TypeOK, FreshInv, InForceInv, [Next]_vars
  PROVE  InForceInv'
<1> USE DEF old, TypeOK, FreshInv, InForceInv, me, Token, Holds, BuiltBy, Goto, Returns, Polling
<1>1. ASSUME NEW c \in Caller, Dispatch(c) PROVE InForceInv'
  BY <1>1, Rows, Tokens, Written DEF Dispatch
<1>2. ASSUME NEW c \in Caller, Get(c) PROVE InForceInv'
  BY <1>2, Rows, Tokens, Written DEF Get, Expired
<1>3. ASSUME NEW c \in Caller, Insert(c) PROVE InForceInv'
  BY <1>3, Rows, Tokens, Written DEF Insert, Claim
<1>4. ASSUME NEW c \in Caller, Expire(c) PROVE InForceInv'
  BY <1>4, Rows, Tokens, Written DEF Expire, Expired
<1>5. ASSUME NEW c \in Caller, LookupFails(c) PROVE InForceInv'
  BY <1>5, Rows, Tokens, Written DEF LookupFails, Claim, Fault, Expired
<1>6. ASSUME NEW c \in Caller, ImageFails(c) PROVE InForceInv'
  BY <1>6, Rows, Tokens, Written DEF ImageFails
<1>7. ASSUME NEW c \in Caller, GiveUp(c) PROVE InForceInv'
  BY <1>7, Rows, Tokens, Written DEF GiveUp, Fault, Released, BuiltBy
<1>8. ASSUME NEW c \in Caller, Commit(c) PROVE InForceInv'
  BY <1>8, Rows, Tokens, Written DEF Commit, MayRetry
<1>9. ASSUME NEW c \in Caller, Close(c) PROVE InForceInv'
  BY <1>9, Rows, Tokens, Written DEF Close, Fault
<1>10. ASSUME NEW c \in Caller, Killed(c) PROVE InForceInv'
  BY <1>10, Rows, Tokens, Written DEF Killed
<1>11. ASSUME NEW c \in Caller, Stop(c) PROVE InForceInv'
  BY <1>11, Rows, Tokens, Written DEF Stop, Redispatched, Fault
<1>12. ASSUME NEW c \in Caller, Crash(c) PROVE InForceInv'
  BY <1>12, Rows, Tokens, Written DEF Crash, Redispatched, Fault
<1>13. ASSUME NEW c \in Caller, TakenOver(c) PROVE InForceInv'
  BY <1>13, Rows, Tokens, Written DEF TakenOver, Redispatched, Fault
<1>14. ASSUME NEW c \in Caller, NEW kind \in {"output", "error"}, Publish(c, kind)
      PROVE InForceInv'
  BY <1>14, Rows, Tokens, Written DEF Publish, Fault, Holds, BuiltBy
<1>15. ASSUME NEW o \in leaving, Leave(o) PROVE InForceInv'
  BY <1>15, Rows, Tokens, Written DEF Leave, Fault, Released, BuiltBy
<1>16. ASSUME NEW o \in strays, StrayEnds(o) PROVE InForceInv'
  BY <1>16, Rows, Tokens, Written DEF StrayEnds, Holds, BuiltBy
<1>17. ASSUME NEW o \in renewing, RenewalEnds(o) PROVE InForceInv'
  BY <1>17, Rows, Tokens, Written DEF RenewalEnds, Fault
<1>18. ASSUME NEW o \in asking, StrayAsks(o) PROVE InForceInv'
  BY <1>18, Rows, Tokens, Written DEF StrayAsks, Claim, Expired
<1>19. ASSUME Lapse PROVE InForceInv'
  <2>1. SUFFICES ASSUME faults' = 0 PROVE \A d \in Caller : pc[d] # "work"
    BY <1>19 DEF Lapse
  <2>2. faults = 0 /\ entry.owner \notin renewing
    BY <1>19, <2>1 DEF Lapse, Fault
  <2>3. QED BY <2>2
<1>20. CASE UNCHANGED vars
  BY <1>20 DEF vars, old
<1>21. QED BY <1>1, <1>2, <1>3, <1>4, <1>5, <1>6, <1>7, <1>8, <1>9, <1>10, <1>11, <1>12,
           <1>13, <1>14, <1>15, <1>16, <1>17, <1>18, <1>19, <1>20 DEF Next, Action

\* Whoever leaves a claim behind gives it up, or stops renewing it.
LEMMA Used ==
  ASSUME TypeOK, FreshInv, ClaimsAreUsed, [Next]_vars
  PROVE  ClaimsAreUsed'
<1> USE DEF old, TypeOK, FreshInv, ClaimsAreUsed, me, Token, Holds, BuiltBy, Goto, Returns, Polling
<1>1. ASSUME NEW c \in Caller, Dispatch(c) PROVE ClaimsAreUsed'
  BY <1>1, Rows, Tokens, Written DEF Dispatch
<1>2. ASSUME NEW c \in Caller, Get(c) PROVE ClaimsAreUsed'
  BY <1>2, Rows, Tokens, Written DEF Get, Expired
<1>3. ASSUME NEW c \in Caller, Insert(c) PROVE ClaimsAreUsed'
  BY <1>3, Rows, Tokens, Written DEF Insert, Claim
<1>4. ASSUME NEW c \in Caller, Expire(c) PROVE ClaimsAreUsed'
  BY <1>4, Rows, Tokens, Written DEF Expire, Expired
<1>5. ASSUME NEW c \in Caller, LookupFails(c) PROVE ClaimsAreUsed'
  BY <1>5, Rows, Tokens, Written DEF LookupFails, Claim, Fault, Expired
<1>6. ASSUME NEW c \in Caller, ImageFails(c) PROVE ClaimsAreUsed'
  BY <1>6, Rows, Tokens, Written DEF ImageFails
<1>7. ASSUME NEW c \in Caller, GiveUp(c) PROVE ClaimsAreUsed'
  BY <1>7, Rows, Tokens, Written DEF GiveUp, Fault, Released, BuiltBy
<1>8. ASSUME NEW c \in Caller, Commit(c) PROVE ClaimsAreUsed'
  BY <1>8, Rows, Tokens, Written DEF Commit, MayRetry
<1>9. ASSUME NEW c \in Caller, Close(c) PROVE ClaimsAreUsed'
  BY <1>9, Rows, Tokens, Written DEF Close, Fault
<1>10. ASSUME NEW c \in Caller, Killed(c) PROVE ClaimsAreUsed'
  BY <1>10, Rows, Tokens, Written DEF Killed
<1>11. ASSUME NEW c \in Caller, Stop(c) PROVE ClaimsAreUsed'
  BY <1>11, Rows, Tokens, Written DEF Stop, Redispatched, Fault
<1>12. ASSUME NEW c \in Caller, Crash(c) PROVE ClaimsAreUsed'
  BY <1>12, Rows, Tokens, Written DEF Crash, Redispatched, Fault
<1>13. ASSUME NEW c \in Caller, TakenOver(c) PROVE ClaimsAreUsed'
  BY <1>13, Rows, Tokens, Written DEF TakenOver, Redispatched, Fault
<1>14. ASSUME NEW c \in Caller, NEW kind \in {"output", "error"}, Publish(c, kind)
      PROVE ClaimsAreUsed'
  BY <1>14, Rows, Tokens, Written DEF Publish, Fault, Holds, BuiltBy
<1>15. ASSUME NEW o \in leaving, Leave(o) PROVE ClaimsAreUsed'
  BY <1>15, Rows, Tokens, Written DEF Leave, Fault, Released, BuiltBy
<1>16. ASSUME NEW o \in strays, StrayEnds(o) PROVE ClaimsAreUsed'
  BY <1>16, Rows, Tokens, Written DEF StrayEnds, Holds, BuiltBy
<1>17. ASSUME NEW o \in renewing, RenewalEnds(o) PROVE ClaimsAreUsed'
  BY <1>17, Rows, Tokens, Written DEF RenewalEnds, Fault
<1>18. ASSUME NEW o \in asking, StrayAsks(o) PROVE ClaimsAreUsed'
  BY <1>18, Rows, Tokens, Written DEF StrayAsks, Claim, Expired
<1>19. ASSUME Lapse PROVE ClaimsAreUsed'
  BY <1>19, Rows, Tokens, Written DEF Lapse, Fault
<1>20. CASE UNCHANGED vars
  BY <1>20 DEF vars, old
<1>21. QED BY <1>1, <1>2, <1>3, <1>4, <1>5, <1>6, <1>7, <1>8, <1>9, <1>10, <1>11, <1>12,
           <1>13, <1>14, <1>15, <1>16, <1>17, <1>18, <1>19, <1>20 DEF Next, Action

-----------------------------------------------------------------------------
(* The theorems *)

LEMMA Start == CacheAssumption /\ Init => IInv
BY DEF CacheAssumption, Init, IInv, TypeOK, BudgetInv, AgreedInv, FreshInv, InForceInv,
       ClaimsAreUsed, None, Failed, NoEntry, Value, Holds, BuiltBy

\* The inductive invariant of the cache protocol: types and budget, agreement of
\* all results with the table, fresh tokens, claims in force unless something
\* fails, and no claim kept alive for nothing.
THEOREM CacheInductive == CacheAssumption /\ Spec => []IInv
<1>1. ASSUME CacheAssumption, IInv, [Next]_vars PROVE IInv'
  BY <1>1, Types, Agreed, Fresh, InForce, Used DEF IInv
<1>2. QED BY <1>1, Start, CacheAssumption, PTL DEF Spec

\* Every variable keeps its type, and no action fails more often than it may.
THEOREM CacheTypes == CacheAssumption /\ Spec => []TypeOK
<1>1. IInv => TypeOK
  BY DEF IInv
<1>2. QED BY <1>1, CacheInductive, PTL

\* All actions with the same key that end with a result end with the same one,
\* whichever tasks computed it, lost their claim or were taken over meanwhile.
THEOREM ResultsAgree == CacheAssumption /\ Spec => []OneResult
<1>1. IInv => OneResult
  BY DEF IInv, AgreedInv, OneResult
<1>2. QED BY <1>1, CacheInductive, PTL

\* As long as nothing fails a key is computed by one action at a time.
THEOREM NoDuplicateWork == CacheAssumption /\ Spec => []OneComputes
<1>1. ASSUME IInv PROVE OneComputes
  <2>1. SUFFICES ASSUME faults = 0, NEW c \in Caller, NEW d \in Caller,
                        pc[c] = "work", pc[d] = "work"
                 PROVE  c = d
    BY DEF OneComputes
  <2>2. Holds(me(c)) /\ Holds(me(d))
    BY <1>1, <2>1 DEF IInv, InForceInv
  <2>3. me(c) = me(d)
    BY <2>2 DEF Holds, BuiltBy
  <2>4. QED BY <1>1, <2>3, Tokens DEF IInv, TypeOK
<1>2. QED BY <1>1, CacheInductive, PTL

\* No claim is renewed for nothing, as long as the deferred releases succeed.
THEOREM NoClaimForgotten == CacheAssumption /\ Spec => []ClaimsAreUsed
<1>1. IInv => ClaimsAreUsed
  BY DEF IInv
<1>2. QED BY <1>1, CacheInductive, PTL

\* A published result is never replaced or deleted.
THEOREM ResultsAreFinal == CacheAssumption /\ Spec => ResultsStay
<1>1. ASSUME TypeOK, entry.status = "ready", Next PROVE entry' = entry
  <2>1. ~Expired /\ \A o : ~Holds(o) /\ Released(o) = entry
    BY <1>1 DEF Expired, Holds, BuiltBy, Released
  <2>2. ASSUME NEW c \in Caller, Action(c) PROVE entry' = entry
    BY <1>1, <2>1, <2>2 DEF Action, Dispatch, Get, Insert, Expire, LookupFails, ImageFails, GiveUp,
       Commit, Close, Killed, Stop, Crash, TakenOver, Redispatched, Publish
  <2>3. ASSUME NEW o \in leaving, Leave(o) PROVE entry' = entry
    BY <2>1, <2>3 DEF Leave
  <2>4. ASSUME NEW o \in strays, StrayEnds(o) PROVE entry' = entry
    BY <2>1, <2>4 DEF StrayEnds
  <2>5. QED BY <1>1, <2>1, <2>2, <2>3, <2>4 DEF Next, RenewalEnds, Lapse, StrayAsks
<1>2. ASSUME TypeOK, [Next]_vars PROVE [entry.status = "ready" => entry' = entry]_vars
  BY <1>1, <1>2 DEF vars, old
<1>3. QED BY <1>2, CacheTypes, PTL DEF Spec, ResultsStay
=============================================================================
