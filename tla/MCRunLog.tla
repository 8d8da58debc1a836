------------------------------ MODULE MCRunLog ------------------------------
(* A small instance of RunLog: a request of two entries, of which one is   *)
(* wanted, that may be repeated, and one without an append_id.             *)
EXTENDS RunLog, TLC

CONSTANTS x, z, once

Two == <<[key |-> "other", value |-> "a"], [key |-> "mine", value |-> "b"]>>
One == <<[key |-> "mine", value |-> "c"]>>
Requests == (x :> Two) @@ (z :> One)
Ids == (x :> once) @@ (z :> NoId)
=============================================================================
