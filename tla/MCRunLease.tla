----------------------------- MODULE MCRunLease -----------------------------
(* Small instances of RunLease: a root with one child and a chain of three. *)
EXTENDS RunLease, TLC

CONSTANTS root, a, b

PairParent == a :> root
ChainParent == (a :> root) @@ (b :> a)

Once == [n \in Action |-> 1]
TwiceA == [n \in Action |-> IF n = a THEN 2 ELSE 1]
=============================================================================
