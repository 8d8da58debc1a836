---------------------------- MODULE MCGraphExec ----------------------------
(* Small instances of GraphExec: a root with one, two or three children,   *)
(* and a chain of three actions.                                           *)
EXTENDS GraphExec, TLC

CONSTANTS root, a, b, c

PairParent == a :> root
StarParent == (a :> root) @@ (b :> root)
ChainParent == (a :> root) @@ (b :> a)

FanParent == StarParent @@ (c :> root)

NoPrereq == [n \in Node |-> {}]
CAfterBoth == [n \in Node |-> IF n = c THEN {a, b} ELSE {}]

Once == [n \in Node |-> 1]
TwiceA == [n \in Node |-> IF n = a THEN 2 ELSE 1]
=============================================================================
