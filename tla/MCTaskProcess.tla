---------------------------- MODULE MCTaskProcess ----------------------------
(* One job whose task calls the API once. *)
EXTENDS TaskProcess

CONSTANT p1
=============================================================================
