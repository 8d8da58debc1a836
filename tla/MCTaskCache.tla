---------------------------- MODULE MCTaskCache -----------------------------
(* Small instances of TaskCache: two actions that share a key.    *)
EXTENDS TaskCache, TLC

CONSTANTS x, y
=============================================================================
