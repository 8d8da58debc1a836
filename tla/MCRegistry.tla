----------------------------- MODULE MCRegistry -----------------------------
(* One content small enough for a single PUT and one uploaded in parts; an *)
(* environment, and one that depends on it.                                *)
EXTENDS Registry, TLC

CONSTANTS small, large, base, app

SourcesOf == (base :> {small, large}) @@ (app :> {small, large})
DepsOf == (base :> {}) @@ (app :> {base})
=============================================================================
