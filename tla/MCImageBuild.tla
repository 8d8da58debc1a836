---------------------------- MODULE MCImageBuild ----------------------------
(* Small instances of ImageBuild: three callers of ensureImage.            *)
EXTENDS ImageBuild, TLC

CONSTANTS u, v, w, nobody
=============================================================================
