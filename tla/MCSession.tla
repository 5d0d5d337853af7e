----------------------------- MODULE MCSession ------------------------------
(* Session on small instances.  No symmetry: the run checks liveness.       *)
EXTENDS Session
=============================================================================
