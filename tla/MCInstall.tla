----------------------------- MODULE MCInstall ------------------------------
(* Install on two screens' threads, which are interchangeable.              *)
EXTENDS Install, TLC

Symmetry == Permutations(Worker)
=============================================================================
