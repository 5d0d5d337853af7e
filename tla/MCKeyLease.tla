----------------------------- MODULE MCKeyLease -----------------------------
(* KeyLease on small instances: one or two PCs, up to two foreign keys.     *)
EXTENDS KeyLease, TLC

\* PCs, like the foreign keys, are interchangeable (not in liveness runs).
Symmetry == Permutations(PC) \cup Permutations(Other)
=============================================================================
