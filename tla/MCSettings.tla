----------------------------- MODULE MCSettings -----------------------------
(* The window with two installations and two tasks of the settings' pages.  *)
EXTENDS AntiDpi, TLC

MCPolicies == {[mode |-> "listed_only", lists |-> {}]}
Symmetry == Permutations(Worker) \cup Permutations(Task)
=============================================================================
