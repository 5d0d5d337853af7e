----------------------------- MODULE MCFirstRun -----------------------------
(* FirstRun with two overlapping workers and two generated passwords, which *)
(* are interchangeable, as are the host keys.                               *)
EXTENDS FirstRun, TLC

Symmetry == Permutations(Random) \cup Permutations(HostKeys) \cup Permutations(Worker)
=============================================================================
