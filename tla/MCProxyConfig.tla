--------------------------- MODULE MCProxyConfig ----------------------------
(* ProxyConfig on small instances: the threads and the servers that are     *)
(* alike may be swapped.                                                    *)
EXTENDS ProxyConfig, TLC

Symmetry == Permutations(Worker)
=============================================================================
