---------------------------- MODULE SerialRouter ----------------------------
(***************************************************************************)
(* What router/client.py promises its callers ("exactly one command on the *)
(* wire at a time", client.py 131-136): any number of threads ask for a    *)
(* call, one of them is served at a time, and every call that is served    *)
(* ends, whatever happens to it.                                           *)
(***************************************************************************)
CONSTANT Worker  \* the threads that use the session

VARIABLE call    \* each thread's call: none, asked for, or being served

TypeOK == call \in [Worker -> {"none", "asked", "served"}]

Init == call = [w \in Worker |-> "none"]

Ask(w) == call[w] = "none" /\ call' = [call EXCEPT ![w] = "asked"]

Serve(w) ==
  /\ call[w] = "asked"
  /\ \A v \in Worker : call[v] # "served"
  /\ call' = [call EXCEPT ![w] = "served"]

End(w) == call[w] = "served" /\ call' = [call EXCEPT ![w] = "none"]

Next == \E w \in Worker : Ask(w) \/ Serve(w) \/ End(w)

Spec == Init /\ [][Next]_call
=============================================================================
