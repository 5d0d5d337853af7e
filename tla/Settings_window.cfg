CONSTANTS
  Worker = {w1, w2}
  Task = {t1, t2}
  MaxEpoch = 1
  MaxOps = 5
  Strategies = 2
  Policies <- MCPolicies
  Modes = {"disabled"}
  Flags = {"filter"}
SPECIFICATION Spec
SYMMETRY Symmetry
INVARIANTS
  TypeOK
  FinishReady
  
  Applied
  SweepAlive
CHECK_DEADLOCK FALSE
