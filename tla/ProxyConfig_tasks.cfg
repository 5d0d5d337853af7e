SPECIFICATION Spec
CHECK_DEADLOCK FALSE
SYMMETRY Symmetry
CONSTANTS
  Worker = {w1, w2}
  Node = {n1}
  Usable = {n1}
  Source = {refilter, youtube}
  Refilter = refilter
  None = None
  MaxNumber = 3
  MaxTasks = 3
INVARIANTS
  TypeOK
  UniqueUnlessRaced
  RulesWhole
  PoolKept
  MainApplied
