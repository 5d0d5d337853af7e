CONSTANTS
  Worker = {w1, w2}
  Boards = {"release", "snapshot"}
  MaxVersion = 2
  MaxJobs = 2
SPECIFICATION Spec
SYMMETRY Symmetry
INVARIANTS
  TypeOK
  ReportedReady
  StaleOnlyAfterFailure
PROPERTIES
  ReadyWithApp
  NotWithdrawn
CHECK_DEADLOCK FALSE
