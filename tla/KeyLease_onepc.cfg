SPECIFICATION FairSpec
CONSTANTS
  PC = {p1}
  Other = {o1}
  LeaseLen = 2
  Drift = 1
  MaxDay = 4
  MaxJobs = 4
  None = None
INVARIANTS
  TypeOK
PROPERTY
  LapsedLeasePruned

