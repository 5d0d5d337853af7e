SPECIFICATION FairSpec
CONSTANTS
  PC = {p1}
  Other = {}
  LeaseLen = 2
  Drift = 0
  MaxDay = 3
  MaxJobs = 4
  None = None
PROPERTY
  AbandonedKeyPruned

