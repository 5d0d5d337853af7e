SPECIFICATION Spec
CONSTANTS
  PC = {p1, p2}
  Other = {o1}
  LeaseLen = 1
  Drift = 0
  MaxDay = 2
  MaxJobs = 4
  None = None
SYMMETRY Symmetry
INVARIANTS
  UniqueLines
  ForeignKeysKept
PROPERTY
  ConnectKeepsKey
