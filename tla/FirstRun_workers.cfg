SPECIFICATION Spec
CONSTANTS
  Own = {w1}
  Random = {r1, r2}
  HostKeys = {h1, h2}
  Worker = {k1, k2}
  Remember = {TRUE, FALSE}
  Honoured = TRUE
  Keyring = TRUE
  None = None
SYMMETRY Symmetry
INVARIANTS
  TypeOK
  NeverLockedOut
