SPECIFICATION Spec
CONSTANTS
  Own = {w1}
  Random = {r1, r2}
  HostKeys = {h1, h2}
  Worker = {k1}
  Remember = {TRUE}
  Honoured = FALSE
  Keyring = TRUE
  None = None
SYMMETRY Symmetry
INVARIANT
  VerifiedKeyWorks
