SPECIFICATION Spec
CONSTANTS
  Host = {h1}
  Port = {p1}
  Fp = {1, 2}
  Pair = {k1, k2}
  OldPair = k1
  OldPub = k1old
  Secret = secret
  Worker = {w1}
  Tk = tk
  MaxJobs = 2
  MaxFaults = 2
  MaxEvents = 2
  Unread = unread
  Denied = denied
  None = none
  h1 = h1
  p1 = p1
  k1 = k1
  k2 = k2
  w1 = w1
INVARIANTS TypeOK IdentityWhole CacheCurrent
PROPERTY SecretsKept
CHECK_DEADLOCK FALSE
