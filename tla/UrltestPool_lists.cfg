SPECIFICATION PoolSpec
CHECK_DEADLOCK FALSE
CONSTANTS
  Server <- MCServer
  Bucket <- MCBucket
  NoType = "untyped"
  Bad = {"amneziawg"}
  Preferred <- MCPreferred
  Weak <- MCWeak
  Cap = 3
  WlCap = 2
  MaxServers = 4
INVARIANTS
  PoolSound
  Diverse
  Precedence
  Complete
PROPERTY
  Terminates
