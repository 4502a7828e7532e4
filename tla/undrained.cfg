\* undrained
CONSTANTS
  Ids = {i1}
  Forged = {}
  CacheMax = 1
  MayFail = FALSE
  MaxPushes = 1
  MaxLives = 2
SPECIFICATION Spec
CHECK_DEADLOCK FALSE
INVARIANTS
  AckedReachesHost
