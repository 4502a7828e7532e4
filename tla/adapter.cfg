SPECIFICATION Spec
CHECK_DEADLOCK FALSE
CONSTANTS
  Ids = {i1, i2, i3, i4}
  Forged = {i4}
  CacheMax = 2
  MayFail = TRUE
  MaxPushes = 5
  MaxLives = 2
INVARIANTS
  TypeOK
  RepeatsOnlyEvicted
  SuppressedWasConsumed
  HostSeesConsumed
