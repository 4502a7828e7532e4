SPECIFICATION FairSpec
CHECK_DEADLOCK FALSE
CONSTANTS
  Writers = {w1, w2, w3}
  Events = {send, ack}
  NoWriter = NoWriter
  MaxRows = 2
  MaxFaults = 1
  MaxCrashes = 1
INVARIANTS
  TailFresh
  ChainIntact
  UniqueNeverFires
  DamageLocated
PROPERTY
  AppendsReturn
