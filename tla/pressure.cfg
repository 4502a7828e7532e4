SPECIFICATION Spec
CHECK_DEADLOCK FALSE
CONSTANTS
  Peers = {1, 2, 3}
  Cap = 1
  Plans <- AllPlans
  MaxDrops = 1
INVARIANTS
  TypeOK
PROPERTIES
  FlowsOrCycle
  BystandersFlow
