SPECIFICATION FairSpec
CONSTANTS
  w1 = w1
  w2 = w2
  Startup = Startup
  Hooks = {w1, w2}
  Steps = 2
  MaxOrders = 3
  Policies = {"chain", "batch"}
  MaxFailures = 1
  MaxVisits = 1
  MaxCrashes = 1
INVARIANTS
  TypeOK
  OneOrderPerStep
  SentInOrder
  NoOrphanInGroup
  NoUnsentLegUnlessStopped
PROPERTIES
  ChainContinues
  StopObeyed
  EndRemembered
CHECK_DEADLOCK FALSE
