SPECIFICATION FairSpec
CONSTANTS
  Clients = {c1, c2}
  Unit = 2
  FlowRate = 2
  MaxBurstSize = 5
  InitialBurstSize = 3
  MaxQueueGrantOption = 4
  MaxQueueSize = 4
  PartialTokens = FALSE
  Quantities <- MCQuantities
  MaxTime = 6
  MaxCalls = 4
  LastCallTime = 2
  MaxDenials = 1
CHECK_DEADLOCK FALSE
INVARIANTS
  BurstWindow
PROPERTIES
  NoOvertaking
  ServedWaitersAnswered
