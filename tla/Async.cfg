SPECIFICATION FairAsyncSpec
CONSTANTS
  Clients = {c1, c2, c3}
  NoKey = NoKey
  MaxRounds = 2
  Callers = {c1, c2}
  HasStart = TRUE
  MaxRuns = 3
CHECK_DEADLOCK FALSE
INVARIANTS
  SingleRun
  StopSticks
PROPERTIES
  EveryLockGranted
  ServesInRequestOrder
  ErrorsSurface
  StopEndsTheRun
