SPECIFICATION Spec
CONSTANTS
  keepCount = 2
  MaxEvents = 4
  MaxServices = 2
CHECK_DEADLOCK FALSE
INVARIANTS
  KeptWindow
  LoggedOnceInOrder
  DrainTakesAll
PROPERTIES
  NoGap
  StopEnds
