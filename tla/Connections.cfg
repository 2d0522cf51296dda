SPECIFICATION FairConnectionsSpec
CONSTANTS
  MaxGens = 3
  Conns = {k1, k2}
CHECK_DEADLOCK FALSE
INVARIANTS
  RunningListens
  ListensOnce
  StoppedIsQuiet
PROPERTIES
  StopsInTheEnd
