SPECIFICATION ConnectionsSpec
CONSTANTS
  MaxGens = 2
  Conns = {k1}
CHECK_DEADLOCK FALSE
INVARIANT
  NoConnectionLost
