SPECIFICATION FairSpec
CONSTANTS
  root = root
  manager = manager
  configured = configured
  namesake = namesake
  nameless = nameless
  Root = root
  Manager = manager
  Leaves <- MCLeaves
  Configured <- MCConfigured
  GivenName <- MCGivenName
  ClassName <- MCClassName
  HostNames <- MCHostNames
  Lists <- MCLists
  Callers = {k1, k2}
  Waiters = {w1}
  MaxStarts = 2
CHECK_DEADLOCK FALSE
INVARIANTS
  TreeIsTrue
  RunsAndStopsAsAWhole
  HostMapIsTrue
PROPERTIES
  EveryCallEnds
