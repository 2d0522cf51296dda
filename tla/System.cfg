SPECIFICATION FairSpec
CONSTANTS
  h1 = h1  s1 = s1  a1 = a1  e1 = e1  e2 = e2
  Hosts <- MCHosts
  Services <- MCServices
  Applications <- MCApplications
  Endpoints <- MCEndpoints
  MaxRoots = 2
  MaxFaults = 1
  MaxExitSignals = 4
  MaxProblems = 1
CHECK_DEADLOCK FALSE
INVARIANTS
  OneRootAtATime
  EndpointsAreServed
  CleanExit
PROPERTIES
  ExitsInTheEnd
