SPECIFICATION Spec
CONSTANTS
  Configs <- MCConfigs
  NoLimit <- MCNoLimit
  MaxDay = 2
  MaxFailures = 1
  MaxOldFiles = 2
  MaxLines = 4
CHECK_DEADLOCK FALSE
INVARIANTS
  LoggedOnceInOrder
PROPERTIES
  RotatesToTheEnd
