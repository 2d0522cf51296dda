SPECIFICATION FairSpec
CONSTANTS
  a = a
  b = b
  c = c
  s = s
  Nodes = {a, b, c, s}
  Root = a
  None = None
  Graphs <- MCGraphs
CHECK_DEADLOCK FALSE
INVARIANTS
  VerdictIsRight
  NothingHalfDone
  RefsAreDefined
PROPERTIES
  EveryVisitEnds
