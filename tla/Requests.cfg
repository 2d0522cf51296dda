CONSTANTS
  Requests <- MCRequests
  Sites <- MCSites
  Files <- MCFiles
  Lengths <- MCLengths
  SuffixesOf <- MCSuffixes
  MaxVersion = 3
  PerSecond = 2
  None = None
  NoName = NoName
  Undecodable = {"%2F"}
  Chunk = 2
  MaxBody = 2
  MaxFollowed = 3
SPECIFICATION Spec
INVARIANTS
  MostSpecificWins
  RedirectsSettle
  AnswersAreWhole
  AnswersAreTrue
PROPERTIES
  OldPageOnlyInARace
  EveryRequestEnds
