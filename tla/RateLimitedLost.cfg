SPECIFICATION StreamSpec
CONSTANTS
  MaxWritten = 4
  MaxChunk = 3
  MaxWaiting = 2
  MaxSent = 1
  MaxGrant = 2
  HighWaterMark = 2
CHECK_DEADLOCK FALSE
INVARIANTS
  SoonMeansFlushed
