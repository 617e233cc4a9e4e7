SPECIFICATION Spec
CONSTANTS
  Limit = 3
  PositionsAfter = FALSE
  SbufSize = 2
  MaxChunk = 2
  MaxTx = 6
  Last = 6
  Ends = {2, 4, 6}
INVARIANT ReadsOnlyWritten
CHECK_DEADLOCK FALSE
