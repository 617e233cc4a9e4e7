SPECIFICATION LiveSpec
CONSTANTS
  Limit = 3
  PositionsAfter = FALSE
  SbufSize = 2
  MaxChunk = 2
  MaxTx = 5
  Last = 6
  Ends = {2, 4, 6}
INVARIANTS TypeOK IntactFramesPassedOn
PROPERTIES Sends Receives EveryByteLeaves
CHECK_DEADLOCK FALSE
