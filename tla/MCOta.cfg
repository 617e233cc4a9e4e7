SPECIFICATION Spec
CONSTANTS
  s1 = s1
  s2 = s2
  a = a
  b = b
  Sessions <- TwoSessions
  Images <- TwoImages
  ImageOf <- Different
  Blocks = 3
  CallsFail = TRUE
  MaxStarts = 3
  MaxStops = 2
INVARIANTS TypeOK FlashIsPrefix UploadKept
PROPERTIES LastAckMeansWhole
CHECK_DEADLOCK FALSE
