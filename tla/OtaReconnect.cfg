SPECIFICATION Spec
CONSTANTS
  s1 = s1
  s2 = s2
  a = a
  b = b
  Sessions <- OneSession
  Images <- OneImage
  ImageOf <- Same
  Blocks = 1
  CallsFail = FALSE
  MaxStarts = 2
  MaxStops = 1
INVARIANTS HandleMeansTask
CHECK_DEADLOCK FALSE
