SPECIFICATION LiveSystemSpec
CONSTANTS
  s1 = s1
  a = a
  Sessions <- OneSession
  Images <- OneImage
  ImageOf <- Same
  Blocks = 2
  CallsFail = FALSE
  MaxStarts = 3
  MaxStops = 3
  MaxRetry = 2
  BusCap = 3
INVARIANTS TypeOK GivesUpOnlyWhenSpent SettledAgrees UpdaterFollowsLink
PROPERTIES OutageEnds DoneIsInstalled
CHECK_DEADLOCK FALSE
