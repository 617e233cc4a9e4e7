SPECIFICATION LiveSpec
CONSTANTS
  LedPeriod = 1
  HbPeriod = 2
  Delays = {1, 3}
  Values = {0, 1}
  Zero = 0
  MaxSleep = 4
  Lag = 1
INVARIANTS TypeOK PulseLength CommandPace
PROPERTIES SpentTimerIsHarmless BlinkGoesOn CommandReachesWheels
