SPECIFICATION LiveSpec
CONSTANTS
  CmdCap = 2
  TxCap = 3
  MaxPings = 1
  SysBurst = 2
  AckBurst = 2
  LineCap = 1
INVARIANTS TypeOK
CHECK_DEADLOCK FALSE
PROPERTIES SilenceNoticed Recovers
