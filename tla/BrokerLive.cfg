SPECIFICATION LiveSpec
CONSTANTS
  p1 = p1
  p2 = p2
  e1 = e1
  m1 = m1
  m2 = m2
  Wildcard = star
  NoType = notype
  Nobody = nobody
  Peers <- MCOnePeer
  Events <- MCEvents
  Msgs <- MCMsgs
  TypeOf <- MCSameType
  Announced <- MCAnnounced
  PeerTimeout = 1
  MaxAge = 1
  TxCap = 1
PROPERTIES PacketsHandledUnlessCycle SilentForgottenUnlessCycle QueueDrainsUnlessCycle CycleIsForEver
CHECK_DEADLOCK FALSE
