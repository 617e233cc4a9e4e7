SPECIFICATION Spec
CONSTANTS
  p1 = p1
  p2 = p2
  e1 = e1
  m1 = m1
  m2 = m2
  Wildcard = star
  NoType = notype
  Nobody = nobody
  Peers <- MCPeers
  Events <- MCEvents
  Msgs <- MCMsgs
  TypeOf <- MCSameType
  Announced <- MCOnlyEvent
  PeerTimeout = 1
  MaxAge = 1
  TxCap = 1
PROPERTY ForgottenLeavesNoSubscription
CHECK_DEADLOCK FALSE
