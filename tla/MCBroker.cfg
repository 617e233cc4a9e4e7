SPECIFICATION Spec
CONSTANTS
  p1 = p1
  p2 = p2
  e1 = e1
  m1 = m1
  m2 = m2
  Wildcard = star
  NoType = notype
  Nobody = nobody
  Peers <- MCPeers
  Events <- MCEvents
  Msgs <- MCMsgs
  TypeOf <- MCTypeOf
  Announced <- MCAnnounced
  PeerTimeout = 1
  MaxAge = 1
  TxCap = 1
SYMMETRY MCSymmetry
INVARIANTS TypeOK FreshEndpointsSubscribed ForwardOnlyToSubscribers
PROPERTY RoutesLikePubSub
CHECK_DEADLOCK FALSE
