------------------------------ MODULE MCBroker ------------------------------
\* Instances of Broker for TLC: two peers, one message type and "*".
EXTENDS Broker, TLC

CONSTANTS p1, p2, e1, m1, m2

MCPeers     == {p1, p2}
MCEvents    == {e1}
MCMsgs      == {m1, m2}
MCOnePeer   == {p1}
MCSameType  == [m \in MCMsgs |-> e1]
MCTypeOf    == [m \in MCMsgs |-> IF m = m2 THEN NoType ELSE e1]
MCAnnounced == {{e1, Wildcard}}
MCOnlyEvent == {{e1}}
MCSymmetry  == Permutations(MCPeers)
=============================================================================
