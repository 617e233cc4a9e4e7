------------------------------- MODULE PubSub -------------------------------
(***************************************************************************)
(* What the broker promises: publish/subscribe in which a packet is routed *)
(* to all subscribers of a pattern in one step.  Detail left out: tasks,   *)
(* locks, the transmit queue, timeouts.                                    *)
(***************************************************************************)
EXTENDS Naturals

CONSTANTS Peers, Events, Wildcard, Msgs, TypeOf

Patterns == Events \cup {Wildcard}

VARIABLES
  subscriptions,  \* the peers registered under each pattern
  copies          \* how often a packet was routed to a peer under a pattern

vars == <<subscriptions, copies>>

Init ==
  /\ subscriptions = [t \in Patterns |-> {}]
  /\ copies = [m \in Msgs |-> [t \in Patterns |-> [p \in Peers |-> 0]]]

\* A peer joins or leaves one list
Subscribe(p, t) ==
  /\ subscriptions' = [subscriptions EXCEPT ![t] = @ \cup {p}]
  /\ UNCHANGED copies

Unsubscribe(p, t) ==
  /\ subscriptions' = [subscriptions EXCEPT ![t] = @ \ {p}]
  /\ UNCHANGED copies

\* One copy for every subscriber of the pattern, none for anybody else, and
\* never a second time
Route(m, t) ==
  /\ t \in {TypeOf[m], Wildcard}
  /\ \A p \in Peers : copies[m][t][p] = 0
  /\ copies' = [copies EXCEPT ![m][t] = [p \in Peers |-> IF p \in subscriptions[t] THEN 1 ELSE 0]]
  /\ UNCHANGED subscriptions

Next ==
  \/ \E p \in Peers, t \in Patterns : Subscribe(p, t) \/ Unsubscribe(p, t)
  \/ \E m \in Msgs, t \in Patterns : Route(m, t)

Spec == Init /\ [][Next]_vars
=============================================================================
