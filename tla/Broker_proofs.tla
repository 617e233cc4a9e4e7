---------------------------- MODULE Broker_proofs ----------------------------
(***************************************************************************)
(* Proofs about Broker for any peers, patterns, packets, timeout and       *)
(* transmit queue.  Each task's steps preserve the inductive invariant     *)
(* IInv; the theorems at the end follow from it.                           *)
(***************************************************************************)
EXTENDS Broker, SequenceTheorems, TLAPS

LEMMA InitIInv == Init => IInv
  BY BrokerAssumption
  DEF Init, IInv, TypeOK, TasksOK, FreshListedOrPending, ForwardOnlyToSubscribers,
      McIdle, PruneIdle, FwdIdle, SndIdle, Patterns, Guarded, Entries

\* Time only makes endpoints less fresh
LEMMA TickIInv == IInv /\ Tick => IInv'
  <1> SUFFICES ASSUME IInv, Tick PROVE IInv'
    OBVIOUS
  <1> USE BrokerAssumption DEF IInv, Tick, fwdVars, txVars
  <1>1. TypeOK'
    BY DEF TypeOK
  <1>2. TasksOK'
    BY DEF TypeOK, TasksOK, Stale
  <1>3. FreshListedOrPending'
    BY DEF TypeOK, FreshListedOrPending
  <1>4. ForwardOnlyToSubscribers'
    BY DEF ForwardOnlyToSubscribers, Guarded
  <1>5. QED
    BY <1>1, <1>2, <1>3, <1>4

\* The multicast receiver
LEMMA RecvAliveIInv ==
  ASSUME IInv, NEW p \in Peers, NEW subs \in Announced, RecvAlive(p, subs)
  PROVE  IInv'
  <1> USE BrokerAssumption DEF IInv, RecvAlive, scoutVars, fwdVars, txVars
  <1>1. TypeOK'
    BY DEF TypeOK, Patterns
  <1>2. TasksOK'
    BY DEF TasksOK, Stale
  <1>3. FreshListedOrPending'
    BY DEF FreshListedOrPending
  <1>4. ForwardOnlyToSubscribers'
    BY DEF ForwardOnlyToSubscribers, Guarded
  <1>5. QED
    BY <1>1, <1>2, <1>3, <1>4

LEMMA InsertEndpointIInv == IInv /\ InsertEndpoint => IInv'
  <1> SUFFICES ASSUME IInv, InsertEndpoint PROVE IInv'
    OBVIOUS
  <1> USE BrokerAssumption DEF IInv, InsertEndpoint, fwdVars, txVars
  <1>0. mc.src \in Peers /\ mc.todo \in SUBSET Patterns
    BY DEF TasksOK, TypeOK
  <1>1. TypeOK'
    <2>1. mc' \in [pc : {"idle", "insert", "subscribe"},
                   src : Peers \cup {Nobody}, todo : SUBSET Patterns]
      BY <1>0 DEF TypeOK, McIdle
    <2>2. age' \in [Peers -> 0..MaxAge] /\ subscribe' \in [Peers -> SUBSET Patterns]
      BY <1>0 DEF TypeOK
    <2>3. endpoints' \subseteq Peers
      BY <1>0 DEF TypeOK
    <2>4. UNCHANGED <<subscriptions, prune, rx, arrived, pending, fwd, copies, txq, snd>>
      OBVIOUS
    <2> HIDE DEF InsertEndpoint
    <2>5. QED
      BY <2>1, <2>2, <2>3, <2>4 DEF TypeOK
  <1>2. TasksOK'
    BY <1>0 DEF TypeOK, TasksOK, Stale, EndpointLocked, McIdle
  <1>3. FreshListedOrPending'
    BY <1>0 DEF TypeOK, FreshListedOrPending, McIdle
  <1>4. ForwardOnlyToSubscribers'
    BY DEF ForwardOnlyToSubscribers, Guarded
  <1>5. QED
    BY <1>1, <1>2, <1>3, <1>4

LEMMA AddSubscriptionIInv ==
  ASSUME IInv, NEW t \in Patterns, AddSubscription(t)
  PROVE  IInv'
  <1> USE BrokerAssumption DEF IInv, AddSubscription, fwdVars, txVars
  <1>0. mc.src \in Peers /\ mc.todo \in SUBSET Patterns
    BY DEF TasksOK, TypeOK
  <1>1. TypeOK'
    <2>1. mc' \in [pc : {"idle", "insert", "subscribe"},
                   src : Peers \cup {Nobody}, todo : SUBSET Patterns]
      BY <1>0 DEF TypeOK, McIdle
    <2>2. subscriptions' \in [Patterns -> SUBSET Peers]
      BY <1>0 DEF TypeOK
    <2>3. QED
      BY <2>1, <2>2 DEF TypeOK
  <1>2. TasksOK'
    BY <1>0 DEF TypeOK, TasksOK, Stale, McIdle
  <1>3. FreshListedOrPending'
    <2>1. \A u \in Patterns : subscriptions[u] \subseteq subscriptions'[u]
      BY DEF TypeOK
    <2>2. mc.src \in subscriptions'[t]
      BY DEF TypeOK
    <2>3. \A u \in mc.todo \ {t} :
             mc'.pc = "subscribe" /\ mc'.src = mc.src /\ u \in mc'.todo
      BY <1>0 DEF TypeOK
    <2>4. FreshListedOrPending /\ mc.todo \subseteq Patterns /\ subscribe \in [Peers -> SUBSET Patterns]
          /\ endpoints \subseteq Peers /\ UNCHANGED <<endpoints, age, subscribe>>
      BY <1>0 DEF TypeOK
    <2> HIDE DEF AddSubscription
    <2>5. QED
      BY <2>1, <2>2, <2>3, <2>4 DEF FreshListedOrPending
  <1>4. ForwardOnlyToSubscribers'
    BY DEF TypeOK, ForwardOnlyToSubscribers, Guarded
  <1>5. QED
    BY <1>1, <1>2, <1>3, <1>4

\* The pruner

LEMMA PruneStartIInv ==
  ASSUME IInv, PruneStart
  PROVE  IInv'
  <1> USE BrokerAssumption DEF IInv, PruneStart, scoutVars, fwdVars, txVars
  <1>1. TypeOK'
    <2>1. prune' \in [pc : {"idle", "iterate", "purge", "sweep", "retain"},
                      ep : Peers \cup {Nobody}, todo : SUBSET Peers, left : SUBSET Patterns]
      BY DEF TypeOK, TasksOK, Stale, PruneIdle
    <2>2. QED
      BY <2>1 DEF TypeOK
  <1>2. TasksOK'
    BY DEF TypeOK, TasksOK, Stale, PruneIdle
  <1>3. FreshListedOrPending'
    BY DEF FreshListedOrPending
  <1>4. ForwardOnlyToSubscribers'
    BY DEF ForwardOnlyToSubscribers, Guarded
  <1>5. QED
    BY <1>1, <1>2, <1>3, <1>4

LEMMA PruneVisitIInv ==
  ASSUME IInv, NEW p \in Peers, PruneVisit(p)
  PROVE  IInv'
  <1> USE BrokerAssumption DEF IInv, PruneVisit, scoutVars, fwdVars, txVars
  <1>1. TypeOK'
    <2>1. prune' \in [pc : {"idle", "iterate", "purge", "sweep", "retain"},
                      ep : Peers \cup {Nobody}, todo : SUBSET Peers, left : SUBSET Patterns]
      BY DEF TypeOK, TasksOK, Stale, PruneIdle
    <2>2. QED
      BY <2>1 DEF TypeOK
  <1>2. TasksOK'
    BY DEF TypeOK, TasksOK, Stale
  <1>3. FreshListedOrPending'
    BY DEF FreshListedOrPending
  <1>4. ForwardOnlyToSubscribers'
    BY DEF ForwardOnlyToSubscribers, Guarded
  <1>5. QED
    BY <1>1, <1>2, <1>3, <1>4

LEMMA PruneSweepIInv ==
  ASSUME IInv, NEW t \in Patterns, PruneSweep(t)
  PROVE  IInv'
  <1> USE BrokerAssumption DEF IInv, PruneSweep, scoutVars, fwdVars, txVars
  <1>1. TypeOK'
    <2>1. prune' \in [pc : {"idle", "iterate", "purge", "sweep", "retain"},
                      ep : Peers \cup {Nobody}, todo : SUBSET Peers, left : SUBSET Patterns]
      BY DEF TypeOK, TasksOK, Stale, PruneIdle
    <2>2. QED
      BY <2>1 DEF TypeOK
  <1>2. TasksOK'
    BY DEF TypeOK, TasksOK, Stale
  <1>3. FreshListedOrPending'
    BY DEF FreshListedOrPending
  <1>4. ForwardOnlyToSubscribers'
    BY DEF ForwardOnlyToSubscribers, Guarded
  <1>5. QED
    BY <1>1, <1>2, <1>3, <1>4

LEMMA PruneIteratedIInv ==
  ASSUME IInv, PruneIterated
  PROVE  IInv'
  <1> USE BrokerAssumption DEF IInv, PruneIterated, scoutVars, fwdVars, txVars
  <1>1. TypeOK'
    <2>1. prune' \in [pc : {"idle", "iterate", "purge", "sweep", "retain"},
                      ep : Peers \cup {Nobody}, todo : SUBSET Peers, left : SUBSET Patterns]
      BY DEF TypeOK, TasksOK, Stale, PruneIdle
    <2>2. QED
      BY <2>1 DEF TypeOK
  <1>2. TasksOK'
    BY DEF TypeOK, TasksOK, Stale
  <1>3. FreshListedOrPending'
    BY DEF FreshListedOrPending
  <1>4. ForwardOnlyToSubscribers'
    BY DEF ForwardOnlyToSubscribers, Guarded
  <1>5. QED
    BY <1>1, <1>2, <1>3, <1>4

LEMMA PrunePurgeIInv ==
  ASSUME IInv, NEW t \in Patterns, PrunePurge(t)
  PROVE  IInv'
  <1> USE BrokerAssumption DEF IInv, PrunePurge, fwdVars, txVars
  <1>1. TypeOK'
    <2>1. prune' \in [pc : {"idle", "iterate", "purge", "sweep", "retain"},
                      ep : Peers \cup {Nobody}, todo : SUBSET Peers, left : SUBSET Patterns]
      BY DEF TypeOK
    <2>2. subscriptions' \in [Patterns -> SUBSET Peers]
      BY DEF TypeOK
    <2>3. QED
      BY <2>1, <2>2 DEF TypeOK
  <1>2. TasksOK'
    BY DEF TypeOK, TasksOK, Stale
  <1>3. FreshListedOrPending'
    <2>1. ~(age[prune.ep] < PeerTimeout) /\ prune.ep \in Peers
      BY DEF TypeOK, TasksOK, Stale
    <2>2. \A u \in Patterns : subscriptions[u] \ {prune.ep} \subseteq subscriptions'[u]
      BY DEF TypeOK
    <2>3. QED
      BY <2>1, <2>2 DEF TypeOK, FreshListedOrPending
  <1>4. ForwardOnlyToSubscribers'
    <2>1. \A u \in Guarded : subscriptions'[u] = subscriptions[u]
      BY DEF TypeOK, SubscriptionsLocked, Guarded
    <2>2. QED
      BY <2>1 DEF ForwardOnlyToSubscribers, Guarded
  <1>5. QED
    BY <1>1, <1>2, <1>3, <1>4

LEMMA PruneRetainIInv ==
  ASSUME IInv, NEW p \in Peers, PruneRetain(p)
  PROVE  IInv'
  <1> USE BrokerAssumption DEF IInv, PruneRetain, fwdVars, txVars
  <1>1. TypeOK'
    <2>1. prune' \in [pc : {"idle", "iterate", "purge", "sweep", "retain"},
                      ep : Peers \cup {Nobody}, todo : SUBSET Peers, left : SUBSET Patterns]
      BY DEF TypeOK, PruneIdle
    <2>2. endpoints' \subseteq Peers
      BY DEF TypeOK
    <2>3. age' \in [Peers -> 0..MaxAge]
      <3>1. CASE Stale(p)
        BY <3>1 DEF TypeOK
      <3>2. CASE ~Stale(p)
        BY <3>2 DEF TypeOK
      <3>3. QED
        BY <3>1, <3>2
    <2>4. subscribe' \in [Peers -> SUBSET Patterns]
      <3>1. CASE Stale(p)
        <4>1. subscribe' = [subscribe EXCEPT ![p] = {}] /\ subscribe \in [Peers -> SUBSET Patterns]
          BY <3>1 DEF TypeOK
        <4> HIDE DEF PruneRetain, IInv
        <4>2. QED
          BY <4>1
      <3>2. CASE ~Stale(p)
        BY <3>2 DEF TypeOK
      <3>3. QED
        BY <3>1, <3>2
    <2>5. QED
      BY <2>1, <2>2, <2>3, <2>4 DEF TypeOK
  <1>2. TasksOK'
    BY DEF TypeOK, TasksOK, PruneIdle
  <1>3. FreshListedOrPending'
    <2>1. endpoints' \subseteq endpoints
      OBVIOUS
    <2>2. \A q \in endpoints' : age'[q] = age[q] /\ subscribe'[q] = subscribe[q]
      BY DEF TypeOK
    <2>3. QED
      BY <2>1, <2>2 DEF FreshListedOrPending
  <1>4. ForwardOnlyToSubscribers'
    BY DEF ForwardOnlyToSubscribers, Guarded
  <1>5. QED
    BY <1>1, <1>2, <1>3, <1>4

\* The unicast receiver and the handler tasks

LEMMA ReceivePacketIInv ==
  ASSUME IInv, NEW m \in Msgs, ReceivePacket(m)
  PROVE  IInv'
  <1> USE BrokerAssumption DEF IInv, ReceivePacket, scoutVars, txVars
  <1>1. TypeOK'
    BY DEF TypeOK
  <1>2. TasksOK'
    BY DEF TasksOK, Stale
  <1>3. FreshListedOrPending'
    BY DEF FreshListedOrPending
  <1>4. ForwardOnlyToSubscribers'
    BY DEF ForwardOnlyToSubscribers, Guarded
  <1>5. QED
    BY <1>1, <1>2, <1>3, <1>4

LEMMA SpawnHandlerIInv ==
  ASSUME IInv, SpawnHandler
  PROVE  IInv'
  <1> USE BrokerAssumption DEF IInv, SpawnHandler, scoutVars, txVars
  <1>1. TypeOK'
    BY DEF TypeOK
  <1>2. TasksOK'
    BY DEF TasksOK, Stale
  <1>3. FreshListedOrPending'
    BY DEF FreshListedOrPending
  <1>4. ForwardOnlyToSubscribers'
    BY DEF ForwardOnlyToSubscribers, Guarded
  <1>5. QED
    BY <1>1, <1>2, <1>3, <1>4

LEMMA StartHandlerIInv ==
  ASSUME IInv, NEW m \in Msgs, StartHandler(m)
  PROVE  IInv'
  <1> USE BrokerAssumption DEF IInv, StartHandler, scoutVars, txVars
  <1>1. TypeOK'
    <2>1. fwd' \in [pc : {"idle", "typed", "star"}, msg : Msgs \cup {Nobody}, todo : SUBSET Peers]
      BY DEF TypeOK, TasksOK, FwdIdle, Lookup, Patterns
    <2>2. QED
      BY <2>1 DEF TypeOK
  <1>2. TasksOK'
    BY DEF TypeOK, TasksOK, Stale, FwdIdle
  <1>3. FreshListedOrPending'
    BY DEF FreshListedOrPending
  <1>4. ForwardOnlyToSubscribers'
    BY DEF TypeOK, ForwardOnlyToSubscribers, Guarded, Lookup, FwdIdle
  <1>5. QED
    BY <1>1, <1>2, <1>3, <1>4

LEMMA LookupWildcardIInv ==
  ASSUME IInv, LookupWildcard
  PROVE  IInv'
  <1> USE BrokerAssumption DEF IInv, LookupWildcard, scoutVars, txVars
  <1>1. TypeOK'
    <2>1. fwd' \in [pc : {"idle", "typed", "star"}, msg : Msgs \cup {Nobody}, todo : SUBSET Peers]
      BY DEF TypeOK, TasksOK, FwdIdle, Lookup, Patterns
    <2>2. QED
      BY <2>1 DEF TypeOK
  <1>2. TasksOK'
    BY DEF TypeOK, TasksOK, Stale
  <1>3. FreshListedOrPending'
    BY DEF FreshListedOrPending
  <1>4. ForwardOnlyToSubscribers'
    BY DEF TypeOK, ForwardOnlyToSubscribers, Guarded, Lookup
  <1>5. QED
    BY <1>1, <1>2, <1>3, <1>4

LEMMA FinishHandlerIInv ==
  ASSUME IInv, FinishHandler
  PROVE  IInv'
  <1> USE BrokerAssumption DEF IInv, FinishHandler, scoutVars, txVars
  <1>1. TypeOK'
    <2>1. fwd' \in [pc : {"idle", "typed", "star"}, msg : Msgs \cup {Nobody}, todo : SUBSET Peers]
      BY DEF TypeOK, TasksOK, FwdIdle, Lookup, Patterns
    <2>2. QED
      BY <2>1 DEF TypeOK
  <1>2. TasksOK'
    BY DEF TasksOK, Stale, FwdIdle
  <1>3. FreshListedOrPending'
    BY DEF FreshListedOrPending
  <1>4. ForwardOnlyToSubscribers'
    BY DEF ForwardOnlyToSubscribers, Guarded, FwdIdle
  <1>5. QED
    BY <1>1, <1>2, <1>3, <1>4

LEMMA ForwardToIInv ==
  ASSUME IInv, NEW p \in Peers, NEW t \in Patterns, ForwardTo(p, t)
  PROVE  IInv'
  <1> USE BrokerAssumption DEF IInv, ForwardTo, scoutVars
  <1>1. TypeOK'
    <2>1. fwd.msg \in Msgs
      BY DEF TypeOK, TasksOK, Guarded
    <2>2. fwd' \in [pc : {"idle", "typed", "star"}, msg : Msgs \cup {Nobody}, todo : SUBSET Peers]
      BY DEF TypeOK
    <2>3. txq' \in Seq(Entries) /\ Len(txq') <= TxCap
      BY <2>1 DEF TypeOK, TxRoom, Entries
    <2>4. copies' \in [Msgs -> [Patterns -> [Peers -> Nat]]]
      BY SMTT(30), <2>1 DEF TypeOK
    <2>5. QED
      BY <2>2, <2>3, <2>4 DEF TypeOK
  <1>2. TasksOK'
    BY DEF TypeOK, TasksOK, Stale
  <1>3. FreshListedOrPending'
    BY DEF FreshListedOrPending
  <1>4. ForwardOnlyToSubscribers'
    BY DEF TypeOK, ForwardOnlyToSubscribers, Guarded
  <1>5. QED
    BY <1>1, <1>2, <1>3, <1>4

\* The unicast sender

LEMMA PopTxIInv ==
  ASSUME IInv, PopTx
  PROVE  IInv'
  <1> USE BrokerAssumption DEF IInv, PopTx, scoutVars, fwdVars
  <1>1. TypeOK'
    <2>1. txq' \in Seq(Entries) /\ Len(txq') <= TxCap /\ snd' \in Entries
      BY HeadTailProperties DEF TypeOK
    <2>2. QED
      BY <2>1 DEF TypeOK
  <1>2. TasksOK'
    BY DEF TasksOK, Stale
  <1>3. FreshListedOrPending'
    BY DEF FreshListedOrPending
  <1>4. ForwardOnlyToSubscribers'
    BY DEF ForwardOnlyToSubscribers, Guarded
  <1>5. QED
    BY <1>1, <1>2, <1>3, <1>4

LEMMA SendDatagramIInv ==
  ASSUME IInv, SendDatagram
  PROVE  IInv'
  <1> USE BrokerAssumption DEF IInv, SendDatagram, scoutVars, fwdVars
  <1>1. TypeOK'
    BY DEF TypeOK
  <1>2. TasksOK'
    BY DEF TasksOK, Stale
  <1>3. FreshListedOrPending'
    BY DEF FreshListedOrPending
  <1>4. ForwardOnlyToSubscribers'
    BY DEF ForwardOnlyToSubscribers, Guarded
  <1>5. QED
    BY <1>1, <1>2, <1>3, <1>4

-----------------------------------------------------------------------------

LEMMA NextIInv == IInv /\ [Next]_vars => IInv'
  <1> SUFFICES ASSUME IInv, [Next]_vars PROVE IInv'
    OBVIOUS
  <1>1. CASE UNCHANGED vars
    BY <1>1 DEF vars, scoutVars, fwdVars, txVars, IInv, TypeOK, TasksOK, Stale,
                FreshListedOrPending, ForwardOnlyToSubscribers, Guarded
  <1>2. CASE Tick
    BY <1>2, TickIInv
  <1>3. CASE \E p \in Peers, subs \in Announced : RecvAlive(p, subs)
    BY <1>3, RecvAliveIInv
  <1>4. CASE McStep
    BY <1>4, InsertEndpointIInv, AddSubscriptionIInv DEF McStep
  <1>5. CASE PruneStep
    BY <1>5, PruneStartIInv, PruneIteratedIInv, PruneVisitIInv, PruneRetainIInv,
       PrunePurgeIInv, PruneSweepIInv DEF PruneStep
  <1>6. CASE \E m \in Msgs : ReceivePacket(m)
    BY <1>6, ReceivePacketIInv
  <1>7. CASE HandlerStep
    BY <1>7, SpawnHandlerIInv, StartHandlerIInv DEF HandlerStep
  <1>8. CASE FwdStep
    BY <1>8, LookupWildcardIInv, FinishHandlerIInv, ForwardToIInv DEF FwdStep
  <1>9. CASE SenderStep
    BY <1>9, PopTxIInv, SendDatagramIInv DEF SenderStep
  <1>10. QED
    BY <1>1, <1>2, <1>3, <1>4, <1>5, <1>6, <1>7, <1>8, <1>9 DEF Next

THEOREM Invariance == Spec => []IInv
  <1>1. QED
    BY InitIInv, NextIInv, PTL DEF Spec

\* Every variable of the broker keeps its type, and tx_queue its capacity.
THEOREM TypeCorrect == Spec => []TypeOK
  <1>1. IInv => TypeOK
    BY DEF IInv
  <1>2. QED
    BY <1>1, Invariance, PTL

\* No interleaving of the pruner with the multicast receiver costs a live peer
\* a subscription of its last Alive.
THEOREM FreshSubscribed == Spec => []FreshEndpointsSubscribed
  <1>1. IInv => FreshEndpointsSubscribed
    BY DEF IInv, FreshListedOrPending, FreshEndpointsSubscribed
  <1>2. QED
    BY <1>1, Invariance, PTL

\* The list the forwarder iterates over does not shrink under it.
THEOREM ForwardSubscribers == Spec => []ForwardOnlyToSubscribers
  <1>1. IInv => ForwardOnlyToSubscribers
    BY DEF IInv
  <1>2. QED
    BY <1>1, Invariance, PTL

-----------------------------------------------------------------------------
(* Refinement of PubSub *)

\* Steps outside the forwarder that leave the tables alone are stutters
LEMMA RoutedUnchanged ==
  ASSUME UNCHANGED <<fwd, copies>>
  PROVE  routed' = routed
  BY DEF routed, Guarded

LEMMA RoutedType == IInv => routed \in [Msgs -> [Patterns -> [Peers -> Nat]]]
  BY DEF IInv, TypeOK, routed

\* Handing one entry to the queue moves a copy from "to do" to "made"
LEMMA ForwardRouted ==
  ASSUME IInv, NEW p \in Peers, NEW t \in Patterns, ForwardTo(p, t)
  PROVE  routed' = routed
  <1>1. fwd.msg \in Msgs /\ fwd'.msg = fwd.msg /\ fwd'.pc = fwd.pc /\ fwd'.todo = fwd.todo \ {p}
    BY DEF ForwardTo, IInv, TypeOK, TasksOK, Guarded
  <1>2. Guarded = {t} /\ Guarded' = Guarded
    BY <1>1, BrokerAssumption DEF ForwardTo, Guarded, IInv, TasksOK
  <1>3. p \in fwd.todo /\ t \in Guarded
    BY DEF ForwardTo
  <1>4. \A m \in Msgs, u \in Patterns, q \in Peers :
          copies'[m][u][q] = IF m = fwd.msg /\ u = t /\ q = p
                             THEN copies[m][u][q] + 1 ELSE copies[m][u][q]
    <2>1. copies' = [copies EXCEPT ![fwd.msg][t][p] = @ + 1]
      BY DEF ForwardTo
    <2>2. copies \in [Msgs -> [Patterns -> [Peers -> Nat]]]
      BY DEF IInv, TypeOK
    <2>3. QED
      BY <1>1, <2>1, <2>2
  <1>5. \A m \in Msgs, u \in Patterns, q \in Peers : copies[m][u][q] \in Nat
    BY DEF IInv, TypeOK
  <1>6. ASSUME NEW m \in Msgs, NEW u \in Patterns, NEW q \in Peers
        PROVE  copies'[m][u][q] + (IF fwd'.msg = m /\ u \in Guarded' /\ q \in fwd'.todo THEN 1 ELSE 0)
               = copies[m][u][q] + (IF fwd.msg = m /\ u \in Guarded /\ q \in fwd.todo THEN 1 ELSE 0)
    BY <1>1, <1>2, <1>3, <1>4, <1>5
  <1>7. QED
    BY <1>6 DEF routed

\* HandledOnce, given the types
LEMMA InitHandledOnce == Init => HandledOnce
  BY BrokerAssumption DEF Init, HandledOnce, FwdIdle, Patterns

LEMMA NextHandledOnce == IInv /\ HandledOnce /\ [Next]_vars => HandledOnce'
  <1> SUFFICES ASSUME IInv, HandledOnce, [Next]_vars PROVE HandledOnce'
    OBVIOUS
  <1> USE BrokerAssumption
  <1>1. ASSUME UNCHANGED <<rx, arrived, pending, fwd, copies>> PROVE HandledOnce'
    BY <1>1 DEF HandledOnce
  <1>2. ASSUME NEW m \in Msgs, ReceivePacket(m) PROVE HandledOnce'
    BY <1>2 DEF ReceivePacket, HandledOnce, IInv, TypeOK
  <1>3. CASE SpawnHandler
    BY <1>3 DEF SpawnHandler, HandledOnce, IInv, TypeOK
  <1>4. ASSUME NEW m \in Msgs, StartHandler(m) PROVE HandledOnce'
    <2>1. m \in arrived /\ m # rx
      BY <1>4 DEF StartHandler, HandledOnce
    <2>2. fwd' = FwdIdle \/ (fwd'.pc = "typed" /\ fwd'.msg = m)
      BY <1>4 DEF StartHandler
    <2>3. QED
      BY <1>4, <2>1, <2>2 DEF StartHandler, HandledOnce, FwdIdle, Patterns
  <1>5. CASE LookupWildcard
    <2>1. fwd'.pc = "star" /\ fwd'.msg = fwd.msg
      BY <1>5 DEF LookupWildcard, IInv, TypeOK
    <2>2. QED
      BY <1>5, <2>1 DEF LookupWildcard, HandledOnce
  <1>6. CASE FinishHandler
    BY <1>6 DEF FinishHandler, HandledOnce, FwdIdle
  <1>7. ASSUME NEW p \in Peers, NEW t \in Patterns, ForwardTo(p, t) PROVE HandledOnce'
    <2>1. fwd'.msg = fwd.msg /\ fwd'.pc = fwd.pc /\ fwd.pc # "idle" /\ fwd.msg \in Msgs
      BY <1>7 DEF ForwardTo, IInv, TypeOK, TasksOK, Guarded
    <2>2. \A m \in Msgs : m # fwd.msg => copies'[m] = copies[m]
      BY <1>7 DEF ForwardTo, IInv, TypeOK
    <2>3. fwd.pc = "typed" => copies'[fwd.msg][Wildcard] = copies[fwd.msg][Wildcard]
      <3>1. fwd.pc = "typed" => t # Wildcard
        BY <1>7 DEF ForwardTo, Guarded, IInv, TasksOK
      <3>2. copies' = [copies EXCEPT ![fwd.msg][t][p] = @ + 1]
        BY <1>7 DEF ForwardTo
      <3>3. copies \in [Msgs -> [Patterns -> [Peers -> Nat]]] /\ Wildcard \in Patterns
        BY DEF IInv, TypeOK, Patterns
      <3>4. QED
        BY <2>1, <3>1, <3>2, <3>3
    <2>4. UNCHANGED <<rx, arrived, pending>>
      BY <1>7 DEF ForwardTo
    <2>5. QED
      BY <2>1, <2>2, <2>3, <2>4 DEF HandledOnce
  <1>8. QED
    BY <1>1, <1>2, <1>3, <1>4, <1>5, <1>6, <1>7
    DEF Next, vars, scoutVars, fwdVars, txVars, McStep, PruneStep, HandlerStep, FwdStep,
        SenderStep, Tick, RecvAlive, InsertEndpoint, AddSubscription, PruneStart,
        PruneVisit, PrunePurge, PruneSweep, PruneIterated, PruneRetain, PopTx, SendDatagram

\* A lookup routes the packet to the list it finds
LEMMA StartRoutes ==
  ASSUME IInv, HandledOnce, NEW m \in Msgs, StartHandler(m)
  PROVE  [PS!Next]_(PS!vars)
  <1> USE BrokerAssumption
  <1>1. subscriptions' = subscriptions /\ copies' = copies /\ Guarded = {}
    BY DEF StartHandler, scoutVars, Guarded
  <1>2. CASE TypeOf[m] = NoType
    <2>1. Guarded' = {}
      BY <1>2 DEF StartHandler, Guarded, FwdIdle
    <2>2. routed' = routed
      BY <1>1, <2>1 DEF routed
    <2>3. QED
      BY <1>1, <2>2 DEF PS!vars
  <1>3. CASE TypeOf[m] # NoType
    <2> DEFINE t == TypeOf[m]
    <2>1. t \in Events /\ t \in Patterns
      BY <1>3 DEF Patterns
    <2>2. fwd' = [pc |-> "typed", msg |-> m, todo |-> subscriptions[t]]
      BY <1>3 DEF StartHandler, Lookup
    <2>3. Guarded' = {t}
      BY <2>1, <2>2 DEF Guarded
    <2>4. \A u \in Patterns, p \in Peers : copies[m][u][p] = 0
      BY DEF StartHandler, HandledOnce
    <2>5. \A n \in Msgs, u \in Patterns, p \in Peers : copies[n][u][p] \in Nat
      BY DEF IInv, TypeOK
    <2>6. routed = copies
      BY <1>1, <2>5 DEF routed, IInv, TypeOK
    <2>7. routed' = [routed EXCEPT ![m][t] =
                       [p \in Peers |-> IF p \in subscriptions[t] THEN 1 ELSE 0]]
      <3>1. \A n \in Msgs, u \in Patterns, p \in Peers :
              routed'[n][u][p] = IF n = m /\ u = t
                                 THEN IF p \in subscriptions[t] THEN 1 ELSE 0
                                 ELSE copies[n][u][p]
        BY <1>1, <2>2, <2>3, <2>4, <2>5 DEF routed
      <3>2. routed' = [n \in Msgs |-> [u \in Patterns |-> [p \in Peers |-> routed'[n][u][p]]]]
        BY DEF routed
      <3>3. copies \in [Msgs -> [Patterns -> [Peers -> Nat]]]
        BY DEF IInv, TypeOK
      <3>4. QED
        BY <2>1, <2>6, <3>1, <3>2, <3>3
    <2>8. PS!Route(m, t)
      BY <1>1, <2>1, <2>4, <2>6, <2>7 DEF PS!Route
    <2>9. QED
      BY <2>1, <2>8 DEF PS!Next, PS!Patterns, Patterns
  <1>4. QED
    BY <1>2, <1>3

LEMMA WildcardRoutes ==
  ASSUME IInv, HandledOnce, LookupWildcard
  PROVE  [PS!Next]_(PS!vars)
  <1> USE BrokerAssumption
  <1>0. PICK m \in Msgs : m = fwd.msg
    BY DEF LookupWildcard, IInv, TasksOK
  <1>1. subscriptions' = subscriptions /\ copies' = copies /\ fwd.todo = {}
    BY DEF LookupWildcard, scoutVars
  <1>2. Wildcard \in Patterns
    BY DEF Patterns
  <1>3. fwd'.pc = "star" /\ fwd'.msg = m /\ fwd'.todo = subscriptions[Wildcard]
    BY <1>0 DEF LookupWildcard, Lookup, IInv, TypeOK
  <1>4. Guarded' = {Wildcard}
    BY <1>2, <1>3 DEF Guarded
  <1>5. \A p \in Peers : copies[m][Wildcard][p] = 0
    BY <1>0 DEF LookupWildcard, HandledOnce
  <1>6. copies \in [Msgs -> [Patterns -> [Peers -> Nat]]]
    BY DEF IInv, TypeOK
  <1>7. routed = copies
    BY <1>1, <1>6 DEF routed
  <1>8. routed' = [routed EXCEPT ![m][Wildcard] =
                     [p \in Peers |-> IF p \in subscriptions[Wildcard] THEN 1 ELSE 0]]
    <2>1. \A n \in Msgs, u \in Patterns, p \in Peers :
            routed'[n][u][p] = IF n = m /\ u = Wildcard
                               THEN IF p \in subscriptions[Wildcard] THEN 1 ELSE 0
                               ELSE copies[n][u][p]
      BY <1>1, <1>3, <1>4, <1>5, <1>6 DEF routed
    <2>2. routed' = [n \in Msgs |-> [u \in Patterns |-> [p \in Peers |-> routed'[n][u][p]]]]
      BY DEF routed
    <2>3. QED
      BY <1>2, <1>6, <1>7, <2>1, <2>2
  <1>9. PS!Route(m, Wildcard)
    BY <1>1, <1>5, <1>7, <1>8 DEF PS!Route
  <1>10. QED
    BY <1>2, <1>9 DEF PS!Next, PS!Patterns, Patterns

LEMMA NextRefines == IInv /\ HandledOnce /\ [Next]_vars => [PS!Next]_(PS!vars)
  <1> SUFFICES ASSUME IInv, HandledOnce, [Next]_vars PROVE [PS!Next]_(PS!vars)
    OBVIOUS
  <1>1. ASSUME UNCHANGED <<subscriptions, fwd, copies>> PROVE [PS!Next]_(PS!vars)
    BY <1>1, RoutedUnchanged DEF PS!vars
  <1>2. ASSUME NEW t \in Patterns, AddSubscription(t) PROVE [PS!Next]_(PS!vars)
    <2>1. routed' = routed
      BY <1>2, RoutedUnchanged DEF AddSubscription, fwdVars
    <2>2. PS!Subscribe(mc.src, t) /\ mc.src \in Peers
      BY <1>2, <2>1 DEF AddSubscription, PS!Subscribe, IInv, TasksOK
    <2>3. QED
      BY <2>2 DEF PS!Next, PS!Patterns, Patterns
  <1>3. ASSUME NEW t \in Patterns, PrunePurge(t) PROVE [PS!Next]_(PS!vars)
    <2>1. routed' = routed
      BY <1>3, RoutedUnchanged DEF PrunePurge, fwdVars
    <2>2. PS!Unsubscribe(prune.ep, t) /\ prune.ep \in Peers
      BY <1>3, <2>1 DEF PrunePurge, PS!Unsubscribe, IInv, TypeOK, TasksOK, Stale
    <2>3. QED
      BY <2>2 DEF PS!Next, PS!Patterns, Patterns
  <1>4. ASSUME NEW p \in Peers, NEW t \in Patterns, ForwardTo(p, t) PROVE [PS!Next]_(PS!vars)
    BY <1>4, ForwardRouted DEF ForwardTo, scoutVars, PS!vars
  <1>5. CASE FinishHandler
    <2>1. routed' = routed
      BY <1>5 DEF FinishHandler, FwdIdle, routed, Guarded
    <2>2. QED
      BY <1>5, <2>1 DEF FinishHandler, scoutVars, PS!vars
  <1>6. QED
    BY <1>1, <1>2, <1>3, <1>4, <1>5, StartRoutes, WildcardRoutes
    DEF Next, vars, scoutVars, fwdVars, txVars, McStep, PruneStep, HandlerStep, FwdStep,
        SenderStep, Tick, RecvAlive, InsertEndpoint, PruneStart, PruneVisit, PruneSweep,
        PruneIterated, PruneRetain, ReceivePacket, SpawnHandler, PopTx, SendDatagram

\* The broker, with its tasks, locks and queue, implements PubSub: every
\* lookup routes its packet once to exactly the subscribers of the moment.
THEOREM Refinement == Spec => RoutesLikePubSub
  <1>1. Init => PS!Init
    BY DEF Init, PS!Init, routed, Guarded, FwdIdle, PS!Patterns, Patterns
  <1>2. QED
    BY <1>1, InitIInv, NextIInv, InitHandledOnce, NextHandledOnce, NextRefines, PTL
    DEF Spec, RoutesLikePubSub, PS!Spec

\* The tx_queue entries the forwarder makes are among the copies routed
LEMMA CopiesRouted ==
  ASSUME IInv, NEW m \in Msgs, NEW t \in Patterns, NEW p \in Peers
  PROVE  copies[m][t][p] \in Nat /\ copies[m][t][p] <= routed[m][t][p]
  <1>1. copies[m][t][p] \in Nat
    BY DEF IInv, TypeOK
  <1>2. QED
    BY <1>1 DEF routed

\* What PubSub's own steps preserve
RoutedOnce == \A m \in Msgs, t \in Patterns, p \in Peers : routed[m][t][p] \in {0, 1}

LEMMA PubSubOnce == RoutedOnce /\ [PS!Next]_(PS!vars) /\ IInv => RoutedOnce'
  <1> SUFFICES ASSUME RoutedOnce, [PS!Next]_(PS!vars), IInv PROVE RoutedOnce'
    OBVIOUS
  <1>1. CASE routed' = routed
    BY <1>1 DEF RoutedOnce
  <1>2. ASSUME NEW m \in Msgs, NEW t \in Patterns, PS!Route(m, t) PROVE RoutedOnce'
    <2>1. routed' = [routed EXCEPT ![m][t] = [p \in Peers |-> IF p \in subscriptions[t] THEN 1 ELSE 0]]
      BY <1>2 DEF PS!Route
    <2>2. routed \in [Msgs -> [Patterns -> [Peers -> Nat]]]
      BY RoutedType
    <2>3. \A n \in Msgs, u \in Patterns, p \in Peers :
            routed'[n][u][p] = IF n = m /\ u = t
                               THEN IF p \in subscriptions[t] THEN 1 ELSE 0
                               ELSE routed[n][u][p]
      BY <2>1, <2>2
    <2>4. QED
      BY <2>3 DEF RoutedOnce
  <1>3. QED
    BY <1>1, <1>2 DEF PS!Next, PS!vars, PS!Subscribe, PS!Unsubscribe, PS!Patterns, Patterns

\* Whatever the tasks' interleaving, no packet is queued twice for one peer
\* under one pattern: Forwarder.handle sends at most two copies to a peer, one
\* for the packet's type and one for "*".
THEOREM AtMostOneCopy ==
  Spec => [](\A m \in Msgs, t \in Patterns, p \in Peers : copies[m][t][p] \in {0, 1})
  <1>1. Init => RoutedOnce
    BY DEF Init, RoutedOnce, routed, Guarded, FwdIdle
  <1>2. IInv /\ HandledOnce /\ RoutedOnce /\ [Next]_vars => RoutedOnce'
    BY NextRefines, PubSubOnce
  <1>3. IInv /\ RoutedOnce => \A m \in Msgs, t \in Patterns, p \in Peers : copies[m][t][p] \in {0, 1}
    <2> SUFFICES ASSUME IInv, RoutedOnce, NEW m \in Msgs, NEW t \in Patterns, NEW p \in Peers
                 PROVE  copies[m][t][p] \in {0, 1}
      OBVIOUS
    <2>1. routed[m][t][p] \in {0, 1}
      BY DEF RoutedOnce
    <2>2. QED
      BY <2>1, CopiesRouted
  <1>4. QED
    BY <1>1, <1>2, <1>3, InitIInv, NextIInv, InitHandledOnce, NextHandledOnce, PTL DEF Spec

-----------------------------------------------------------------------------
(* The cycle *)

\* In the cycle the forwarder and the sender have no step, and the pruner only
\* those on lists that the forwarder does not hold.
LEMMA CycleHolds == IInv /\ Cycle => /\ fwd.pc # "idle" /\ fwd.todo # {} /\ ~TxRoom
                                    /\ prune.pc \in {"purge", "sweep"}
                                    /\ snd # SndIdle /\ EndpointLocked(snd.dst)
  BY DEF Cycle, Guarded, EndpointLocked

LEMMA PruneInCycle ==
  ASSUME IInv, Cycle, NEW t \in Patterns, PrunePurge(t) \/ PruneSweep(t)
  PROVE  Cycle' /\ UNCHANGED <<rx, pending, fwd, txVars, endpoints>>
  <1>1. UNCHANGED <<rx, pending, fwd, txq, snd, endpoints>>
    BY DEF PrunePurge, PruneSweep, fwdVars, txVars, scoutVars
  <1>2. t \notin Guarded
    BY DEF PrunePurge, PruneSweep, SubscriptionsLocked
  <1>3. Guarded' = Guarded
    BY <1>1 DEF Guarded
  <1>4. PICK u \in Guarded : u \in prune.left
    BY DEF Cycle
  <1>5. prune.left # {t} /\ u \in prune.left \ {t}
    BY <1>2, <1>4
  <1>6. prune' = [prune EXCEPT !.left = @ \ {t}]
    BY <1>5 DEF PrunePurge, PruneSweep
  <1>7. prune'.pc = prune.pc /\ prune'.ep = prune.ep /\ prune'.left = prune.left \ {t}
    BY <1>6 DEF IInv, TypeOK
  <1>8. Guarded' \cap prune'.left # {}
    BY <1>3, <1>4, <1>5, <1>7
  <1>9. fwd'.todo # {} /\ ~TxRoom' /\ snd' # SndIdle /\ EndpointLocked(snd.dst)'
    BY <1>1, <1>7 DEF Cycle, TxRoom, EndpointLocked, SndIdle
  <1>10. QED
    BY <1>1, <1>8, <1>9 DEF Cycle, txVars

LEMMA NextCycle ==
  ASSUME IInv, Cycle, [Next]_vars
  PROVE  /\ Cycle'
         /\ UNCHANGED <<pending, fwd, txVars>>
         /\ rx \in {Nobody, rx'}
         /\ endpoints \subseteq endpoints'
  <1> DEFINE Stays == /\ Cycle'
                      /\ UNCHANGED <<pending, fwd, txVars>>
                      /\ rx \in {Nobody, rx'}
                      /\ endpoints \subseteq endpoints'
  <1> SUFFICES Stays
    OBVIOUS
  <1>1. /\ fwd.pc # "idle" /\ fwd.todo # {} /\ ~TxRoom
        /\ prune.pc \in {"purge", "sweep"}
        /\ snd # SndIdle /\ EndpointLocked(snd.dst)
    BY CycleHolds
  <1>2. ASSUME UNCHANGED <<pending, fwd, txVars, prune>>, rx \in {Nobody, rx'},
               endpoints \subseteq endpoints'
        PROVE  Stays
    BY <1>2 DEF Cycle, Guarded, TxRoom, EndpointLocked, SndIdle, txVars
  <1>3. CASE Tick \/ (\E p \in Peers, subs \in Announced : RecvAlive(p, subs)) \/ McStep
    <2>1. UNCHANGED <<pending, fwd, txVars, prune, rx>> /\ endpoints \subseteq endpoints'
      BY <1>3 DEF Tick, RecvAlive, McStep, InsertEndpoint, AddSubscription, fwdVars, scoutVars
    <2>2. QED
      BY <1>2, <2>1
  <1>4. CASE PruneStep
    <2>1. \E t \in Patterns : PrunePurge(t) \/ PruneSweep(t)
      BY <1>1, <1>4 DEF PruneStep, PruneStart, PruneIterated, PruneVisit, PruneRetain
    <2>2. QED
      BY <2>1, PruneInCycle
  <1>5. CASE \E m \in Msgs : ReceivePacket(m)
    <2>1. UNCHANGED <<pending, fwd, txVars, prune, endpoints>> /\ rx = Nobody
      BY <1>5 DEF ReceivePacket, scoutVars
    <2>2. QED
      BY <1>2, <2>1
  <1>6. ~HandlerStep
    BY <1>1 DEF HandlerStep, SpawnHandler, StartHandler
  <1>7. ~FwdStep
    BY <1>1 DEF FwdStep, LookupWildcard, FinishHandler, ForwardTo
  <1>8. ~SenderStep
    BY <1>1 DEF SenderStep, PopTx, SendDatagram
  <1>9. CASE UNCHANGED vars
    <2>1. UNCHANGED <<pending, fwd, txVars, prune, rx, endpoints>>
      BY <1>9 DEF vars, scoutVars, fwdVars
    <2>2. QED
      BY <1>2, <2>1
  <1>10. QED
    BY <1>3, <1>4, <1>5, <1>6, <1>7, <1>8, <1>9 DEF Next

\* Once the forwarder, the pruner and the sender wait for each other, no
\* announcement, packet or passing of time helps: the cycle is for ever.
THEOREM NeverBroken == Spec => CycleIsForEver
  <1>1. IInv /\ [Next]_vars =>
          [Cycle => /\ Cycle'
                    /\ UNCHANGED <<pending, fwd, txVars>>
                    /\ rx \in {Nobody, rx'}
                    /\ endpoints \subseteq endpoints']_vars
    BY NextCycle
  <1>2. QED
    BY <1>1, Invariance, PTL DEF Spec, CycleIsForEver

\* A packet that was not handled when the cycle closed does not become handled:
\* neither the one being forwarded, nor one that waits or is still to come.
LEMMA UnhandledStays ==
  ASSUME IInv, Cycle, [Next]_vars, NEW m \in Msgs, ~Handled(m)
  PROVE  ~Handled(m)'
  <1>1. UNCHANGED <<pending, fwd>> /\ rx \in {Nobody, rx'}
    BY NextCycle
  <1>2. CASE m \in pending \/ fwd.msg = m
    BY <1>1, <1>2 DEF Handled
  <1>3. CASE rx = m
    BY <1>1, <1>3, BrokerAssumption DEF Handled
  <1>4. CASE m \notin arrived
    <2>1. ASSUME NEW n \in Msgs, ReceivePacket(n) PROVE ~Handled(m)'
      BY <1>4, <2>1 DEF ReceivePacket, Handled
    <2>2. ASSUME arrived' = arrived PROVE ~Handled(m)'
      BY <1>4, <2>2 DEF Handled
    <2>3. QED
      BY <2>1, <2>2
      DEF Next, vars, scoutVars, fwdVars, txVars, McStep, PruneStep, HandlerStep, FwdStep,
          SenderStep, Tick, RecvAlive, InsertEndpoint, AddSubscription, PruneStart,
          PruneVisit, PrunePurge, PruneSweep, PruneIterated, PruneRetain, PopTx, SendDatagram,
          SpawnHandler, StartHandler, LookupWildcard, FinishHandler, ForwardTo
  <1>5. QED
    BY <1>2, <1>3, <1>4 DEF Handled

\* Every packet that is not handled when the cycle closes is never handled.
THEOREM CycleLosesPackets ==
  ASSUME NEW m \in Msgs
  PROVE  Spec => [](Cycle /\ ~Handled(m) => []~Handled(m))
  <1> DEFINE Lost == Cycle /\ ~Handled(m)
  <1>1. IInv /\ Lost /\ [Next]_vars => Lost'
    BY NextCycle, UnhandledStays
  <1>2. Lost => ~Handled(m)
    OBVIOUS
  <1> HIDE DEF Lost
  <1>3. Spec => [](Lost => []Lost)
    BY <1>1, Invariance, PTL DEF Spec
  <1>4. QED
    BY <1>2, <1>3, PTL DEF Lost
=============================================================================
