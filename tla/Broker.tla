------------------------------- MODULE Broker -------------------------------
(***************************************************************************)
(* The limeros broker: one process in which five tokio tasks share two     *)
(* DashMaps (endpoints, subscriptions), one mutex (generic_handlers) and   *)
(* one bounded queue (tx_queue).                                           *)
(*                                                                         *)
(*   multicast receiver  Alive packet -> endpoints, then subscriptions     *)
(*   pruner              forgets peers silent for PEER_TIMEOUT             *)
(*   unicast receiver    one spawned handler task per packet               *)
(*   handler task        Forwarder.handle: one tx_queue entry per          *)
(*                       subscriber of the type, then of "*"               *)
(*   unicast sender      drains tx_queue towards the peers' addresses      *)
(*                                                                         *)
(* A DashMap guard that lives across a blocking point is part of the       *)
(* state: the pruner holds an endpoint's lock while it removes that peer's *)
(* subscriptions, and the forwarder holds a subscription list's read lock  *)
(* while it waits for room in tx_queue.  Each key is taken to have a lock  *)
(* of its own; keys that share a DashMap shard only block each other more. *)
(***************************************************************************)
EXTENDS Naturals, Sequences, FiniteSets

CONSTANTS
  Peers,        \* names of the processes that announce themselves
  Events,       \* message types
  Wildcard,     \* the pattern "*"
  NoType,       \* the type of a packet whose msg_type is null
  Msgs,         \* packets that reach the broker's unicast socket
  TypeOf,       \* the msg_type of each packet
  Announced,    \* the subscription lists that peers announce
  PeerTimeout,  \* PEER_TIMEOUT, in clock ticks
  MaxAge,       \* bound: ages are counted up to here
  TxCap,        \* capacity of tx_queue (100 in the code)
  Nobody        \* "no peer" and "no packet"

ASSUME BrokerAssumption ==
  /\ Wildcard \notin Events
  /\ NoType \notin Events \cup {Wildcard}
  /\ TypeOf \in [Msgs -> Events \cup {NoType}]
  /\ Announced \subseteq SUBSET (Events \cup {Wildcard})
  /\ PeerTimeout \in Nat \ {0}
  /\ MaxAge \in Nat
  /\ TxCap \in Nat \ {0}
  /\ Nobody \notin Peers \cup Msgs

Patterns == Events \cup {Wildcard}
Entries  == [msg : Msgs, dst : Peers]

VARIABLES
  endpoints,      \* keys of Scout.endpoints
  age,            \* whole ticks since an endpoint's last_seen
  subscribe,      \* the subscribe field of an endpoint
  subscriptions,  \* destinations listed under each pattern
  mc,             \* the multicast receiver
  prune,          \* the pruner
  rx,             \* the packet the unicast receiver holds
  arrived,        \* packets received so far
  pending,        \* handler tasks spawned and not yet started
  fwd,            \* the handler task that holds generic_handlers
  txq,            \* tx_queue
  snd,            \* the entry the unicast sender holds
  copies          \* history: tx_queue entries made per packet, pattern, peer

scoutVars == <<endpoints, age, subscribe, subscriptions>>
fwdVars   == <<rx, arrived, pending, fwd, copies>>
txVars    == <<txq, snd>>
vars      == <<scoutVars, mc, prune, fwdVars, txVars>>

----------------------------------------------------------------------------
\* Locks

\* Mutant: iter() with a cloned key instead of iter_mut(), no lock is held
EndpointNotLocked(p) == FALSE

\* The pruner holds the lock of the stale endpoint it visits
EndpointLocked(p) == prune.pc \in {"purge", "sweep"} /\ prune.ep = p

\* The subscription list on which the forwarder holds a read guard
Guarded == {t \in Patterns : \/ (fwd.pc = "typed" /\ t = TypeOf[fwd.msg])
                             \/ (fwd.pc = "star" /\ t = Wildcard)}

\* Mutant: the forwarder iterates over the list without a guard
SubscriptionsNotLocked(t) == FALSE

\* Nobody can write the list under the pattern t
SubscriptionsLocked(t) == t \in Guarded

\* Mutant: an unbounded channel
TxUnbounded == TRUE

\* mpsc::Sender::send waits for room
TxRoom == Len(txq) < TxCap

\* Mutant: the patterns are not compared
LookupAny(t) == UNION {subscriptions[u] : u \in Patterns}

\* subscriptions.get
Lookup(t) == subscriptions[t]

McIdle    == [pc |-> "idle", src |-> Nobody, todo |-> {}]
PruneIdle == [pc |-> "idle", ep |-> Nobody, todo |-> {}, left |-> {}]
FwdIdle   == [pc |-> "idle", msg |-> Nobody, todo |-> {}]
SndIdle   == [msg |-> Nobody, dst |-> Nobody]

Init ==
  /\ endpoints = {}
  /\ age = [p \in Peers |-> 0]
  /\ subscribe = [p \in Peers |-> {}]
  /\ subscriptions = [t \in Patterns |-> {}]
  /\ mc = McIdle
  /\ prune = PruneIdle
  /\ rx = Nobody
  /\ arrived = {}
  /\ pending = {}
  /\ fwd = FwdIdle
  /\ txq = <<>>
  /\ snd = SndIdle
  /\ copies = [m \in Msgs |-> [t \in Patterns |-> [p \in Peers |-> 0]]]

----------------------------------------------------------------------------
\* Time

Tick ==
  /\ \E p \in endpoints : age[p] < MaxAge
  /\ age' = [p \in Peers |->
               IF p \in endpoints /\ age[p] < MaxAge THEN age[p] + 1 ELSE age[p]]
  /\ UNCHANGED <<endpoints, subscribe, subscriptions, mc, prune, fwdVars, txVars>>

----------------------------------------------------------------------------
\* Multicast receiver: handle_multicast_packet

RecvAlive(p, subs) ==
  /\ mc.pc = "idle"
  /\ mc' = [pc |-> "insert", src |-> p, todo |-> subs]
  /\ UNCHANGED <<scoutVars, prune, fwdVars, txVars>>

InsertEndpoint ==
  /\ mc.pc = "insert"
  /\ ~EndpointLocked(mc.src)
  /\ endpoints' = endpoints \cup {mc.src}
  /\ age' = [age EXCEPT ![mc.src] = 0]
  /\ subscribe' = [subscribe EXCEPT ![mc.src] = mc.todo]
  /\ mc' = IF mc.todo = {} THEN McIdle ELSE [mc EXCEPT !.pc = "subscribe"]
  /\ UNCHANGED <<subscriptions, prune, fwdVars, txVars>>

AddSubscription(t) ==
  /\ mc.pc = "subscribe"
  /\ t \in mc.todo
  /\ ~SubscriptionsLocked(t)
  /\ subscriptions' = [subscriptions EXCEPT ![t] = @ \cup {mc.src}]
  /\ mc' = IF mc.todo = {t} THEN McIdle ELSE [mc EXCEPT !.todo = @ \ {t}]
  /\ UNCHANGED <<endpoints, age, subscribe, prune, fwdVars, txVars>>

----------------------------------------------------------------------------
\* Pruner: iterate over the endpoints, then retain the fresh ones

PruneStart ==
  /\ prune.pc = "idle"
  /\ prune' = [PruneIdle EXCEPT !.pc = "iterate", !.todo = Peers]
  /\ UNCHANGED <<scoutVars, mc, fwdVars, txVars>>

Stale(p) == p \in endpoints /\ age[p] >= PeerTimeout

PruneVisit(p) ==
  /\ prune.pc = "iterate"
  /\ p \in prune.todo
  /\ prune' = IF Stale(p)
              THEN [pc |-> "purge", ep |-> p, todo |-> prune.todo \ {p}, left |-> Patterns]
              ELSE [prune EXCEPT !.todo = @ \ {p}]
  /\ UNCHANGED <<scoutVars, mc, fwdVars, txVars>>

PrunePurge(t) ==
  /\ prune.pc = "purge"
  /\ t \in prune.left
  /\ ~SubscriptionsLocked(t)
  /\ subscriptions' = [subscriptions EXCEPT ![t] = @ \ {prune.ep}]
  /\ prune' = IF prune.left = {t}
              THEN [prune EXCEPT !.pc = "sweep", !.left = Patterns]
              ELSE [prune EXCEPT !.left = @ \ {t}]
  /\ UNCHANGED <<endpoints, age, subscribe, mc, fwdVars, txVars>>

\* subscriptions.retain drops the keys with no destination left: the model
\* does not tell them from absent keys, but the pass takes every lock.
PruneSweep(t) ==
  /\ prune.pc = "sweep"
  /\ t \in prune.left
  /\ ~SubscriptionsLocked(t)
  /\ prune' = IF prune.left = {t}
              THEN [prune EXCEPT !.pc = "iterate", !.ep = Nobody, !.left = {}]
              ELSE [prune EXCEPT !.left = @ \ {t}]
  /\ UNCHANGED <<scoutVars, mc, fwdVars, txVars>>

\* Mutant: the pass ends without endpoints.retain
PruneNotRetained ==
  /\ prune.pc = "iterate"
  /\ prune.todo = {}
  /\ prune' = PruneIdle
  /\ UNCHANGED <<scoutVars, mc, fwdVars, txVars>>

PruneIterated ==
  /\ prune.pc = "iterate"
  /\ prune.todo = {}
  /\ prune' = [prune EXCEPT !.pc = "retain", !.todo = Peers]
  /\ UNCHANGED <<scoutVars, mc, fwdVars, txVars>>

\* endpoints.retain reads the clock again
PruneRetain(p) ==
  /\ prune.pc = "retain"
  /\ p \in prune.todo
  /\ IF Stale(p)
     THEN /\ endpoints' = endpoints \ {p}
          /\ age' = [age EXCEPT ![p] = 0]
          /\ subscribe' = [subscribe EXCEPT ![p] = {}]
     ELSE UNCHANGED <<endpoints, age, subscribe>>
  /\ prune' = IF prune.todo = {p} THEN PruneIdle ELSE [prune EXCEPT !.todo = @ \ {p}]
  /\ UNCHANGED <<subscriptions, mc, fwdVars, txVars>>

----------------------------------------------------------------------------
\* Unicast receiver and handler tasks

ReceivePacket(m) ==
  /\ rx = Nobody
  /\ m \notin arrived
  /\ rx' = m
  /\ arrived' = arrived \cup {m}
  /\ UNCHANGED <<scoutVars, mc, prune, pending, fwd, copies, txVars>>

\* generic_handlers is free, or the receiver waits
SpawnHandler ==
  /\ rx # Nobody
  /\ fwd.pc = "idle"
  /\ pending' = pending \cup {rx}
  /\ rx' = Nobody
  /\ UNCHANGED <<scoutVars, mc, prune, arrived, fwd, copies, txVars>>

\* the scheduler chooses which spawned task locks generic_handlers first
StartHandler(m) ==
  /\ m \in pending
  /\ fwd.pc = "idle"
  /\ pending' = pending \ {m}
  /\ fwd' = IF TypeOf[m] = NoType THEN FwdIdle
            ELSE [pc |-> "typed", msg |-> m, todo |-> Lookup(TypeOf[m])]
  /\ UNCHANGED <<scoutVars, mc, prune, rx, arrived, copies, txVars>>

ForwardTo(p, t) ==
  /\ t \in Guarded
  /\ p \in fwd.todo
  /\ TxRoom
  /\ txq' = Append(txq, [msg |-> fwd.msg, dst |-> p])
  /\ fwd' = [fwd EXCEPT !.todo = @ \ {p}]
  /\ copies' = [copies EXCEPT ![fwd.msg][t][p] = @ + 1]
  /\ UNCHANGED <<scoutVars, mc, prune, rx, arrived, pending, snd>>

LookupWildcard ==
  /\ fwd.pc = "typed"
  /\ fwd.todo = {}
  /\ fwd' = [fwd EXCEPT !.pc = "star", !.todo = Lookup(Wildcard)]
  /\ UNCHANGED <<scoutVars, mc, prune, rx, arrived, pending, copies, txVars>>

FinishHandler ==
  /\ fwd.pc = "star"
  /\ fwd.todo = {}
  /\ fwd' = FwdIdle
  /\ UNCHANGED <<scoutVars, mc, prune, rx, arrived, pending, copies, txVars>>

----------------------------------------------------------------------------
\* Unicast sender

\* Mutant: the sender waits for generic_handlers before it receives
PopTxHandlersFree ==
  /\ snd = SndIdle
  /\ fwd.pc = "idle"
  /\ txq # <<>>
  /\ snd' = Head(txq)
  /\ txq' = Tail(txq)
  /\ UNCHANGED <<scoutVars, mc, prune, fwdVars>>

PopTx ==
  /\ snd = SndIdle
  /\ txq # <<>>
  /\ snd' = Head(txq)
  /\ txq' = Tail(txq)
  /\ UNCHANGED <<scoutVars, mc, prune, fwdVars>>

\* Mutant: an unknown endpoint ends the sender's loop
SendKnownOnly ==
  /\ snd # SndIdle
  /\ ~EndpointLocked(snd.dst)
  /\ snd.dst \in endpoints
  /\ snd' = SndIdle
  /\ UNCHANGED <<scoutVars, mc, prune, fwdVars, txq>>

\* sent to the endpoint's address, or dropped when the name is unknown
SendDatagram ==
  /\ snd # SndIdle
  /\ ~EndpointLocked(snd.dst)
  /\ snd' = SndIdle
  /\ UNCHANGED <<scoutVars, mc, prune, fwdVars, txq>>

----------------------------------------------------------------------------
McStep      == InsertEndpoint \/ \E t \in Patterns : AddSubscription(t)
PruneStep   == \/ PruneStart \/ PruneIterated
               \/ \E p \in Peers : PruneVisit(p) \/ PruneRetain(p)
               \/ \E t \in Patterns : PrunePurge(t) \/ PruneSweep(t)
HandlerStep == SpawnHandler \/ \E m \in Msgs : StartHandler(m)
FwdStep     == \/ LookupWildcard \/ FinishHandler
               \/ \E p \in Peers, t \in Patterns : ForwardTo(p, t)
SenderStep  == PopTx \/ SendDatagram

Next ==
  \/ Tick
  \/ \E p \in Peers, subs \in Announced : RecvAlive(p, subs)
  \/ McStep
  \/ PruneStep
  \/ \E m \in Msgs : ReceivePacket(m)
  \/ HandlerStep
  \/ FwdStep
  \/ SenderStep

Spec == Init /\ [][Next]_vars

\* Tokio keeps running every task that is not blocked, and a shard lock that
\* is free again and again is granted to the task that waits for it.  Nothing
\* more is assumed: neither that time passes nor that packets arrive.
Fairness ==
  /\ SF_vars(McStep)
  /\ SF_vars(PruneStep)
  /\ WF_vars(HandlerStep)
  /\ WF_vars(FwdStep)
  /\ SF_vars(SenderStep)

LiveSpec == Spec /\ Fairness

----------------------------------------------------------------------------
\* Properties

TypeOK ==
  /\ endpoints \subseteq Peers
  /\ age \in [Peers -> 0..MaxAge]
  /\ subscribe \in [Peers -> SUBSET Patterns]
  /\ subscriptions \in [Patterns -> SUBSET Peers]
  /\ mc \in [pc : {"idle", "insert", "subscribe"},
             src : Peers \cup {Nobody}, todo : SUBSET Patterns]
  /\ prune \in [pc : {"idle", "iterate", "purge", "sweep", "retain"},
                ep : Peers \cup {Nobody}, todo : SUBSET Peers, left : SUBSET Patterns]
  /\ rx \in Msgs \cup {Nobody}
  /\ arrived \subseteq Msgs
  /\ pending \subseteq Msgs
  /\ fwd \in [pc : {"idle", "typed", "star"}, msg : Msgs \cup {Nobody}, todo : SUBSET Peers]
  /\ txq \in Seq(Entries) /\ Len(txq) <= TxCap
  /\ snd \in Entries \cup {SndIdle}
  /\ copies \in [Msgs -> [Patterns -> [Peers -> Nat]]]

\* What each task knows of the others' state, beyond its type
TasksOK ==
  /\ mc.pc # "idle" => mc.src \in Peers
  /\ prune.pc \in {"purge", "sweep"} => Stale(prune.ep)
  /\ fwd.pc # "idle" => fwd.msg \in Msgs /\ TypeOf[fwd.msg] \in Events

\* A live peer's patterns are listed or still on the receiver's list
FreshListedOrPending ==
  \A p \in endpoints : age[p] < PeerTimeout =>
    \A t \in subscribe[p] :
      p \in subscriptions[t] \/ (mc.pc = "subscribe" /\ mc.src = p /\ t \in mc.todo)

\* A peer heard from within PEER_TIMEOUT is listed under every pattern of its
\* last Alive, unless the multicast receiver is still listing it: the pruner
\* never takes a subscription from a peer that came back while it worked.
FreshEndpointsSubscribed ==
  \A p \in endpoints :
    age[p] < PeerTimeout /\ ~(mc.pc = "subscribe" /\ mc.src = p)
      => \A t \in subscribe[p] : p \in subscriptions[t]

\* While the forwarder works through a subscription list, everybody it still
\* has to serve is on the list: the read guard keeps the pruner off it.
ForwardOnlyToSubscribers ==
  \A t \in Guarded : fwd.todo \subseteq subscriptions[t]

\* A packet is in one place at a time, and a pattern it was not yet looked up
\* under has no copies.
HandledOnce ==
  /\ pending \subseteq arrived
  /\ rx # Nobody => rx \in arrived \ pending
  /\ fwd.pc # "idle" => fwd.msg \in arrived \ pending /\ fwd.msg # rx
  /\ \A m \in Msgs : m \notin arrived \/ m = rx \/ m \in pending
       => \A t \in Patterns, p \in Peers : copies[m][t][p] = 0
  /\ fwd.pc = "typed" => \A p \in Peers : copies[fwd.msg][Wildcard][p] = 0

\* The inductive invariant behind the two properties above
IInv == TypeOK /\ TasksOK /\ FreshListedOrPending /\ ForwardOnlyToSubscribers

\* The broker is a publish/subscribe service: for the observer who counts a
\* packet as routed when the forwarder looks a pattern up, every lookup
\* routes the packet, once, to exactly the subscribers of that moment.
routed == [m \in Msgs |-> [t \in Patterns |-> [p \in Peers |->
             copies[m][t][p] + IF fwd.msg = m /\ t \in Guarded /\ p \in fwd.todo THEN 1 ELSE 0]]]
PS == INSTANCE PubSub WITH copies <- routed
RoutesLikePubSub == PS!Spec

\* What the comment above the purge says the pruner does: when an endpoint is
\* forgotten no subscription is left with it as destination.
ForgottenLeavesNoSubscription ==
  [][\A p \in endpoints \ endpoints' : \A t \in Patterns : p \notin subscriptions[t]]_vars

Handled(m) == m \in arrived /\ rx # m /\ m \notin pending /\ fwd.msg # m

\* Every packet the broker takes off its socket is forwarded to the end.
EveryPacketHandled == \A m \in Msgs : m \in arrived ~> Handled(m)

\* The forwarder waits for the sender with a list's guard, the pruner waits for
\* the list with an endpoint's lock, and the sender waits for the endpoint.
Cycle ==
  /\ Guarded \cap prune.left # {} /\ fwd.todo # {} /\ ~TxRoom
  /\ snd # SndIdle /\ EndpointLocked(snd.dst)

\* Nobody breaks the cycle: whatever arrives and however time passes, from then
\* on the same packet holds the handlers, no other is started, the unicast
\* receiver takes at most one more, nothing leaves the queue and no endpoint is
\* forgotten.
CycleIsForEver ==
  [][Cycle => /\ Cycle'
              /\ UNCHANGED <<pending, fwd, txVars>>
              /\ rx \in {Nobody, rx'}
              /\ endpoints \subseteq endpoints']_vars

\* That cycle is all that can stop the broker: in every other case, however full
\* tx_queue is and whoever times out, every packet is handled, every silent peer
\* is forgotten (unless it is heard from again), and tx_queue drains.
PacketsHandledUnlessCycle == \A m \in Msgs : m \in arrived ~> Handled(m) \/ Cycle
SilentForgottenUnlessCycle == \A p \in Peers : Stale(p) ~> ~Stale(p) \/ Cycle
QueueDrainsUnlessCycle == txq # <<>> ~> txq = <<>> \/ Cycle
=============================================================================
