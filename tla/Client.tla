------------------------------- MODULE Client -------------------------------
(***************************************************************************)
(* The pub/sub client of esp_no_std, an MQTT-SN client on a serial line,   *)
(* with the actors that main wires to it: uart, pubsub and sys are futures *)
(* of one task.  A wake-up polls them in this order, each until it has to  *)
(* wait; they meet in bounded queues that drop what does not fit.  The LED *)
(* actor, polled between pubsub and sys, gives nothing back.               *)
(*                                                                         *)
(* The gateway at the other end is external: it may lose a message, forget *)
(* the session, or end it.  A poll is short: the world outside is seen to  *)
(* move only while the task sleeps, at the beginning of a round.           *)
(***************************************************************************)
EXTENDS Naturals, Sequences

CONSTANTS
  CmdCap,      \* the client's command queue, 3 in the code
  TxCap,       \* the uart's, 5
  MaxPings,    \* pings that may stay unanswered, 3
  SysBurst,    \* what sys publishes when its timer expires, 3 messages
  AckBurst,    \* what a ConnAck makes the client send, 3 messages
  LineCap      \* bound: messages on their way when the gateway sends one of its own

ASSUME ClientAssumption ==
  /\ CmdCap \in Nat \ {0} /\ TxCap \in Nat \ {0}
  /\ MaxPings \in Nat /\ SysBurst \in Nat /\ AckBurst \in Nat
  /\ LineCap \in Nat \ {0}

Timers == {"ping", "connect", "sys"}

VARIABLES
  turn,     \* the future that is polled
  state,    \* PubSubActor.state
  pings,    \* ping_timeouts, counted up to MaxPings + 2
  cmdq,     \* the client's commands: received messages, and sys's publishes
  txq,      \* the uart's commands
  writing,  \* the message the uart waits to have written, or none
  down,     \* messages from the gateway that were not read yet
  due,      \* the timers of pubsub and sys that have expired
  session   \* whether the gateway has a session with the client

vars == <<turn, state, pings, cmdq, txq, writing, down, due, session>>

\* Messages that only take up room: Subscribe, Register, Publish and PubAck, with
\* whatever the gateway answers to them.  Each stands for itself in the queues.
Other     == "Other"
Others(n) == [i \in 1..n |-> Other]
NoMsg     == "none"

Init ==
  /\ turn = "uart"
  /\ state = "Disconnected" /\ pings = 0
  /\ cmdq = <<>> /\ txq = <<"Connect">> /\ writing = NoMsg /\ down = <<>>
  /\ due = {}
  /\ session = FALSE

Lower(a, b) == IF a < b THEN a ELSE b

\* Mutant: an unbounded queue
OfferAll(q, msgs, cap) == q \o msgs
\* DynSender.send is try_send: what finds the queue full is logged and dropped
Offer(q, msgs, cap) == q \o SubSeq(msgs, 1, Lower(Len(msgs), cap - Len(q)))

Txd(msgs) == txq' = Offer(txq, msgs, TxCap)

----------------------------------------------------------------------------
\* Outside: time and the gateway (external)

Outside == turn = "uart" /\ UNCHANGED <<turn, state, pings, cmdq, txq>>

\* Nothing is assumed of the timers' periods
Expire(id) ==
  /\ Outside
  /\ id \notin due
  /\ due' = due \cup {id}
  /\ UNCHANGED <<writing, down, session>>

Answers(m) ==
  CASE m = "Connect" -> {<<"ConnAck">>}
    [] m = "PingReq" -> {IF session THEN <<"PingResp">> ELSE <<>>}
    [] m = Other -> {<<>>, <<Other>>}
    [] m = "Disconnect" -> {<<>>}

GatewayEnds ==
  /\ Outside
  /\ session /\ Len(down) < LineCap
  /\ session' = FALSE
  /\ down' = Append(down, "Disconnect")
  /\ UNCHANGED <<writing, due>>

GatewayForgets ==
  /\ Outside
  /\ session
  /\ session' = FALSE
  /\ UNCHANGED <<writing, down, due>>

LoseDown ==
  /\ Outside
  /\ down # <<>>
  /\ down' = Tail(down)
  /\ UNCHANGED <<writing, due, session>>

Written ==
  /\ Outside
  /\ writing # NoMsg
  /\ writing' = NoMsg
  /\ UNCHANGED due

GatewayReceives ==
  /\ Written
  /\ \E answer \in Answers(writing) :
       down' = down \o answer
  /\ session' = (writing = "Connect" \/ (session /\ writing # "Disconnect"))

\* a publish or a registration of the gateway
GatewaySends ==
  /\ Outside
  /\ session /\ Len(down) < LineCap
  /\ down' = Append(down, Other)
  /\ UNCHANGED <<writing, due, session>>

LoseUp == Written /\ UNCHANGED <<down, session>>

----------------------------------------------------------------------------
\* UartActor: bytes or a command, and neither while it writes.  What has arrived is
\* read first; a message still under way is read later, and bound: no more than
\* LineCap are when a command is taken.

UartRead(k) ==
  /\ turn = "uart" /\ writing = NoMsg
  /\ cmdq' = Offer(cmdq, SubSeq(down, 1, k), CmdCap)
  /\ down' = SubSeq(down, k + 1, Len(down))
  /\ UNCHANGED <<turn, state, pings, txq, writing, due, session>>

UartTake ==
  /\ turn = "uart" /\ writing = NoMsg
  /\ txq # <<>> /\ Len(down) <= LineCap
  /\ writing' = Head(txq) /\ txq' = Tail(txq)
  /\ turn' = "pubsub"
  /\ UNCHANGED <<state, pings, cmdq, down, due, session>>

UartWaits ==
  /\ turn = "uart"
  /\ txq = <<>> \/ writing # NoMsg
  /\ turn' = "pubsub"
  /\ UNCHANGED <<state, pings, cmdq, txq, writing, down, due, session>>

----------------------------------------------------------------------------
\* PubSubActor: commands before timers

Command(op) ==
  /\ turn = "pubsub"
  /\ cmdq # <<>> /\ Head(cmdq) = op
  /\ cmdq' = Tail(cmdq)
  /\ UNCHANGED <<turn, writing, down, due, session>>

OnConnAck ==
  /\ Command("ConnAck")
  /\ state' = "Connected"
  /\ Txd(Others(AckBurst))
  /\ UNCHANGED pings

\* Mutant: a PingResp counts only while connected
OnPingRespConnected ==
  /\ Command("PingResp")
  /\ pings' = IF state = "Connected" THEN 0 ELSE pings
  /\ Txd(Others(1))
  /\ UNCHANGED state
OnPingResp ==
  /\ Command("PingResp")
  /\ pings' = 0
  /\ Txd(Others(1))
  /\ UNCHANGED state

OnDisconnect ==
  /\ Command("Disconnect")
  /\ state' = "Disconnected"
  /\ UNCHANGED <<pings, txq>>

\* sys's publish, the gateway's or one it refused: something is sent; an
\* acknowledgement or a registration: nothing
OnOther ==
  /\ Command(Other)
  /\ Txd(Others(1)) \/ UNCHANGED txq
  /\ UNCHANGED <<state, pings>>

Timer(id) ==
  /\ turn = "pubsub"
  /\ cmdq = <<>>
  /\ id \in due
  /\ due' = due \ {id}
  /\ UNCHANGED <<turn, cmdq, writing, down, session>>

\* Mutant: the connection is given up without counting the last ping
OnPingTimerUncounted ==
  /\ Timer("ping")
  /\ IF state = "Connected" THEN Txd(<<"PingReq">>) ELSE UNCHANGED txq
  /\ UNCHANGED <<state, pings>>
OnPingTimer ==
  /\ Timer("ping")
  /\ IF state # "Connected" THEN UNCHANGED <<state, pings, txq>>
     ELSE /\ pings' = Lower(pings + 1, MaxPings + 2)
          /\ IF pings + 1 > MaxPings
             THEN Txd(<<"PingReq", "Disconnect">>) /\ state' = "Disconnected"
             ELSE Txd(<<"PingReq">>) /\ UNCHANGED state

\* alarm returns the timer it has slept for, or the one of the lowest id when it is
\* called and some have expired already: either of two may come first
OnConnectTimer ==
  /\ Timer("connect")
  /\ IF state = "Disconnected" THEN Txd(<<"Connect">>) ELSE UNCHANGED txq
  /\ UNCHANGED <<state, pings>>

PubSubWaits ==
  /\ turn = "pubsub"
  /\ cmdq = <<>> /\ due \subseteq {"sys"}
  /\ turn' = "sys"
  /\ UNCHANGED <<state, pings, cmdq, txq, writing, down, due, session>>

----------------------------------------------------------------------------
\* Sys

SysTurn ==
  /\ turn = "sys"
  /\ turn' = "uart"
  /\ cmdq' = IF "sys" \in due THEN Offer(cmdq, Others(SysBurst), CmdCap) ELSE cmdq
  /\ due' = due \ {"sys"}
  /\ UNCHANGED <<state, pings, txq, writing, down, session>>

PubSubStep == \/ OnConnAck \/ OnPingResp \/ OnDisconnect \/ OnOther
              \/ OnPingTimer \/ OnConnectTimer \/ PubSubWaits
ReadStep == \E k \in 1..Len(down) : UartRead(k)
TurnStep == UartTake \/ UartWaits \/ PubSubStep \/ SysTurn

Next ==
  \/ \E id \in Timers : Expire(id)
  \/ GatewayEnds \/ GatewayForgets \/ LoseDown \/ LoseUp
  \/ ReadStep \/ GatewayReceives \/ GatewaySends \/ TurnStep

Spec == Init /\ [][Next]_vars

\* The task is woken again and again, time passes, what is written gets written
\* and what arrives is read.
LiveSpec ==
  /\ Spec
  /\ WF_vars(TurnStep) /\ SF_vars(Expire("ping")) /\ SF_vars(Expire("connect"))
  /\ SF_vars(GatewayReceives \/ LoseUp) /\ SF_vars(ReadStep \/ LoseDown)

----------------------------------------------------------------------------
\* Properties

Sent     == {"Connect", "PingReq", "Disconnect", Other}
Received == {"ConnAck", "PingResp", "Disconnect", Other}

TypeOK ==
  /\ turn \in {"uart", "pubsub", "sys"}
  /\ state \in {"Disconnected", "Connected"} /\ pings \in 0..(MaxPings + 2)
  /\ cmdq \in Seq(Received) /\ Len(cmdq) <= CmdCap
  /\ txq \in Seq(Sent) /\ Len(txq) <= TxCap
  /\ writing \in Sent \cup {NoMsg}
  /\ down \in Seq(Received) /\ Len(down) <= LineCap + (IF writing = NoMsg THEN 1 ELSE 0)
  /\ due \subseteq Timers
  /\ session \in BOOLEAN

\* A gateway that never answers a ping any more is noticed, again and again:
\* its other messages do not keep the connection alive.
SilenceNoticed ==
  <>[][~OnPingResp]_vars => []<>(state = "Disconnected")

Quiet == cmdq = <<>> /\ txq = <<>> /\ writing = NoMsg /\ down = <<>>
Overflows(n) == Len(txq) + n > TxCap
Dropped ==
  \/ \E k \in 1..Len(down) : UartRead(k) /\ Len(cmdq) + k > CmdCap
  \/ SysTurn /\ "sys" \in due /\ Len(cmdq) + SysBurst > CmdCap
  \/ OnConnAck /\ Overflows(AckBurst)
  \/ (OnPingResp \/ OnOther) /\ Overflows(1)
  \/ OnPingTimer /\ state = "Connected" /\ Overflows(IF pings + 1 > MaxPings THEN 2 ELSE 1)
  \/ OnConnectTimer /\ state = "Disconnected" /\ Overflows(1)
Trouble == \/ GatewayEnds \/ GatewayForgets \/ LoseDown \/ LoseUp \/ Dropped
           \/ Expire("ping") /\ ~Quiet

\* When from some time on no message is lost, the gateway keeps its sessions, no
\* queue drops anything and a ping finds queues and line empty, so that the answer
\* to the one before has come, the client connects and stays connected, although
\* ping_timeouts keeps its old value when the client connects: the PingResp that
\* comes after the Disconnect resets it.
Recovers ==
  <>[][~Trouble]_vars => <>[](state = "Connected" /\ session)
=============================================================================
