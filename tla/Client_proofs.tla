---------------------------- MODULE Client_proofs ----------------------------
(***************************************************************************)
(* Type correctness of Client, for any queues, bursts and ping limit: what *)
(* is dropped is what does not fit, and every queue keeps to its capacity  *)
(* whoever offers what to it.                                              *)
(***************************************************************************)
EXTENDS Client, SequenceTheorems, TLAPS

(***************************************************************************)
(* Queues                                                                  *)
(***************************************************************************)

\* What is offered to a queue is taken in order as far as there is room
LEMMA Offered ==
  ASSUME NEW M, NEW q \in Seq(M), NEW msgs \in Seq(M), NEW cap \in Nat, Len(q) <= cap
  PROVE  Offer(q, msgs, cap) \in Seq(M) /\ Len(Offer(q, msgs, cap)) <= cap
<1> DEFINE n == Lower(Len(msgs), cap - Len(q))
           t == SubSeq(msgs, 1, n)
<1>1. Len(q) \in Nat /\ Len(msgs) \in Nat
  BY LenProperties
<1>2. n \in 0..Len(msgs) /\ Len(q) + n <= cap
  BY <1>1 DEF Lower
<1> HIDE DEF n
<1>3. t \in Seq(M) /\ Len(t) = n
  BY <1>1, <1>2, SubSeqProperties
<1> HIDE DEF t
<1>4. q \o t \in Seq(M) /\ Len(q \o t) = Len(q) + Len(t)
  BY <1>3, ConcatProperties
<1>5. Offer(q, msgs, cap) = q \o t
  BY DEF Offer, t, n
<1> QED
  BY <1>1, <1>2, <1>3, <1>4, <1>5

LEMMA Messages ==
  /\ <<"Connect">> \in Seq(Sent) /\ <<"PingReq">> \in Seq(Sent)
  /\ <<"PingReq", "Disconnect">> \in Seq(Sent)
  /\ \A n \in Nat : Others(n) \in Seq(Sent) /\ Others(n) \in Seq(Received)
BY DEF Others, Sent, Received

LEMMA Constants ==
  /\ CmdCap \in Nat /\ CmdCap >= 1 /\ TxCap \in Nat /\ TxCap >= 1
  /\ LineCap \in Nat /\ LineCap >= 1
  /\ MaxPings \in Nat /\ SysBurst \in Nat /\ AckBurst \in Nat
BY ClientAssumption DEF ClientAssumption

(***************************************************************************)
(* The invariant, queue by queue                                           *)
(***************************************************************************)
Cmdq == cmdq \in Seq(Received) /\ Len(cmdq) <= CmdCap
Txq  == txq \in Seq(Sent) /\ Len(txq) <= TxCap
Down == down \in Seq(Received) /\ Len(down) <= LineCap + (IF writing = NoMsg THEN 1 ELSE 0)
Rest ==
  /\ turn \in {"uart", "pubsub", "sys"}
  /\ state \in {"Disconnected", "Connected"}
  /\ pings \in 0..(MaxPings + 2)
  /\ writing \in Sent \cup {NoMsg}
  /\ due \subseteq Timers
  /\ session \in BOOLEAN

LEMMA Parts == TypeOK <=> Cmdq /\ Txq /\ Down /\ Rest
BY Zenon DEF TypeOK, Cmdq, Txq, Down, Rest

LEMMA InitTypes == Init => TypeOK
<1> SUFFICES ASSUME Init PROVE TypeOK
  OBVIOUS
<1>1. Cmdq /\ Down
  BY Constants, EmptySeq DEF Init, Cmdq, Down
<1>2. Txq
  <2>1. txq = <<"Connect">> /\ Len(txq) = 1
    BY DEF Init
  <2> QED
    BY <2>1, Messages, Constants DEF Txq
<1>3. Rest
  <2>1. pings \in 0..(MaxPings + 2)
    BY Constants DEF Init
  <2>2. /\ turn = "uart" /\ state = "Disconnected" /\ writing = NoMsg
        /\ due = {} /\ session = FALSE
    BY DEF Init
  <2> QED
    BY <2>1, <2>2 DEF Rest
<1> QED
  BY <1>1, <1>2, <1>3, Parts

\* The client sends: its messages are kept or dropped
LEMMA Sends ==
  ASSUME Txq, NEW msgs \in Seq(Sent), Txd(msgs)
  PROVE  Txq'
BY Offered, Constants DEF Txd, Txq

\* A message of the gateway comes behind those on the line
LEMMA Arrives ==
  ASSUME Down, NEW m \in Received, Len(down) < LineCap, down' = Append(down, m)
  PROVE  Down'
<1>1. Len(down) \in Nat /\ LineCap \in Nat
  BY LenProperties, Constants DEF Down
<1>2. down' \in Seq(Received) /\ Len(down') = Len(down) + 1
  BY AppendProperties DEF Down
<1> QED
  BY <1>1, <1>2 DEF Down

LEMMA AnswersType ==
  ASSUME NEW m \in Sent, NEW answer \in Answers(m)
  PROVE  answer \in Seq(Received) /\ Len(answer) <= 1
<1>1. /\ <<"ConnAck">> \in Seq(Received) /\ <<"PingResp">> \in Seq(Received)
      /\ <<Other>> \in Seq(Received) /\ <<>> \in Seq(Received)
  BY DEF Received
<1>2. answer \in {<<"ConnAck">>, <<"PingResp">>, <<Other>>, <<>>}
  BY DEF Answers, Sent, Other
<1>3. CASE answer = <<>>
  <2>1. Len(answer) = 0
    BY <1>3
  <2> QED
    BY <1>1, <1>3, <2>1
<1>4. ASSUME NEW a, answer = <<a>> PROVE Len(answer) <= 1
  <2>1. Len(answer) = 1
    BY <1>4
  <2> QED
    BY <2>1
<1>5. CASE answer # <<>>
  BY <1>1, <1>2, <1>4, <1>5
<1> QED
  BY <1>3, <1>5

----------------------------------------------------------------------------
\* Time, line and gateway

LEMMA OutsideTypes ==
  ASSUME TypeOK, \/ \E id \in Timers : Expire(id)
                 \/ GatewayEnds \/ GatewayForgets \/ LoseDown \/ LoseUp
                 \/ GatewayReceives \/ GatewaySends
  PROVE  TypeOK'
<1>1. Cmdq /\ Txq /\ Down /\ Rest
  BY Parts
<1>2. UNCHANGED <<turn, state, pings, cmdq, txq>>
  BY DEF Expire, GatewayEnds, GatewayForgets, LoseDown, LoseUp, GatewayReceives, GatewaySends,
     Written, Outside
<1>3. Cmdq' /\ Txq'
  BY <1>1, <1>2 DEF Cmdq, Txq
<1>4. writing' \in Sent \cup {NoMsg}
  BY <1>1 DEF Rest, Expire, GatewayEnds, GatewayForgets, LoseDown, LoseUp, GatewayReceives,
     GatewaySends, Written
<1>5. due' \subseteq Timers
  BY <1>1 DEF Rest, Expire, GatewayEnds, GatewayForgets, LoseDown, LoseUp, GatewayReceives,
     GatewaySends, Written
<1>6. session' \in BOOLEAN
  BY <1>1 DEF Rest, Expire, GatewayEnds, GatewayForgets, LoseDown, LoseUp, GatewayReceives,
     GatewaySends, Written
<1>7. Down'
  <2>1. CASE GatewayEnds
    BY <1>1, <2>1, Arrives DEF GatewayEnds, Received
  <2>2. CASE GatewaySends
    BY <1>1, <2>2, Arrives DEF GatewaySends, Received
  <2>3. CASE LoseDown
    <3>1. down' \in Seq(Received) /\ Len(down') = Len(down) - 1 /\ Len(down) \in Nat
      BY <1>1, <2>3, HeadTailProperties, LenProperties DEF LoseDown, Down
    <3> QED
      BY <1>1, <3>1, Constants DEF Down
  <2>4. CASE GatewayReceives
    <3>1. PICK answer \in Answers(writing) : down' = down \o answer
      BY <2>4 DEF GatewayReceives
    <3>2. writing \in Sent /\ writing # NoMsg /\ writing' = NoMsg
      BY <1>1, <2>4 DEF Rest, GatewayReceives, Written
    <3>3. answer \in Seq(Received) /\ Len(answer) \in Nat /\ Len(answer) <= 1
      BY <3>2, AnswersType, LenProperties
    <3>4. down' \in Seq(Received) /\ Len(down') = Len(down) + Len(answer)
      BY <1>1, <3>1, <3>3, ConcatProperties DEF Down
    <3>5. Len(down) \in Nat /\ Len(down) <= LineCap
      BY <1>1, <3>2, LenProperties, Constants DEF Down
    <3> QED
      BY <3>2, <3>3, <3>4, <3>5, Constants DEF Down
  <2>5. CASE UNCHANGED down /\ (writing' = writing \/ writing' = NoMsg)
    <3>1. Len(down) \in Nat
      BY <1>1, LenProperties DEF Down
    <3> QED
      BY <1>1, <2>5, <3>1, Constants DEF Down
  <2> QED
    BY <2>1, <2>2, <2>3, <2>4, <2>5 DEF Expire, GatewayForgets, LoseUp, Written
<1>8. Rest'
  BY <1>1, <1>2, <1>4, <1>5, <1>6 DEF Rest
<1> QED
  BY <1>3, <1>7, <1>8, Parts, PTL

----------------------------------------------------------------------------
\* The three futures

LEMMA UartTypes ==
  ASSUME TypeOK, ReadStep \/ UartTake \/ UartWaits
  PROVE  TypeOK'
<1>1. Cmdq /\ Txq /\ Down /\ Rest
  BY Parts
<1>2. CASE ReadStep
  <2>1. PICK k \in 1..Len(down) : UartRead(k)
    BY <1>2 DEF ReadStep
  <2> DEFINE read == SubSeq(down, 1, k)
             left == SubSeq(down, k + 1, Len(down))
  <2>2. down \in Seq(Received) /\ Len(down) \in Nat /\ k \in 1..Len(down)
    BY <1>1, <2>1, LenProperties DEF Down
  <2>3. read \in Seq(Received)
    BY <2>2, SubSeqProperties
  <2>4. left \in Seq(Received) /\ Len(left) = Len(down) - k
    BY <2>2, SubSeqProperties
  <2>5. cmdq' = Offer(cmdq, read, CmdCap) /\ down' = left
    BY <2>1 DEF UartRead
  <2> HIDE DEF read, left
  <2>6. Cmdq'
    BY <1>1, <2>3, <2>5, Offered, Constants DEF Cmdq
  <2>7. Down'
    BY <1>1, <2>2, <2>4, <2>5, Constants DEF Down
  <2>8. UNCHANGED <<turn, state, pings, txq, writing, due, session>>
    BY <2>1 DEF UartRead
  <2>9. Txq' /\ Rest'
    BY <1>1, <2>8 DEF Txq, Rest
  <2> QED
    BY <2>6, <2>7, <2>9, Parts, PTL
<1>3. CASE UartTake
  <2>1. txq \in Seq(Sent) /\ txq # <<>> /\ Len(txq) <= TxCap
    BY <1>1, <1>3 DEF Txq, UartTake
  <2>2. Head(txq) \in Sent /\ Tail(txq) \in Seq(Sent) /\ Len(Tail(txq)) = Len(txq) - 1
    BY <2>1, HeadTailProperties
  <2>3. writing' \in Sent /\ txq' \in Seq(Sent) /\ Len(txq') = Len(txq) - 1
    BY <1>3, <2>2 DEF UartTake
  <2>4. Txq'
    BY <2>1, <2>3, LenProperties, Constants DEF Txq
  <2>5. turn' = "pubsub" /\ UNCHANGED <<state, pings, cmdq, down, due, session>>
    BY <1>3 DEF UartTake
  <2>6. Cmdq' /\ Down'
    <3>1. Len(down) \in Nat /\ Len(down) <= LineCap
      BY <1>1, <1>3, LenProperties DEF Down, UartTake
    <3> QED
      BY <1>1, <2>5, <3>1, Constants DEF Cmdq, Down
  <2>7. Rest'
    BY <1>1, <2>3, <2>5 DEF Rest
  <2> QED
    BY <2>4, <2>6, <2>7, Parts, PTL
<1>4. CASE UartWaits
  <2>1. turn' = "pubsub" /\ UNCHANGED <<state, pings, cmdq, txq, writing, down, due, session>>
    BY <1>4 DEF UartWaits
  <2>2. Cmdq' /\ Txq' /\ Down' /\ Rest'
    BY <1>1, <2>1 DEF Cmdq, Txq, Down, Rest
  <2> QED
    BY <2>2, Parts, PTL
<1> QED
  BY <1>2, <1>3, <1>4

\* A command is taken from its queue; what it makes of state and pings is a value
\* of their types, and what it sends goes to the uart's queue
LEMMA Handled ==
  ASSUME TypeOK, NEW op, Command(op), Txq',
         state' \in {"Disconnected", "Connected"}, pings' \in 0..(MaxPings + 2)
  PROVE  TypeOK'
<1>1. Cmdq /\ Down /\ Rest
  BY Parts
<1>2. UNCHANGED <<turn, writing, down, due, session>>
  BY DEF Command
<1>3. Cmdq'
  <2>1. cmdq \in Seq(Received) /\ cmdq # <<>> /\ cmdq' = Tail(cmdq)
    BY <1>1 DEF Command, Cmdq
  <2>2. cmdq' \in Seq(Received) /\ Len(cmdq') = Len(cmdq) - 1 /\ Len(cmdq) \in Nat
    BY <2>1, HeadTailProperties, LenProperties
  <2> QED
    BY <1>1, <2>2, Constants DEF Cmdq
<1>4. Down' /\ Rest'
  BY <1>1, <1>2 DEF Down, Rest
<1> QED
  BY <1>3, <1>4, Parts, PTL

\* The same of a timer
LEMMA TimerHandled ==
  ASSUME TypeOK, NEW id, Timer(id), Txq',
         state' \in {"Disconnected", "Connected"}, pings' \in 0..(MaxPings + 2)
  PROVE  TypeOK'
<1>1. Cmdq /\ Down /\ Rest
  BY Parts
<1>2. due' = due \ {id} /\ UNCHANGED <<turn, cmdq, writing, down, session>>
  BY DEF Timer
<1>3. Cmdq' /\ Down' /\ Rest'
  BY <1>1, <1>2 DEF Cmdq, Down, Rest
<1> QED
  BY <1>3, Parts, PTL

LEMMA PubSubTypes ==
  ASSUME TypeOK, PubSubStep
  PROVE  TypeOK'
<1>1. Cmdq /\ Txq /\ Down /\ Rest
  BY Parts
<1>2. state \in {"Disconnected", "Connected"} /\ pings \in 0..(MaxPings + 2)
  BY <1>1 DEF Rest
<1>3. ASSUME UNCHANGED txq PROVE Txq'
  BY <1>1, <1>3 DEF Txq
<1>4. 0 \in 0..(MaxPings + 2) /\ Others(1) \in Seq(Sent) /\ Others(AckBurst) \in Seq(Sent)
  BY Messages, Constants
<1>5. CASE OnConnAck
  <2>1. Txq'
    BY <1>1, <1>4, <1>5, Sends DEF OnConnAck
  <2> QED
    BY <1>2, <1>5, <2>1, Handled DEF OnConnAck
<1>6. CASE OnPingResp
  <2>1. Txq'
    BY <1>1, <1>4, <1>6, Sends DEF OnPingResp
  <2> QED
    BY <1>2, <1>4, <1>6, <2>1, Handled DEF OnPingResp
<1>7. CASE OnDisconnect
  BY <1>2, <1>3, <1>7, Handled DEF OnDisconnect
<1>8. CASE OnOther
  <2>1. Txq'
    BY <1>1, <1>3, <1>4, <1>8, Sends DEF OnOther
  <2> QED
    BY <1>2, <1>8, <2>1, Handled DEF OnOther
<1>9. CASE OnPingTimer
  <2>1. Timer("ping")
    BY <1>9 DEF OnPingTimer
  <2>2. CASE state # "Connected"
    <3>1. UNCHANGED <<state, pings, txq>>
      BY <1>9, <2>2 DEF OnPingTimer
    <3> QED
      BY <1>2, <1>3, <2>1, <3>1, TimerHandled
  <2>3. CASE state = "Connected"
    <3>1. pings' = Lower(pings + 1, MaxPings + 2)
      BY <1>9, <2>3 DEF OnPingTimer
    <3>2. pings' \in 0..(MaxPings + 2)
      BY <1>2, <3>1, Constants DEF Lower
    <3>3. /\ state' = "Disconnected" \/ state' = state
          /\ Txd(<<"PingReq", "Disconnect">>) \/ Txd(<<"PingReq">>)
      BY <1>9, <2>3 DEF OnPingTimer
    <3>4. Txq'
      BY <1>1, <3>3, Messages, Sends
    <3> QED
      BY <1>2, <2>1, <3>2, <3>3, <3>4, TimerHandled
  <2> QED
    BY <2>2, <2>3
<1>10. CASE OnConnectTimer
  <2>1. Timer("connect") /\ UNCHANGED <<state, pings>>
    BY <1>10 DEF OnConnectTimer
  <2>2. Txd(<<"Connect">>) \/ UNCHANGED txq
    BY <1>10 DEF OnConnectTimer
  <2>3. Txq'
    BY <1>1, <1>3, <2>2, Messages, Sends
  <2> QED
    BY <1>2, <2>1, <2>3, TimerHandled
<1>11. CASE PubSubWaits
  <2>1. turn' = "sys" /\ UNCHANGED <<state, pings, cmdq, txq, writing, down, due, session>>
    BY <1>11 DEF PubSubWaits
  <2>2. Cmdq' /\ Txq' /\ Down' /\ Rest'
    BY <1>1, <2>1 DEF Cmdq, Txq, Down, Rest
  <2> QED
    BY <2>2, Parts, PTL
<1> QED
  BY <1>5, <1>6, <1>7, <1>8, <1>9, <1>10, <1>11 DEF PubSubStep

LEMMA SysTypes ==
  ASSUME TypeOK, SysTurn
  PROVE  TypeOK'
<1>1. Cmdq /\ Txq /\ Down /\ Rest
  BY Parts
<1>2. /\ turn' = "uart" /\ due' = due \ {"sys"}
      /\ UNCHANGED <<state, pings, txq, writing, down, session>>
  BY DEF SysTurn
<1>3. cmdq' = Offer(cmdq, Others(SysBurst), CmdCap) \/ cmdq' = cmdq
  BY DEF SysTurn
<1>4. Others(SysBurst) \in Seq(Received)
  BY Messages, Constants
<1>5. Cmdq'
  BY <1>1, <1>3, <1>4, Offered, Constants DEF Cmdq
<1>6. Txq' /\ Down' /\ Rest'
  BY <1>1, <1>2 DEF Txq, Down, Rest
<1> QED
  BY <1>5, <1>6, Parts, PTL

(***************************************************************************)
(* The result                                                              *)
(***************************************************************************)

\* No queue holds more than its capacity, however long the bursts offered to it, and
\* ping_timeouts stays within the range the model counts.
THEOREM TypeCorrect == Spec => []TypeOK
<1>1. TypeOK /\ [Next]_vars => TypeOK'
  <2> SUFFICES ASSUME TypeOK, [Next]_vars PROVE TypeOK'
    OBVIOUS
  <2>1. CASE UNCHANGED vars
    BY <2>1 DEF vars, TypeOK
  <2> QED
    BY <2>1, OutsideTypes, UartTypes, PubSubTypes, SysTypes DEF Next, TurnStep
<1> QED
  BY <1>1, InitTypes, PTL DEF Spec
=============================================================================
