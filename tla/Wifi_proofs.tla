---------------------------- MODULE Wifi_proofs ----------------------------
(***************************************************************************)
(* Type correctness of Wifi, and that the driver is abandoned only when    *)
(* every retry is spent and the flag follows the driver, for every retry   *)
(* limit and bus.                                                          *)
(*                                                                         *)
(* Neither property is inductive: both speak of an empty event queue.  The *)
(* invariant describes the five queues there can be, and for each of them  *)
(* how the driver, the retry counter and the outage stand to each other.   *)
(***************************************************************************)
EXTENDS Wifi, SequenceTheorems, TLAPS

Start == <<"STA_START">>
Lost  == <<"STA_DISCONNECTED">>
Got   == <<"GOT_IP">>
GotAndLost == <<"GOT_IP", "STA_DISCONNECTED">>

Types ==
  /\ start \in {"scan", "rescan", "connect", "done"}
  /\ driver \in {"off", "idle", "trying", "associated", "online"}
  /\ events \in {<<>>, Start, Lost, Got, GotAndLost}
  /\ retries \in 0..MaxRetry
  /\ connected \in BOOLEAN
  /\ bus \in Seq({"WifiConnected", "WifiDisconnected"}) /\ Len(bus) <= BusCap
  /\ outage \in 0..(MaxRetry + 1)

Drained ==
  events = <<>> =>
    /\ connected <=> driver = "online"
    /\ driver \in {"off", "online"} => retries = 0 /\ outage = 0
    /\ driver \in {"trying", "associated"} => outage = retries
    /\ driver = "idle" => outage = MaxRetry + 1

Pending ==
  /\ events = Start => driver = "idle" /\ retries = 0 /\ outage = 0 /\ ~connected
  /\ events = Lost => driver = "idle" /\ outage = retries + 1
  /\ events = Got => driver = "online" /\ outage = 0
  /\ events = GotAndLost => driver = "idle" /\ outage = 1

NotStarted == start # "done" => driver = "off" /\ events = <<>>

IInv == Types /\ Drained /\ Pending /\ NotStarted

(***************************************************************************)
(* The queues                                                              *)
(***************************************************************************)
LEMMA Heads ==
  /\ Head(Start) = "STA_START" /\ Head(Lost) = "STA_DISCONNECTED"
  /\ Head(Got) = "GOT_IP" /\ Head(GotAndLost) = "GOT_IP"
<1>2. Head(Start) = "STA_START"
  BY DEF Start
<1>3. Head(Lost) = "STA_DISCONNECTED"
  BY DEF Lost
<1>4. Head(Got) = "GOT_IP"
  BY DEF Got
<1>5. Head(GotAndLost) = "GOT_IP"
  BY DEF GotAndLost
<1> QED
  BY <1>2, <1>3, <1>4, <1>5

LEMMA Tails ==
  /\ Tail(Start) = <<>> /\ Tail(Lost) = <<>> /\ Tail(Got) = <<>>
  /\ Tail(GotAndLost) = Lost
<1>1. Tail(Start) = <<>>
  BY DEF Start
<1>2. Tail(Lost) = <<>>
  BY DEF Lost
<1>3. Tail(Got) = <<>>
  BY DEF Got
<1>4. Tail(GotAndLost) = Lost
  BY DEF GotAndLost, Lost
<1> QED
  BY <1>1, <1>2, <1>3, <1>4

LEMMA AppendPair ==
  ASSUME NEW E, NEW e \in E, NEW f \in E, NEW s \in Seq(E), NEW t \in Seq(E),
         Len(s) = 1, s[1] = e, Len(t) = 2, t[1] = e, t[2] = f
  PROVE  Append(s, f) = t
<1> DEFINE r == Append(s, f)
<1>1. r \in Seq(E)
  BY AppendProperties
<1>2. Len(r) = Len(s) + 1
  BY AppendProperties, ZenonT(60)
<1>3. \A i \in 1..Len(s) : r[i] = s[i]
  BY AppendProperties, SMTT(60)
<1>4. r[Len(s) + 1] = f
  BY AppendProperties
<1> HIDE DEF r
<1>5. Len(r) = Len(t) /\ \A i \in 1..Len(t) : r[i] = t[i]
  BY <1>2, <1>3, <1>4
<1> QED
  BY <1>1, <1>5, SeqEqual DEF r

LEMMA Appends ==
  /\ Append(<<>>, "GOT_IP") = Got
  /\ Append(<<>>, "STA_DISCONNECTED") = Lost
  /\ Append(Got, "STA_DISCONNECTED") = GotAndLost
<1>1. Append(<<>>, "GOT_IP") = Got
  BY DEF Got
<1>2. Append(<<>>, "STA_DISCONNECTED") = Lost
  BY DEF Lost
<1>3. Append(Got, "STA_DISCONNECTED") = GotAndLost
  <2> DEFINE E == {"GOT_IP", "STA_DISCONNECTED"}
  <2>1. Got \in Seq(E) /\ Len(Got) = 1 /\ Got[1] = "GOT_IP"
    BY DEF Got
  <2>2. /\ GotAndLost \in Seq(E) /\ Len(GotAndLost) = 2
        /\ GotAndLost[1] = "GOT_IP" /\ GotAndLost[2] = "STA_DISCONNECTED"
    BY DEF GotAndLost
  <2>3. "GOT_IP" \in E /\ "STA_DISCONNECTED" \in E
    OBVIOUS
  <2> HIDE DEF E
  <2> QED
    BY <2>1, <2>2, <2>3, AppendPair
<1> QED
  BY <1>1, <1>2, <1>3

LEMMA Lengths ==
  Len(<<>>) = 0 /\ Len(Start) = 1 /\ Len(Lost) = 1 /\ Len(Got) = 1 /\ Len(GotAndLost) = 2
BY DEF Start, Lost, Got, GotAndLost

LEMMA Distinct ==
  /\ Start # <<>> /\ Lost # <<>> /\ Got # <<>> /\ GotAndLost # <<>>
  /\ Start # Lost /\ Start # Got /\ Start # GotAndLost
  /\ Lost # Got /\ Lost # GotAndLost /\ Got # GotAndLost
BY DEF Start, Lost, Got, GotAndLost

\* A push keeps the bus a sequence of messages within its room.
LEMMA EmitType ==
  ASSUME Types, NEW m \in {"WifiConnected", "WifiDisconnected"}, Emit(m)
  PROVE  bus' \in Seq({"WifiConnected", "WifiDisconnected"}) /\ Len(bus') <= BusCap
BY WifiAssumption DEF Types, Emit

(***************************************************************************)
(* The invariant                                                           *)
(***************************************************************************)
LEMMA InitIInv == Init => IInv
<1> SUFFICES ASSUME Init
             PROVE  IInv
  OBVIOUS
<1>1. bus \in Seq({"WifiConnected", "WifiDisconnected"}) /\ Len(bus) <= BusCap
  BY WifiAssumption DEF Init
<1>2. retries \in 0..MaxRetry /\ outage \in 0..(MaxRetry + 1)
  BY WifiAssumption DEF Init
<1>3. Types
  BY <1>1, <1>2 DEF Init, Types
<1> QED
  BY <1>3, Distinct DEF Init, IInv, Drained, Pending, NotStarted

LEMMA NextIInv == IInv /\ [Next]_vars => IInv'
<1> SUFFICES ASSUME IInv, [Next]_vars
             PROVE  IInv'
  OBVIOUS
<1> USE WifiAssumption, Distinct DEF IInv
<1>1. CASE ScanOk
  BY <1>1 DEF ScanOk, Types, Drained, Pending, NotStarted
<1>2. CASE ScanFails
  BY <1>2 DEF ScanFails, Types, Drained, Pending, NotStarted
<1>3. CASE RescanAborts
  BY <1>3 DEF RescanAborts, Types, Drained, Pending, NotStarted
<1>4. CASE Connect
  <2>1. events' = Start /\ driver' = "idle" /\ start' = "done"
    BY <1>4 DEF Connect, Start
  <2>2. retries' = 0 /\ outage' = 0 /\ ~connected'
    BY <1>4 DEF Connect, Drained, NotStarted
  <2> QED
    BY <1>4, <2>1, <2>2 DEF Connect, Types, Drained, Pending, NotStarted
<1>5. CASE ConnectFails
  BY <1>5 DEF ConnectFails, Types, Drained, Pending, NotStarted
<1>6. CASE Associate
  BY <1>6 DEF Associate, Types, Drained, Pending, NotStarted
<1>7. CASE GotIp
  <2>1. events = <<>>
    BY <1>7 DEF GotIp, Types, Pending
  <2>2. events' = Got /\ driver' = "online" /\ outage' = 0
    BY <1>7, <2>1, Appends DEF GotIp
  <2> QED
    BY <1>7, <2>1, <2>2 DEF GotIp, Types, Drained, Pending, NotStarted
<1>8. CASE LinkLost
  <2>1. CASE events = <<>>
    <3>1. events' = Lost /\ driver' = "idle"
      BY <1>8, <2>1, Appends DEF LinkLost
    <3>2. outage = retries
      BY <1>8, <2>1 DEF LinkLost, Drained
    <3>3. outage' = retries' + 1 /\ outage' \in 0..(MaxRetry + 1)
      BY <1>8, <3>2 DEF LinkLost, Types
    <3> QED
      BY <1>8, <2>1, <3>1, <3>3 DEF LinkLost, Types, Drained, Pending, NotStarted
  <2>2. CASE events = Got
    <3>1. events' = GotAndLost /\ driver' = "idle"
      BY <1>8, <2>2, Appends DEF LinkLost
    <3>2. outage' = 1
      BY <1>8, <2>2 DEF LinkLost, Pending
    <3>3. start = "done" /\ UNCHANGED <<start, retries, connected, bus>>
      BY <1>8, <2>2 DEF LinkLost, NotStarted
    <3>4. Types'
      BY <3>1, <3>2, <3>3 DEF Types
    <3> QED
      BY <3>1, <3>2, <3>3, <3>4 DEF Drained, Pending, NotStarted
  <2> QED
    BY <1>8, <2>1, <2>2 DEF LinkLost, Types, Pending
<1>9. CASE OnStaStart
  <2>1. events = Start
    BY <1>9, Heads DEF OnStaStart, OnEvent, Types
  <2>2. events' = <<>> /\ driver' = "trying"
    BY <1>9, <2>1, Tails DEF OnStaStart, OnEvent
  <2> QED
    BY <1>9, <2>1, <2>2 DEF OnStaStart, Types, Drained, Pending, NotStarted
<1>10. CASE OnStaDisconnected
  <2>1. events = Lost
    BY <1>10, Heads DEF OnStaDisconnected, OnEvent, Types
  <2>2. events' = <<>> /\ connected' = FALSE /\ UNCHANGED <<start, outage>>
    BY <1>10, <2>1, Tails DEF OnStaDisconnected, OnEvent
  <2>3. driver = "idle" /\ outage = retries + 1 /\ start = "done"
    BY <2>1 DEF Pending, NotStarted
  <2>4. \/ driver' = "trying" /\ retries' = retries + 1 /\ retries < MaxRetry
        \/ driver' = "idle" /\ retries' = retries /\ retries = MaxRetry
    BY <1>10, <2>3 DEF OnStaDisconnected, Retry, Types
  <2>5. bus' \in Seq({"WifiConnected", "WifiDisconnected"}) /\ Len(bus') <= BusCap
    BY <1>10, EmitType DEF OnStaDisconnected
  <2>6. retries' \in 0..MaxRetry /\ driver' \in {"trying", "idle"}
    BY <2>4 DEF Types
  <2>7. Types'
    BY <2>2, <2>5, <2>6 DEF Types
  <2> QED
    BY <2>2, <2>3, <2>4, <2>7 DEF Types, Drained, Pending, NotStarted
<1>11. CASE OnGotIp
  <2>1. events \in {Got, GotAndLost}
    BY <1>11, Heads DEF OnGotIp, OnEvent, Types
  <2>2. connected' = TRUE /\ retries' = 0 /\ UNCHANGED <<start, driver, outage>>
    BY <1>11 DEF OnGotIp
  <2>3. bus' \in Seq({"WifiConnected", "WifiDisconnected"}) /\ Len(bus') <= BusCap
    BY <1>11, EmitType DEF OnGotIp
  <2>4. \/ events = Got /\ events' = <<>>
        \/ events = GotAndLost /\ events' = Lost
    BY <1>11, <2>1, Tails DEF OnGotIp, OnEvent
  <2>5. Types'
    BY <2>2, <2>3, <2>4 DEF Types
  <2> QED
    BY <2>2, <2>4, <2>5 DEF Types, Drained, Pending, NotStarted
<1>12. CASE Dispatch
  <2>1. bus' \in Seq({"WifiConnected", "WifiDisconnected"}) /\ Len(bus') <= BusCap
    BY <1>12 DEF Dispatch, Types
  <2> QED
    BY <1>12, <2>1 DEF Dispatch, Types, Drained, Pending, NotStarted
<1>13. CASE UNCHANGED vars
  BY <1>13 DEF vars, Types, Drained, Pending, NotStarted
<1> QED
  BY <1>1, <1>2, <1>3, <1>4, <1>5, <1>6, <1>7, <1>8, <1>9, <1>10, <1>11, <1>12, <1>13
     DEF Next, StartStep, DriverStep, HandlerStep

LEMMA Invariance == Spec => []IInv
BY InitIInv, NextIInv, PTL DEF Spec

(***************************************************************************)
(* The results                                                             *)
(***************************************************************************)

LEMMA Typed == IInv => TypeOK
<1> SUFFICES ASSUME IInv PROVE TypeOK
  OBVIOUS
<1>1. events \in Seq({"STA_START", "STA_DISCONNECTED", "GOT_IP"}) /\ Len(events) <= 2
  <2>1. \/ events = <<>> \/ events = Start \/ events = Lost
        \/ events = Got \/ events = GotAndLost
    BY DEF IInv, Types
  <2>2. CASE events = <<>>
    BY <2>2
  <2>3. CASE events = Start
    BY <2>3 DEF Start
  <2>4. CASE events = Lost
    BY <2>4 DEF Lost
  <2>5. CASE events = Got
    BY <2>5 DEF Got
  <2>6. CASE events = GotAndLost
    BY <2>6 DEF GotAndLost
  <2> QED
    BY <2>1, <2>2, <2>3, <2>4, <2>5, <2>6
<1> QED
  BY <1>1 DEF IInv, Types, TypeOK

LEMMA Spent == IInv => GivesUpOnlyWhenSpent
BY DEF IInv, Drained, GivesUpOnlyWhenSpent, GivenUp

LEMMA Agrees == IInv => SettledAgrees
BY DEF IInv, Drained, SettledAgrees

\* The state is well-typed; no more than two driver events wait.
THEOREM TypeCorrect == Spec => []TypeOK
BY Typed, Invariance, PTL

\* event_handler leaves the driver idle for good only after MaxRetry retries
\* since the last address.
THEOREM SpentFirst == Spec => []GivesUpOnlyWhenSpent
BY Spent, Invariance, PTL

\* _wifi_connected is the driver's state whenever no event is pending.
THEOREM FlagFollowsDriver == Spec => []SettledAgrees
BY Agrees, Invariance, PTL
=============================================================================
