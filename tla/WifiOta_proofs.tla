--------------------------- MODULE WifiOta_proofs ---------------------------
(***************************************************************************)
(* The Wi-Fi actor and the updater, for any retry limit, any bus, any      *)
(* sessions and images: the updater ends on the side of the link its last  *)
(* message says, and the updater in the system is the Ota of the module    *)
(* Ota, so what is proved there holds here.                                *)
(***************************************************************************)
EXTENDS WifiOta, Wifi_proofs

Messages == {"WifiConnected", "WifiDisconnected"}

\* A message still on the bus decides; once all are delivered, the handle does.
LastWord == IF bus = <<>> THEN handle ELSE bus[Len(bus)] = "WifiConnected"

LinkInv ==
  /\ bus \in Seq(Messages) /\ Len(bus) <= BusCap
  /\ connected \in BOOLEAN /\ handle \in BOOLEAN
  /\ ~handle => task = "none"
  /\ ~lost => (LastWord <=> connected)

LEMMA InitLink == SystemInit => LinkInv
<1> SUFFICES ASSUME SystemInit PROVE LinkInv
  OBVIOUS
<1>1. bus = <<>> /\ bus \in Seq(Messages)
  BY DEF SystemInit, Init
<1>2. Len(bus) <= BusCap
  BY <1>1, WifiAssumption DEF WifiAssumption
<1>3. connected = FALSE /\ handle = FALSE /\ task = "none"
  BY DEF SystemInit, Init, O!Init
<1> QED
  BY <1>1, <1>2, <1>3, Zenon DEF LinkInv, LastWord

LEMMA BusLengths == ASSUME LinkInv PROVE Len(bus) \in Nat /\ BusCap \in Nat /\ BusCap >= 1
BY LenProperties, WifiAssumption DEF LinkInv, WifiAssumption

\* event_handler sets the flag and sends the message in one step
LEMMA Emitted ==
  ASSUME LinkInv, NEW m \in Messages, Emit(m),
         connected' <=> m = "WifiConnected",
         Len(bus) = BusCap => lost'
  PROVE  /\ bus' \in Seq(Messages) /\ Len(bus') <= BusCap
         /\ ~lost' => (LastWord' <=> connected')
<1>1. bus \in Seq(Messages) /\ Len(bus) \in Nat /\ BusCap \in Nat /\ Len(bus) <= BusCap
  BY BusLengths DEF LinkInv
<1>2. CASE Len(bus) < BusCap
  <2>1. bus' = Append(bus, m)
    BY <1>2 DEF Emit
  <2>2. /\ bus' \in Seq(Messages) /\ Len(bus') = Len(bus) + 1
        /\ bus'[Len(bus) + 1] = m
    BY <2>1, <1>1, AppendProperties
  <2>3. bus' # <<>> /\ bus'[Len(bus')] = m /\ Len(bus') <= BusCap
    BY <2>2, <1>1, <1>2
  <2> QED
    BY <2>2, <2>3 DEF LastWord
<1>3. CASE Len(bus) = BusCap
  <2>1. bus' = bus
    BY <1>3, <1>1 DEF Emit
  <2> QED
    BY <2>1, <1>1, <1>3
<1> QED
  BY <1>1, <1>2, <1>3

LEMMA EventLink == ASSUME LinkInv, EventStep PROVE LinkInv'
<1>1. /\ handle' = handle /\ task' = task
      /\ lost' = (lost \/ Len(bus) = BusCap)
  BY DEF EventStep, otaVars
<1>2. (Len(bus) = BusCap => lost') /\ (~lost' => ~lost)
  BY <1>1
<1>3. CASE OnStaStart
  <2>1. bus' = bus /\ connected' = connected
    BY <1>3 DEF OnStaStart
  <2> QED
    BY <2>1, <1>1, <1>2 DEF LinkInv, LastWord
<1>4. CASE OnStaDisconnected
  <2>1. Emit("WifiDisconnected") /\ connected' = FALSE
    BY <1>4 DEF OnStaDisconnected
  <2>2. "WifiDisconnected" \in Messages /\ "WifiDisconnected" # "WifiConnected"
    BY DEF Messages
  <2>3. bus' \in Seq(Messages) /\ Len(bus') <= BusCap /\ (~lost' => (LastWord' <=> connected'))
    BY <2>1, <2>2, <1>2, Emitted
  <2> QED
    BY <2>1, <2>3, <1>1 DEF LinkInv
<1>5. CASE OnGotIp
  <2>1. Emit("WifiConnected") /\ connected' = TRUE
    BY <1>5 DEF OnGotIp
  <2>2. "WifiConnected" \in Messages
    BY DEF Messages
  <2>3. bus' \in Seq(Messages) /\ Len(bus') <= BusCap /\ (~lost' => (LastWord' <=> connected'))
    BY <2>1, <2>2, <1>2, Emitted
  <2> QED
    BY <2>1, <2>3, <1>1 DEF LinkInv
<1> QED
  BY <1>3, <1>4, <1>5 DEF EventStep, HandlerStep

\* The actor does as the message says: before its successor is delivered
LEMMA Delivered ==
  ASSUME LinkInv, bus # <<>>, bus' = Tail(bus), UNCHANGED <<connected, lost>>,
         handle' \in BOOLEAN, handle' <=> Head(bus) = "WifiConnected",
         ~handle' => task' = "none"
  PROVE  LinkInv'
<1>1. bus \in Seq(Messages) /\ Len(bus) \in Nat /\ Len(bus) <= BusCap /\ BusCap \in Nat
  BY BusLengths DEF LinkInv
<1>2. Len(bus) # 0
  BY <1>1, EmptySeq
<1>3. /\ bus' \in Seq(Messages) /\ Len(bus') = Len(bus) - 1
      /\ \A i \in 1..Len(bus') : bus'[i] = bus[i + 1]
      /\ Head(bus) = bus[1]
  BY <1>1, HeadTailProperties
<1>4. LastWord' <=> LastWord
  <2>1. LastWord <=> bus[Len(bus)] = "WifiConnected"
    BY DEF LastWord
  <2>2. CASE Len(bus) = 1
    <3>1. bus' = <<>>
      BY <2>2, <1>3, EmptySeq
    <3> QED
      BY <3>1, <2>1, <2>2, <1>3 DEF LastWord
  <2>3. CASE Len(bus) > 1
    <3>1. Len(bus') \in 1..Len(bus') /\ Len(bus') + 1 = Len(bus)
      BY <2>3, <1>1, <1>3
    <3>2. bus'[Len(bus')] = bus[Len(bus')+ 1]
      BY <3>1, <1>3
    <3>3. bus'[Len(bus')] = bus[Len(bus)]
      BY <3>1, <3>2
    <3>4. bus' # <<>>
      <4>1. Len(bus') # 0
        BY <2>3, <1>1, <1>3
      <4> QED
        BY <4>1, <1>3, EmptySeq
    <3> QED
      BY <3>3, <3>4, <2>1 DEF LastWord
  <2>4. Len(bus) = 1 \/ Len(bus) > 1
    <3>1. \A n \in Nat : n # 0 => n = 1 \/ n > 1
      OBVIOUS
    <3> QED
      BY <3>1, <1>1, <1>2, Zenon
  <2> QED
    BY <2>2, <2>3, <2>4
<1>5. Len(bus') <= BusCap
  BY <1>1, <1>3
<1> QED
  BY <1>3, <1>4, <1>5 DEF LinkInv

LEMMA DeliverLink ==
  ASSUME ~CallsFail, LinkInv, DeliverConnected \/ DeliverDisconnected
  PROVE  LinkInv'
<1>1. CASE DeliverConnected
  <2>1. /\ bus # <<>> /\ Head(bus) = "WifiConnected" /\ bus' = Tail(bus)
        /\ UNCHANGED <<connected, lost>> /\ O!WifiConnected
    BY <1>1 DEF DeliverConnected, Dispatch
  <2>2. O!StartTask
    BY <2>1 DEF O!WifiConnected
  <2>3. handle' \in BOOLEAN /\ handle'
    BY <2>2 DEF O!StartTask, LinkInv
  <2> QED
    BY <2>1, <2>3, Delivered
<1>2. CASE DeliverDisconnected
  <2>1. /\ bus # <<>> /\ Head(bus) = "WifiDisconnected" /\ bus' = Tail(bus)
        /\ UNCHANGED <<connected, lost>>
        /\ O!WifiDisconnected \/ O!DeleteDeletedTask
    BY <1>2 DEF DeliverDisconnected, Dispatch
  <2>2. handle' = FALSE /\ task' = "none"
    BY <2>1 DEF O!WifiDisconnected, O!DeleteDeletedTask, O!StopTask
  <2>3. ~(Head(bus) = "WifiConnected")
    BY <2>1
  <2>4. handle' \in BOOLEAN /\ ~handle'
    BY <2>2
  <2> QED
    BY <2>1, <2>2, <2>3, <2>4, Delivered
<1> QED
  BY <1>1, <1>2

\* The server task ends itself, but never begins without its handle
LEMMA ServeLink == ASSUME LinkInv, ServeStep PROVE LinkInv'
<1>1. UNCHANGED <<bus, connected, lost>>
  BY DEF ServeStep, vars
<1>2. handle' = handle /\ (task = "none" => task' = "none")
  BY DEF ServeStep, O!ServerStep, O!Bind, O!BindFails, O!Finalize, O!FinalizeFails, O!OnWrq,
    O!RefuseWrq, O!OnData, O!WriteFails, O!Unsupported, O!Serving, O!taskVars
<1> QED
  BY <1>1, <1>2 DEF LinkInv, LastWord

LEMMA UploadLink == ASSUME LinkInv, UploadStep PROVE LinkInv'
<1>1. UNCHANGED <<bus, connected, lost, handle, task>>
  BY DEF UploadStep, vars, O!ClientStep, O!ClientPut, O!ClientNext, O!ClientDone,
    O!ClientFails, O!taskVars
<1> QED
  BY <1>1 DEF LinkInv, LastWord

LEMMA RestartLink == ASSUME RebootAll \/ PanicAll PROVE LinkInv'
<1>1. bus' = <<>> /\ connected' = FALSE
  BY DEF RebootAll, PanicAll, RestartWifi
<1>2. handle' = FALSE /\ task' = "none"
  BY DEF RebootAll, PanicAll, O!Reboot, O!PanicOnDelete, O!Restart
<1>3. bus' \in Seq(Messages) /\ Len(bus') <= BusCap
  BY <1>1, WifiAssumption DEF WifiAssumption
<1> QED
  BY <1>1, <1>2, <1>3, Zenon DEF LinkInv, LastWord

LEMMA NextLink == ASSUME ~CallsFail PROVE LinkInv /\ [SystemNext]_allVars => LinkInv'
<1> SUFFICES ASSUME LinkInv, [SystemNext]_allVars PROVE LinkInv'
  OBVIOUS
<1>1. CASE UNCHANGED allVars
  BY <1>1 DEF allVars, vars, otaVars, LinkInv, LastWord
<1>2. CASE WifiStep
  <2>1. UNCHANGED <<bus, connected, handle, task, lost>>
    BY <1>2 DEF WifiStep, otaVars, StartStep, DriverStep, ScanOk, ScanFails, RescanAborts,
      Connect, ConnectFails, Associate, GotIp, LinkLost
  <2> QED
    BY <2>1 DEF LinkInv, LastWord
<1> QED
  BY <1>1, <1>2, EventLink, DeliverLink, ServeLink, UploadLink, RestartLink DEF SystemNext

\* When every message was accepted and has been delivered, the updater has a
\* handle exactly while the Wi-Fi is connected, and runs no task without one,
\* provided the task can be created.
THEOREM FollowsLink == ~CallsFail => (SystemSpec => []UpdaterFollowsLink)
<1> SUFFICES ASSUME ~CallsFail PROVE SystemSpec => []UpdaterFollowsLink
  OBVIOUS
<1>1. LinkInv => UpdaterFollowsLink
  BY DEF LinkInv, UpdaterFollowsLink, Settled, LastWord
<1>2. LinkInv /\ [SystemNext]_allVars => LinkInv'
  BY NextLink
<1> QED
  BY <1>1, <1>2, InitLink, PTL DEF SystemSpec

(***************************************************************************)
(* What is proved of the two actors alone holds in the system              *)
(***************************************************************************)
OtaProofs == INSTANCE Ota_proofs

\* The Wi-Fi actor in the system makes only its own steps, and is new after a restart
LEMMA SystemWifi == SystemSpec => []IInv
<1>1. SystemInit => IInv
  BY InitIInv DEF SystemInit
<1>2. IInv /\ [SystemNext]_allVars => IInv'
  <2> SUFFICES ASSUME IInv, [SystemNext]_allVars PROVE IInv'
    OBVIOUS
  <2>1. CASE [Next]_vars
    BY <2>1, NextIInv
  <2>2. CASE RebootAll \/ PanicAll
    <3>1. Init' => IInv'
      BY InitIInv, PTL
    <3>2. Init'
      BY <2>2 DEF RebootAll, PanicAll, RestartWifi, Init
    <3> QED
      BY <3>1, <3>2
  <2>3. [Next]_vars \/ RebootAll \/ PanicAll
    BY DEF SystemNext, allVars, WifiStep, EventStep, DeliverConnected, DeliverDisconnected,
       UploadStep, ServeStep, Next
  <2> QED
    BY <2>1, <2>2, <2>3
<1> QED
  BY <1>1, <1>2, PTL DEF SystemSpec

\* The state of the Wi-Fi actor is well-typed in the system too: the bus is emptied
\* whenever its messages are delivered, and all of it is lost in a restart.
THEOREM SystemTypes == SystemSpec => []TypeOK
BY SystemWifi, Typed, PTL

\* However the updater's uploads, panics and reboots come between, the driver is left
\* idle for good only when all retries of the outage were used.
THEOREM SystemSpent == SystemSpec => []GivesUpOnlyWhenSpent
BY SystemWifi, Spent, PTL

\* Nor do they set _wifi_connected apart from the driver.
THEOREM SystemFlag == SystemSpec => []SettledAgrees
BY SystemWifi, Agrees, PTL

\* The updater in the system makes only steps of the module Ota: joined to the
\* Wi-Fi actor and its messages, it keeps what it promises on its own.
THEOREM SystemIsOta == SystemSpec => O!Spec
<1>1. SystemInit => O!Init
  BY DEF SystemInit
<1>2. [SystemNext]_allVars => [O!Next]_(O!vars)
  <2> SUFFICES ASSUME [SystemNext]_allVars PROVE [O!Next]_(O!vars)
    OBVIOUS
  <2>1. ASSUME UNCHANGED otaVars PROVE [O!Next]_(O!vars)
    BY <2>1 DEF otaVars, O!vars, O!taskVars, O!otaVars, O!netVars
  <2>2. CASE WifiStep \/ EventStep \/ UNCHANGED allVars
    BY <2>1, <2>2 DEF WifiStep, EventStep, allVars
  <2>3. CASE DeliverConnected \/ DeliverDisconnected
    BY <2>3 DEF DeliverConnected, DeliverDisconnected, O!Next, O!ActorStep
  <2>4. CASE ServeStep \/ UploadStep
    BY <2>4 DEF UploadStep, ServeStep, O!Next
  <2>5. CASE RebootAll \/ PanicAll
    BY <2>5 DEF RebootAll, PanicAll, O!Next, O!ActorStep
  <2> QED
    BY <2>2, <2>3, <2>4, <2>5 DEF SystemNext
<1> QED
  BY <1>1, <1>2, PTL DEF SystemSpec, O!Spec

\* The same of the specification the theorems of Ota_proofs are about
LEMMA SystemIsProved == SystemSpec => OtaProofs!Spec
<1>1. O!Init => OtaProofs!Init
  BY DEF O!Init, OtaProofs!Init, O!NotSent, OtaProofs!NotSent, O!Blank, OtaProofs!Blank,
     O!Erased, OtaProofs!Erased
<1>2. [O!Next]_(O!vars) => [OtaProofs!Next]_(OtaProofs!vars)
  BY DEF O!StartTask, OtaProofs!StartTask, O!WifiConnected, OtaProofs!WifiConnected,
     O!Boots, OtaProofs!Boots, O!Restart, OtaProofs!Restart, O!StopTask, OtaProofs!StopTask,
     O!WifiDisconnected, OtaProofs!WifiDisconnected, O!DeletesFreed, OtaProofs!DeletesFreed,
     O!DeleteDeletedTask, OtaProofs!DeleteDeletedTask, O!PanicOnDelete,
     OtaProofs!PanicOnDelete, O!Bind, OtaProofs!Bind, O!BindFails, OtaProofs!BindFails,
     O!Serving, OtaProofs!Serving, O!Reply, OtaProofs!Reply, O!OnWrq, OtaProofs!OnWrq,
     O!RefuseWrq, OtaProofs!RefuseWrq, O!ExpectedBlock, OtaProofs!ExpectedBlock, O!OnData,
     OtaProofs!OnData, O!WriteFails, OtaProofs!WriteFails, O!Unsupported,
     OtaProofs!Unsupported, O!Verified, OtaProofs!Verified, O!Finalize, OtaProofs!Finalize,
     O!FinalizeFails, OtaProofs!FinalizeFails, O!Reboot, OtaProofs!Reboot, O!Send,
     OtaProofs!Send, O!ClientPut, OtaProofs!ClientPut, O!ClientNext, OtaProofs!ClientNext,
     O!ClientDone, OtaProofs!ClientDone, O!ClientFails, OtaProofs!ClientFails, O!ServerStep,
     OtaProofs!ServerStep, O!ClientStep, OtaProofs!ClientStep, O!ActorStep,
     OtaProofs!ActorStep, O!Next, OtaProofs!Next, O!Whole, OtaProofs!Whole, O!Erased,
     OtaProofs!Erased, O!Blank, OtaProofs!Blank, O!taskVars, OtaProofs!taskVars, O!otaVars,
     OtaProofs!otaVars, O!netVars, OtaProofs!netVars, O!vars, OtaProofs!vars, O!Wrq,
     OtaProofs!Wrq, O!Data, OtaProofs!Data, O!Ack, OtaProofs!Ack, O!Err, OtaProofs!Err,
     O!NotSent, OtaProofs!NotSent, O!Done, OtaProofs!Done, O!Failed, OtaProofs!Failed
<1> QED
  BY <1>1, <1>2, SystemIsOta, PTL DEF O!Spec, OtaProofs!Spec

LEMMA OtaConstants == OtaProofs!OtaAssumption
BY UploadAssumption DEF UploadAssumption, OtaProofs!OtaAssumption

\* However the Wi-Fi comes and goes and whichever calls fail, the partition holds the
\* blocks before the expected one, but for a beginning a refused write request erased.
THEOREM SystemPrefix == SystemSpec => []O!FlashIsPrefix
<1>1. OtaProofs!FlashIsPrefix <=> O!FlashIsPrefix
  BY DEF O!FlashIsPrefix, OtaProofs!FlashIsPrefix, O!Holds, OtaProofs!Holds,
     O!Erased, OtaProofs!Erased
<1>2. OtaProofs!Spec => []OtaProofs!FlashIsPrefix
  BY OtaConstants, OtaProofs!PrefixInFlash
<1> QED
  BY <1>1, <1>2, SystemIsProved, PTL

\* However outages and messages stop and start the updater, and whichever calls fail:
\* the image that was acknowledged to the end last boots, once it was found good.
THEOREM SystemKeeps == SystemSpec => []O!UploadKept
<1>1. OtaProofs!UploadKept <=> O!UploadKept
  BY DEF O!UploadKept, OtaProofs!UploadKept, O!Boots, OtaProofs!Boots,
     O!Whole, OtaProofs!Whole
<1>2. OtaProofs!Spec => []OtaProofs!UploadKept
  BY OtaConstants, OtaProofs!AcknowledgedBoots
<1> QED
  BY <1>1, <1>2, SystemIsProved, PTL
=============================================================================
