---------------------------- MODULE Ota_proofs ----------------------------
(***************************************************************************)
(* What reaches the spare partition and what is booted, for any number of   *)
(* sessions, images and blocks, with calls that fail, and however          *)
(* datagrams are delayed, repeated and reordered.                          *)
(***************************************************************************)
EXTENDS Ota, TLAPS

TaskTypes ==
  /\ handle \in BOOLEAN
  /\ task \in {"none", "starting", "serving", "finalizing", "rebooting"}
  /\ bound \in BOOLEAN
  /\ starts \in 0..MaxStarts /\ stops \in 0..MaxStops

Partition == [1..Blocks -> Written \cup {Erased}]
OtaTypes ==
  /\ expected \in 1..(Blocks + 1)
  /\ inProgress \in BOOLEAN
  /\ flash \in Partition /\ app \in Partition
  /\ boot \in {"running", "spare"}
  /\ refused \in BOOLEAN /\ ended \subseteq Sessions

NetTypes ==
  /\ rx \subseteq [op : {"WRQ", "DATA"}, s : Sessions, block : 0..Blocks]
  /\ tx \subseteq [op : {"ACK", "ERROR"}, s : Sessions, block : 0..Blocks]
  /\ client \in [Sessions -> 0..Failed]

IInv == TaskTypes /\ OtaTypes /\ NetTypes /\ FlashIsPrefix

LEMMA Initially == Init => IInv
<1> SUFFICES ASSUME Init PROVE IInv
  OBVIOUS
<1> USE OtaAssumption DEF OtaAssumption
<1>1. TaskTypes
  <2>1. handle = FALSE /\ task = "none" /\ bound = FALSE
    BY DEF Init
  <2>2. starts = 0 /\ stops = 0
    BY DEF Init
  <2>3. starts \in 0..MaxStarts /\ stops \in 0..MaxStops
    BY <2>2
  <2> QED
    BY <2>1, <2>3, Zenon DEF TaskTypes
<1>2. OtaTypes
  <2>1. inProgress = FALSE /\ refused = FALSE /\ ended = {} /\ boot = "running"
    BY DEF Init
  <2>2. expected = 1 /\ 1 \in 1..(Blocks + 1)
    BY DEF Init
  <2>3. Blank \in Partition
    BY DEF Blank, Partition
  <2>4. flash = Blank /\ app = Blank
    BY DEF Init
  <2> QED
    BY <2>1, <2>2, <2>3, <2>4 DEF OtaTypes
<1>3. NetTypes
  <2>1. rx = {} /\ tx = {} /\ client = [s \in Sessions |-> NotSent]
    BY DEF Init
  <2> QED
    BY <2>1 DEF NetTypes, NotSent, Failed
<1>4. FlashIsPrefix
  BY DEF Init, FlashIsPrefix
<1> QED
  BY <1>1, <1>2, <1>3, <1>4 DEF IInv

----------------------------------------------------------------------------
\* The task and its handle

LEMMA TaskTypesStep == TaskTypes /\ [Next]_vars => TaskTypes'
<1> SUFFICES ASSUME TaskTypes, [Next]_vars PROVE TaskTypes'
  OBVIOUS
<1> USE OtaAssumption DEF OtaAssumption, TaskTypes
<1>1. CASE WifiConnected
  <2>1. starts' \in 0..MaxStarts /\ UNCHANGED <<stops, bound>>
    BY <1>1 DEF WifiConnected
  <2>2. handle' \in BOOLEAN /\ task' \in {task, "starting"}
    BY <1>1, Zenon DEF WifiConnected, StartTask
  <2> QED
    BY <2>1, <2>2
<1>2. CASE WifiDisconnected \/ DeleteDeletedTask \/ PanicOnDelete
  <2>1. stops' \in 0..MaxStops /\ UNCHANGED starts
    BY <1>2 DEF WifiDisconnected, DeleteDeletedTask, PanicOnDelete, DeletesFreed
  <2>2. handle' = FALSE /\ task' = "none" /\ bound' \in {bound, FALSE}
    BY <1>2 DEF WifiDisconnected, DeleteDeletedTask, PanicOnDelete, StopTask, Restart
  <2> QED
    BY <2>1, <2>2, Zenon
<1>3. CASE Bind \/ BindFails \/ Finalize \/ FinalizeFails
  BY <1>3 DEF Bind, BindFails, Finalize, FinalizeFails
<1>4. ASSUME NEW s \in Sessions, OnWrq(s) \/ RefuseWrq(s) PROVE TaskTypes'
  BY <1>4 DEF OnWrq, RefuseWrq, taskVars
<1>5. ASSUME NEW s \in Sessions, NEW b \in 1..Blocks,
             OnData(s, b) \/ WriteFails(s, b) \/ Unsupported(s, b)
      PROVE TaskTypes'
  BY <1>5 DEF OnData, WriteFails, Unsupported, taskVars
<1>6. CASE Reboot
  BY <1>6 DEF Reboot, Restart
<1>7. ASSUME NEW s \in Sessions, ClientStep(s) PROVE TaskTypes'
  BY <1>7 DEF ClientStep, ClientPut, ClientNext, ClientDone, ClientFails, taskVars
<1>8. CASE UNCHANGED vars
  BY <1>8 DEF vars, taskVars
<1> QED
  BY <1>1, <1>2, <1>3, <1>4, <1>5, <1>6, <1>7, <1>8 DEF Next, ActorStep, ServerStep

----------------------------------------------------------------------------
\* The partition

\* A block that is written is the expected one and goes behind the others
LEMMA WrittenInOrder ==
  ASSUME TaskTypes, OtaTypes, FlashIsPrefix,
         NEW s \in Sessions, NEW b \in 1..Blocks, OnData(s, b)
  PROVE  /\ flash' \in Partition /\ b = expected
         /\ flash'[b] = <<ImageOf[s], b>>
         /\ \E n \in 0..(b - 1) : (n > 0 => refused') /\ Holds(flash', n, b)
<1> USE OtaAssumption DEF OtaAssumption
<1> DEFINE e == <<ImageOf[s], b>>
<1>1. /\ inProgress /\ task = "serving" /\ b = expected /\ refused' = refused
      /\ flash' = [flash EXCEPT ![b] = e]
  BY DEF OnData, ExpectedBlock, Serving
<1>2. e \in Written /\ e \in Images \X {b}
  BY DEF Written
<1>3. PICK n \in 0..(b - 1) : (n > 0 => refused) /\ Holds(flash, n, b - 1)
  BY <1>1 DEF FlashIsPrefix
<1> HIDE DEF e
<1>4. flash' \in Partition /\ flash'[b] = e
  BY <1>1, <1>2 DEF OtaTypes, Partition
<1>5. ASSUME NEW k \in 1..Blocks
      PROVE  IF n < k /\ k <= b THEN flash'[k] \in Images \X {k} ELSE flash'[k] = Erased
  <2>1. CASE k = b
    BY <2>1, <1>2, <1>3, <1>4
  <2>2. CASE k # b
    <3>1. flash'[k] = flash[k]
      BY <2>2, <1>1 DEF OtaTypes, Partition
    <3>2. IF n < k /\ k <= b - 1 THEN flash[k] \in Images \X {k} ELSE flash[k] = Erased
      BY <1>3 DEF Holds
    <3>3. n < k /\ k <= b <=> n < k /\ k <= b - 1
      BY <2>2, <1>3
    <3> QED
      BY <3>1, <3>2, <3>3
  <2> QED
    BY <2>1, <2>2
<1>6. Holds(flash', n, b)
  BY <1>5 DEF Holds
<1> QED
  BY <1>1, <1>3, <1>4, <1>6 DEF e

\* A refused write request erases a beginning of the upload and leaves the rest
LEMMA RefusedErases ==
  ASSUME OtaTypes, FlashIsPrefix, NEW s \in Sessions, RefuseWrq(s)
  PROVE  OtaTypes' /\ FlashIsPrefix'
<1> USE OtaAssumption DEF OtaAssumption
<1>1. PICK m \in 0..Blocks :
        /\ flash' = [k \in 1..Blocks |-> IF k <= m THEN Erased ELSE flash[k]]
        /\ refused' = (refused \/ m > 0)
  BY DEF RefuseWrq
<1>2. UNCHANGED <<task, expected, inProgress, app, boot, ended>>
  BY DEF RefuseWrq, taskVars
<1>3. flash' \in Partition
  BY <1>1 DEF OtaTypes, Partition
<1>4. OtaTypes'
  BY <1>1, <1>2, <1>3 DEF OtaTypes
<1>5. ASSUME inProgress, task \in {"serving", "finalizing"}
      PROVE  \E n \in 0..(expected - 1) :
               (n > 0 => refused') /\ Holds(flash', n, expected - 1)
  <2>1. PICK n \in 0..(expected - 1) :
          (n > 0 => refused) /\ Holds(flash, n, expected - 1)
    BY <1>5 DEF FlashIsPrefix
  <2>2. expected \in 1..(Blocks + 1)
    BY DEF OtaTypes
  <2>3. PICK c \in 0..(expected - 1) :
          /\ c = n \/ (c <= m /\ c > n)
          /\ \A k \in 1..Blocks : k <= expected - 1 => (k <= c <=> k <= n \/ k <= m)
    <3>1. CASE m <= n
      BY <3>1, <2>1, <2>2
    <3>2. CASE m > n /\ m <= expected - 1
      BY <3>2, <2>1, <2>2
    <3>3. CASE m > n /\ m > expected - 1 /\ n < expected - 1
      BY <3>3, <2>1, <2>2
    <3>4. CASE m > n /\ m > expected - 1 /\ n = expected - 1
      BY <3>4, <2>1, <2>2
    <3> QED
      BY <3>1, <3>2, <3>3, <3>4, <2>1, <2>2
  <2>4. c > 0 => refused'
    <3>1. c > 0 => n > 0 \/ m > 0
      BY <2>3
    <3>2. refused \/ m > 0 => refused'
      BY <1>1, Zenon
    <3>3. n > 0 => refused
      BY <2>1
    <3> QED
      BY <3>1, <3>2, <3>3, Zenon
  <2>5. ASSUME NEW k \in 1..Blocks
        PROVE  IF c < k /\ k <= expected - 1 THEN flash'[k] \in Images \X {k}
                                             ELSE flash'[k] = Erased
    <3>1. IF n < k /\ k <= expected - 1 THEN flash[k] \in Images \X {k} ELSE flash[k] = Erased
      BY <2>1 DEF Holds
    <3>2. flash'[k] = IF k <= m THEN Erased ELSE flash[k]
      BY <1>1
    <3>3. k <= expected - 1 => (k <= c <=> k <= n \/ k <= m)
      BY <2>3
    <3> QED
      BY <3>1, <3>2, <3>3, <2>1, <2>2, <2>3
  <2> QED
    BY <2>4, <2>5 DEF Holds
<1> QED
  BY <1>2, <1>4, <1>5 DEF FlashIsPrefix

LEMMA RestartKeepsTypes ==
  ASSUME OtaTypes, Restart PROVE OtaTypes' /\ FlashIsPrefix'
<1>1. flash' \in Partition /\ app' \in Partition
  BY DEF Restart, Boots, OtaTypes
<1>2. UNCHANGED <<expected, inProgress, refused, ended>> /\ boot' = "running" /\ task' = "none"
  BY DEF Restart
<1> QED
  BY <1>1, <1>2 DEF OtaTypes, FlashIsPrefix

LEMMA PartitionStep ==
  TaskTypes /\ OtaTypes /\ FlashIsPrefix /\ [Next]_vars => OtaTypes' /\ FlashIsPrefix'
<1> SUFFICES ASSUME TaskTypes, OtaTypes, FlashIsPrefix, [Next]_vars
             PROVE  OtaTypes' /\ FlashIsPrefix'
  OBVIOUS
<1> USE OtaAssumption DEF OtaAssumption
<1>0. ASSUME UNCHANGED otaVars, task' \in {task, "none", "starting"}
      PROVE  OtaTypes' /\ FlashIsPrefix'
  <2>1. OtaTypes'
    BY <1>0 DEF otaVars, OtaTypes
  <2>2. task' \in {"serving", "finalizing"} => task' = task
    BY <1>0
  <2>3. FlashIsPrefix'
    BY <1>0, <2>2 DEF otaVars, FlashIsPrefix, Holds
  <2> QED
    BY <2>1, <2>3
<1>1. CASE WifiConnected
  BY <1>0, <1>1 DEF WifiConnected, StartTask
<1>2. CASE WifiDisconnected \/ DeleteDeletedTask
  <2>1. StopTask
    BY <1>2 DEF WifiDisconnected, DeleteDeletedTask
  <2>2. UNCHANGED <<expected, inProgress, flash, app, boot, refused>> /\ task' = "none"
    BY <2>1 DEF StopTask
  <2>3. ended' \subseteq Sessions
    BY <2>1 DEF StopTask, OtaTypes
  <2> QED
    BY <2>2, <2>3 DEF OtaTypes, FlashIsPrefix
<1>3. CASE PanicOnDelete \/ Reboot
  BY <1>3, RestartKeepsTypes DEF PanicOnDelete, Reboot
<1>4. CASE Bind
  <2>1. expected' = 1 /\ inProgress' = FALSE /\ refused' = FALSE
    BY <1>4 DEF Bind
  <2>2. UNCHANGED <<flash, app, boot, ended>> /\ 1 \in 1..(Blocks + 1)
    BY <1>4 DEF Bind
  <2> QED
    BY <2>1, <2>2 DEF OtaTypes, FlashIsPrefix
<1>5. CASE BindFails
  BY <1>0, <1>5 DEF BindFails
<1>6. CASE Finalize
  <2>1. UNCHANGED <<expected, inProgress, flash, app, refused, ended>>
    BY <1>6 DEF Finalize
  <2>2. boot' = "spare" /\ task' = "rebooting"
    BY <1>6 DEF Finalize
  <2> QED
    BY <2>1, <2>2 DEF OtaTypes, FlashIsPrefix
<1>7. CASE FinalizeFails
  BY <1>7 DEF FinalizeFails, OtaTypes, FlashIsPrefix
<1>8. ASSUME NEW s \in Sessions, OnWrq(s) PROVE OtaTypes' /\ FlashIsPrefix'
  <2>1. flash' = Blank /\ expected' = 1 /\ inProgress' = TRUE /\ refused' = FALSE
    BY <1>8 DEF OnWrq
  <2>2. UNCHANGED <<app, boot, ended>>
    BY <1>8 DEF OnWrq
  <2>3. Blank \in Partition
    BY DEF Blank, Partition
  <2>4. Holds(Blank, 0, 0)
    BY DEF Holds, Blank
  <2>5. 1 \in 1..(Blocks + 1) /\ 0 \in 0..(1 - 1) /\ 1 - 1 = 0
    OBVIOUS
  <2>6. OtaTypes'
    BY <2>1, <2>2, <2>3, <2>5 DEF OtaTypes
  <2>7. Holds(flash', 0, expected' - 1) /\ 0 \in 0..(expected' - 1)
    BY <2>1, <2>4, <2>5 DEF Holds
  <2>8. FlashIsPrefix'
    BY <2>7 DEF FlashIsPrefix, Holds
  <2> QED
    BY <2>6, <2>8
<1>9. ASSUME NEW s \in Sessions, RefuseWrq(s) PROVE OtaTypes' /\ FlashIsPrefix'
  BY <1>9, RefusedErases
<1>10. ASSUME NEW s \in Sessions, NEW b \in 1..Blocks, OnData(s, b)
       PROVE  OtaTypes' /\ FlashIsPrefix'
  <2>1. flash' \in Partition /\ b = expected
    BY <1>10, WrittenInOrder
  <2>2. PICK n \in 0..(b - 1) : (n > 0 => refused') /\ Holds(flash', n, b)
    BY <1>10, WrittenInOrder
  <2>3. expected' = b + 1 /\ UNCHANGED <<inProgress, app, boot, refused>>
    BY <2>1, <1>10 DEF OnData
  <2>4. ended' \subseteq Sessions
    BY <1>10 DEF OnData, OtaTypes
  <2>5. expected' - 1 = b /\ n \in 0..(expected' - 1) /\ expected' \in 1..(Blocks + 1)
    BY <2>2, <2>3
  <2>6. OtaTypes'
    BY <2>1, <2>3, <2>4, <2>5 DEF OtaTypes
  <2>7. FlashIsPrefix'
    BY <2>2, <2>5 DEF FlashIsPrefix, Holds
  <2> QED
    BY <2>6, <2>7
<1>11. ASSUME NEW s \in Sessions, NEW b \in 1..Blocks, WriteFails(s, b)
       PROVE  OtaTypes' /\ FlashIsPrefix'
  BY <1>11 DEF WriteFails, OtaTypes, FlashIsPrefix
<1>12. ASSUME NEW s \in Sessions, NEW b \in 1..Blocks, Unsupported(s, b)
       PROVE  OtaTypes' /\ FlashIsPrefix'
  BY <1>0, <1>12 DEF Unsupported, taskVars
<1>13. ASSUME NEW s \in Sessions, ClientStep(s) PROVE OtaTypes' /\ FlashIsPrefix'
  BY <1>0, <1>13 DEF ClientStep, ClientPut, ClientNext, ClientDone, ClientFails, taskVars
<1>14. CASE UNCHANGED vars
  BY <1>0, <1>14 DEF vars, taskVars
<1> QED
  BY <1>1, <1>2, <1>3, <1>4, <1>5, <1>6, <1>7, <1>8, <1>9, <1>10, <1>11, <1>12, <1>13, <1>14
     DEF Next, ActorStep, ServerStep

----------------------------------------------------------------------------
\* The network

LEMMA NetTypesStep == NetTypes /\ [Next]_vars => NetTypes'
<1> SUFFICES ASSUME NetTypes, [Next]_vars PROVE NetTypes'
  OBVIOUS
<1> USE OtaAssumption DEF OtaAssumption
<1>0. ASSUME UNCHANGED netVars PROVE NetTypes'
  BY <1>0 DEF netVars, NetTypes
<1>1. ASSUME NEW s \in Sessions, NEW b \in 0..Blocks, Reply(Ack(s, b)) \/ Reply(Err(s))
      PROVE NetTypes'
  BY <1>1 DEF Reply, Ack, Err, NetTypes
<1>2. CASE ActorStep
  BY <1>0, <1>2 DEF ActorStep, WifiConnected, WifiDisconnected, DeleteDeletedTask, PanicOnDelete
<1>3. CASE Bind \/ BindFails \/ Finalize \/ FinalizeFails \/ Reboot
  BY <1>0, <1>3 DEF Bind, BindFails, Finalize, FinalizeFails, Reboot
<1>4. ASSUME NEW s \in Sessions, OnWrq(s) \/ RefuseWrq(s) PROVE NetTypes'
  <2>1. 0 \in 0..Blocks
    OBVIOUS
  <2> QED
    BY <1>1, <1>4, <2>1 DEF OnWrq, RefuseWrq
<1>5. ASSUME NEW s \in Sessions, NEW b \in 1..Blocks,
             OnData(s, b) \/ WriteFails(s, b) \/ Unsupported(s, b)
      PROVE NetTypes'
  <2>1. b \in 0..Blocks
    OBVIOUS
  <2> QED
    BY <1>1, <1>5, <2>1 DEF OnData, WriteFails, Unsupported
<1>6. ASSUME NEW s \in Sessions, ClientPut(s) PROVE NetTypes'
  BY <1>6 DEF ClientPut, Send, Wrq, NetTypes, Failed
<1>7. ASSUME NEW s \in Sessions, ClientNext(s) PROVE NetTypes'
  <2>1. client[s] \in 0..Failed /\ client[s] < Blocks
    BY <1>7 DEF ClientNext, NetTypes
  <2>2. Data(s, client[s] + 1) \in [op : {"WRQ", "DATA"}, s : Sessions, block : 0..Blocks]
    BY <2>1 DEF Data
  <2>3. client[s] + 1 \in 0..Failed
    BY <2>1 DEF Failed
  <2> QED
    BY <1>7, <2>2, <2>3 DEF ClientNext, Send, NetTypes
<1>8. ASSUME NEW s \in Sessions, ClientDone(s) \/ ClientFails(s) PROVE NetTypes'
  BY <1>8 DEF ClientDone, ClientFails, NetTypes, Done, Failed
<1>9. CASE UNCHANGED vars
  BY <1>0, <1>9 DEF vars
<1> QED
  BY <1>2, <1>3, <1>4, <1>5, <1>6, <1>7, <1>8, <1>9 DEF Next, ServerStep, ClientStep

----------------------------------------------------------------------------
\* The theorems

LEMMA Invariance == Spec => []IInv
<1>1. IInv /\ [Next]_vars => IInv'
  BY TaskTypesStep, PartitionStep, NetTypesStep DEF IInv
<1> QED
  BY <1>1, Initially, PTL DEF Spec

\* Types and bounds: the task writes no block behind the last one.
THEOREM TypeCorrect == Spec => []TypeOK
<1>1. IInv => TypeOK
  BY DEF IInv, TaskTypes, OtaTypes, Partition, NetTypes, TypeOK
<1> QED
  BY <1>1, Invariance, PTL

\* Whichever calls fail, the partition holds the blocks before the expected one, each
\* in its place, but for a beginning a refused write request erased.
THEOREM PrefixInFlash == Spec => []FlashIsPrefix
<1>1. IInv => FlashIsPrefix
  BY DEF IInv
<1> QED
  BY <1>1, Invariance, PTL

\* Only the last block in its order is acknowledged as the last block.
LEMMA LastAckIsData ==
  ASSUME IInv, [Next]_vars, NEW s \in Sessions, Ack(s, Blocks) \in tx' \ tx
  PROVE  \E r \in Sessions, b \in 1..Blocks : OnData(r, b) /\ Ack(r, b) = Ack(s, Blocks)
<1>1. CASE \E r \in Sessions, b \in 1..Blocks : OnData(r, b)
  BY <1>1 DEF OnData, Reply
<1>2. CASE \E r \in Sessions : OnWrq(r)
  BY <1>2, OtaAssumption DEF OtaAssumption, OnWrq, Reply, Ack
<1>3. CASE \E r \in Sessions : RefuseWrq(r)
  BY <1>3 DEF RefuseWrq, Reply, Ack, Err
<1>4. CASE \E r \in Sessions, b \in 1..Blocks : WriteFails(r, b) \/ Unsupported(r, b)
  BY <1>4 DEF WriteFails, Unsupported, Reply, Ack, Err
<1>5. CASE \/ ActorStep \/ Bind \/ BindFails \/ Finalize \/ FinalizeFails \/ Reboot
           \/ UNCHANGED vars
  BY <1>5 DEF ActorStep, WifiConnected, WifiDisconnected, DeleteDeletedTask, PanicOnDelete,
     Bind, BindFails, Finalize, FinalizeFails, Reboot, netVars, vars
<1>6. CASE \E r \in Sessions : ClientStep(r)
  BY <1>6 DEF ClientStep, ClientPut, ClientNext, ClientDone, ClientFails, Send
<1> QED
  BY <1>1, <1>2, <1>3, <1>4, <1>5, <1>6 DEF Next, ServerStep

LEMMA LastAck ==
  ASSUME IInv, [Next]_vars, NEW s \in Sessions, Ack(s, Blocks) \in tx' \ tx
  PROVE  \E n \in 0..(Blocks - 1) : (n > 0 => refused') /\ Holds(flash', n, Blocks)
<1>1. PICK r \in Sessions, b \in 1..Blocks : OnData(r, b) /\ Ack(r, b) = Ack(s, Blocks)
  BY LastAckIsData
<1>2. b = Blocks
  BY <1>1 DEF Ack
<1>3. \E n \in 0..(b - 1) : (n > 0 => refused') /\ Holds(flash', n, b)
  BY <1>1, WrittenInOrder DEF IInv
<1> QED
  BY <1>2, <1>3

\* The last block is acknowledged only with all blocks in the partition, but for a
\* beginning a refused write request erased while the upload went on.
THEOREM LastAckLast == Spec => LastAckMeansWhole
<1>1. IInv /\ [Next]_vars =>
        [\A s \in Sessions : Ack(s, Blocks) \in tx' \ tx
           => \E n \in 0..(Blocks - 1) : (n > 0 => refused') /\ Holds(flash', n, Blocks)]_vars
  BY LastAck
<1> QED
  BY <1>1, Invariance, PTL DEF Spec, LastAckMeansWhole

----------------------------------------------------------------------------
\* An upload that was acknowledged to the end

\* No task without a handle, and none that serves without the port
Owned == (~handle => task = "none") /\ (task \in {"serving", "finalizing", "rebooting"} => bound)

\* Once the partition is to be booted no task serves, and none can until the restart:
\* the socket of the one that wrote it holds the port, whatever became of that task.
Guarded == boot = "spare" => bound /\ task \notin {"serving", "finalizing"}

\* While the image is finalized its last block tells whose it is
EndedKept ==
  \A s \in ended : IF task = "finalizing" THEN flash[Blocks] = <<ImageOf[s], Blocks>>
                                          ELSE Boots = Whole(ImageOf[s])

KInv == IInv /\ Owned /\ Guarded /\ EndedKept

LEMMA InitKInv == Init => KInv
BY Initially DEF KInv, Init, Owned, Guarded, EndedKept

\* A step that neither begins nor ends the serving of a task
LEMMA Undisturbed ==
  ASSUME KInv, UNCHANGED <<flash, app, boot, ended>>, bound' = bound,
         handle' = handle /\ (task' = task \/ (task = "starting" /\ task' = "none"))
  PROVE  (Owned /\ Guarded /\ EndedKept)'
BY DEF KInv, Owned, Guarded, EndedKept, Boots

\* What the acknowledged image needs of each step
LEMMA KeptStep == KInv /\ [Next]_vars => (Owned /\ Guarded /\ EndedKept)'
<1> SUFFICES ASSUME KInv, [Next]_vars PROVE (Owned /\ Guarded /\ EndedKept)'
  OBVIOUS
<1> USE OtaAssumption DEF OtaAssumption
<1>1. CASE WifiConnected
  <2>1. UNCHANGED <<bound, flash, app, boot, ended>>
    BY <1>1 DEF WifiConnected, otaVars
  <2>2. (handle' /\ task = "none" /\ task' = "starting") \/ UNCHANGED <<handle, task>>
    BY <1>1 DEF WifiConnected, StartTask, KInv, Owned
  <2> QED
    BY <2>1, <2>2 DEF KInv, Owned, Guarded, EndedKept, Boots
<1>2. CASE WifiDisconnected \/ DeleteDeletedTask
  <2>1. StopTask
    BY <1>2 DEF WifiDisconnected, DeleteDeletedTask
  <2>2. handle' = FALSE /\ task' = "none" /\ UNCHANGED <<bound, flash, app, boot>>
    BY <2>1 DEF StopTask
  <2>3. \A s \in ended' : s \in ended /\ task # "finalizing"
    BY <2>1 DEF StopTask
  <2> QED
    BY <2>2, <2>3 DEF KInv, Owned, Guarded, EndedKept, Boots
<1>3. CASE PanicOnDelete \/ Reboot
  <2>1. Restart /\ task # "finalizing"
    BY <1>3 DEF PanicOnDelete, Reboot, DeletesFreed
  <2>2. /\ handle' = FALSE /\ task' = "none" /\ bound' = FALSE
        /\ app' = Boots /\ boot' = "running" /\ ended' = ended
    BY <2>1 DEF Restart
  <2>3. Boots' = Boots
    BY <2>2 DEF Boots
  <2> QED
    BY <2>1, <2>2, <2>3 DEF KInv, Owned, Guarded, EndedKept
<1>4. CASE Bind
  <2>1. task = "starting" /\ ~bound /\ task' = "serving" /\ bound' = TRUE /\ handle' = handle
    BY <1>4 DEF Bind
  <2>2. UNCHANGED <<flash, app, boot, ended>> /\ boot # "spare"
    BY <1>4, <2>1 DEF Bind, KInv, Guarded
  <2> QED
    BY <2>1, <2>2 DEF KInv, Owned, Guarded, EndedKept, Boots
<1>5. CASE BindFails
  BY <1>5, Undisturbed DEF BindFails, otaVars
<1>6. CASE Finalize
  <2>1. /\ task = "finalizing" /\ task' = "rebooting" /\ boot' = "spare"
        /\ UNCHANGED <<handle, bound, flash, app, ended>>
    BY <1>6 DEF Finalize
  <2>2. PICK i \in Images : flash = Whole(i)
    BY <1>6 DEF Finalize, Verified
  <2>3. flash[Blocks] = <<i, Blocks>>
    BY <2>2 DEF Whole
  <2>4. ASSUME NEW s \in ended PROVE Boots' = Whole(ImageOf[s])
    <3>1. ImageOf[s] = i
      BY <2>1, <2>3, <2>4 DEF KInv, EndedKept
    <3>2. Boots' = flash
      BY <2>1 DEF Boots
    <3> QED
      BY <3>1, <3>2, <2>2
  <2>5. EndedKept'
    BY <2>1, <2>4 DEF EndedKept
  <2> QED
    BY <2>1, <2>5 DEF KInv, Owned, Guarded
<1>7. CASE FinalizeFails
  BY <1>7 DEF FinalizeFails, KInv, Owned, Guarded, EndedKept
<1>8. ASSUME NEW s \in Sessions, OnWrq(s) \/ RefuseWrq(s)
      PROVE  (Owned /\ Guarded /\ EndedKept)'
  <2>1. task = "serving" /\ UNCHANGED <<handle, task, bound, app, boot, ended>>
    BY <1>8 DEF OnWrq, RefuseWrq, Serving, taskVars
  <2>2. boot # "spare"
    BY <2>1 DEF KInv, Guarded
  <2>3. Boots' = Boots
    BY <2>1, <2>2 DEF Boots
  <2> QED
    BY <2>1, <2>2, <2>3 DEF KInv, Owned, Guarded, EndedKept
<1>9. ASSUME NEW s \in Sessions, NEW b \in 1..Blocks, OnData(s, b)
      PROVE  (Owned /\ Guarded /\ EndedKept)'
  <2>1. task = "serving" /\ UNCHANGED <<handle, bound, app, boot>>
    BY <1>9 DEF OnData, Serving
  <2>2. boot # "spare" /\ bound
    BY <2>1 DEF KInv, Guarded, Owned
  <2>3. flash'[b] = <<ImageOf[s], b>>
    BY <1>9, WrittenInOrder DEF KInv, IInv
  <2>4. CASE b = Blocks
    <3>1. task' = "finalizing" /\ ended' = {s}
      BY <1>9, <2>4 DEF OnData
    <3> QED
      BY <3>1, <2>1, <2>2, <2>3, <2>4 DEF KInv, Owned, Guarded, EndedKept
  <2>5. CASE b # Blocks
    <3>1. task' = "serving" /\ ended' = ended
      BY <1>9, <2>1, <2>5 DEF OnData
    <3>2. Boots' = Boots
      BY <2>1, <2>2 DEF Boots
    <3> QED
      BY <3>1, <3>2, <2>1, <2>2 DEF KInv, Owned, Guarded, EndedKept
  <2> QED
    BY <2>4, <2>5
<1>10. ASSUME NEW s \in Sessions, NEW b \in 1..Blocks, WriteFails(s, b) \/ Unsupported(s, b)
       PROVE  (Owned /\ Guarded /\ EndedKept)'
  BY <1>10, Undisturbed DEF WriteFails, Unsupported, taskVars, otaVars
<1>11. ASSUME NEW s \in Sessions, ClientStep(s) PROVE (Owned /\ Guarded /\ EndedKept)'
  BY <1>11, Undisturbed DEF ClientStep, ClientPut, ClientNext, ClientDone, ClientFails,
     taskVars, otaVars
<1>12. CASE UNCHANGED vars
  BY <1>12, Undisturbed DEF vars, taskVars, otaVars
<1> QED
  BY <1>1, <1>2, <1>3, <1>4, <1>5, <1>6, <1>7, <1>8, <1>9, <1>10, <1>11, <1>12
     DEF Next, ServerStep, ActorStep

\* Whichever calls fail, however many images and sessions there are and whenever the
\* updater is stopped or restarted: the image of the upload that was acknowledged to
\* the end last is whole and boots, once esp_ota_end has found it good.
THEOREM AcknowledgedBoots == Spec => []UploadKept
<1>1. KInv /\ [Next]_vars => KInv'
  <2>1. IInv /\ [Next]_vars => IInv'
    BY TaskTypesStep, PartitionStep, NetTypesStep DEF IInv
  <2> QED
    BY <2>1, KeptStep DEF KInv
<1>2. KInv => UploadKept
  BY DEF KInv, EndedKept, UploadKept
<1> QED
  BY <1>1, <1>2, InitKInv, PTL DEF Spec
=============================================================================
