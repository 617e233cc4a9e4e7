-------------------------------- MODULE Ota --------------------------------
(***************************************************************************)
(* The over-the-air updater of the ESP32 firmware: OtaActor starts and     *)
(* stops a TFTP server task as the Wi-Fi comes and goes; the task writes   *)
(* the blocks of a PUT to the spare flash partition and boots it.          *)
(*                                                                         *)
(* Datagrams are sets that only grow: one may arrive late, twice, out of   *)
(* order or never.  A session is one run of the upload command (external), *)
(* with an address of its own.                                             *)
(***************************************************************************)
EXTENDS Naturals

CONSTANTS
  Sessions,    \* runs of the upload command
  Images,      \* firmware images
  ImageOf,     \* the image each session puts
  Blocks,      \* blocks per image; only the last is shorter than 512 bytes
  CallsFail,   \* whether system, flash and OTA calls may fail
  MaxStarts,   \* bound: WifiConnected messages
  MaxStops     \* bound: WifiDisconnected messages

ASSUME OtaAssumption ==
  /\ ImageOf \in [Sessions -> Images]
  /\ Blocks \in Nat \ {0}
  /\ CallsFail \in BOOLEAN
  /\ MaxStarts \in Nat /\ MaxStops \in Nat

Written  == Images \X (1..Blocks)
Whole(i) == [k \in 1..Blocks |-> <<i, k>>]
Erased   == <<>>
Blank    == [k \in 1..Blocks |-> Erased]

VARIABLES
  handle,      \* whether _ota_task_handle is not null
  task,        \* what tftp_ota_server_task is doing
  bound,       \* whether an open socket holds the TFTP port
  expected,    \* expected_block
  inProgress,  \* ota_in_progress
  flash,       \* the spare one of the two OTA partitions, per block
  app,         \* the one the firmware runs from
  boot,        \* the one otadata names to boot next
  starts,      \* WifiConnected messages so far
  stops,       \* WifiDisconnected messages so far
  rx,          \* datagrams sent to the server
  tx,          \* datagrams the server sent
  client,      \* per session, the block it waits to have acknowledged
  refused,     \* history: a refused write request erased blocks of the upload
  ended        \* history: the session of the upload that ended last, until its
               \* image is found bad or the task is deleted over it

taskVars == <<handle, task, bound, starts, stops>>
otaVars  == <<expected, inProgress, flash, app, boot, refused, ended>>
netVars  == <<rx, tx, client>>
vars     == <<taskVars, otaVars, netVars>>

Wrq(s)     == [op |-> "WRQ", s |-> s, block |-> 0]
Data(s, b) == [op |-> "DATA", s |-> s, block |-> b]
Ack(s, b)  == [op |-> "ACK", s |-> s, block |-> b]
Err(s)     == [op |-> "ERROR", s |-> s, block |-> 0]

NotSent == Blocks + 1
Done    == Blocks + 2
Failed  == Blocks + 3

Init ==
  /\ handle = FALSE /\ task = "none" /\ bound = FALSE
  /\ starts = 0 /\ stops = 0
  /\ expected = 1 /\ inProgress = FALSE
  /\ flash = Blank /\ app = Blank /\ boot = "running"
  /\ refused = FALSE /\ ended = {}
  /\ rx = {} /\ tx = {}
  /\ client = [s \in Sessions |-> NotSent]

----------------------------------------------------------------------------
\* OtaActor::on_message

\* WifiConnected: start_task creates the task unless the handle is set
StartTask ==
  \/ ~handle /\ handle' = TRUE /\ task' = "starting"
  \/ (handle \/ CallsFail) /\ UNCHANGED <<handle, task>>

WifiConnected ==
  /\ starts < MaxStarts
  /\ starts' = starts + 1
  /\ StartTask
  /\ UNCHANGED <<bound, stops, otaVars, netVars>>

\* What the bootloader starts, now and after the next restart
Boots == IF boot = "spare" THEN flash ELSE app

\* esp_restart, or a panic: no task survives and lwIP starts without sockets.
\* When the other partition boots, this one is the spare one from then on.
Restart ==
  /\ handle' = FALSE /\ task' = "none" /\ bound' = FALSE
  /\ app' = Boots /\ boot' = "running"
  /\ flash' = IF boot = "spare" THEN app ELSE flash
  /\ UNCHANGED <<expected, inProgress, refused, ended>>

\* Mutant: the socket is closed with its task
StopTaskCloses ==
  /\ handle' = FALSE /\ task' = "none" /\ bound' = FALSE
  /\ ended' = IF task = "finalizing" THEN {} ELSE ended
  /\ UNCHANGED <<expected, inProgress, flash, app, boot, refused>>
\* Mutant: the handle is not reset
StopTaskKeepsHandle ==
  /\ task' = "none"
  /\ ended' = IF task = "finalizing" THEN {} ELSE ended
  /\ UNCHANGED <<handle, bound, expected, inProgress, flash, app, boot, refused>>
\* WifiDisconnected: stop_task deletes the task wherever it is.  lwIP does not
\* close the socket of a deleted task.
StopTask ==
  /\ handle' = FALSE /\ task' = "none"
  /\ ended' = IF task = "finalizing" THEN {} ELSE ended
  /\ UNCHANGED <<bound, expected, inProgress, flash, app, boot, refused>>

WifiDisconnected ==
  /\ stops < MaxStops
  /\ stops' = stops + 1
  /\ ~handle \/ task # "none"
  /\ StopTask
  /\ UNCHANGED <<starts, netVars>>

\* The task has already deleted itself and FreeRTOS is given a freed handle:
\* nothing shows, or the heap is damaged and the firmware panics.
DeletesFreed == stops < MaxStops /\ handle /\ task = "none"

DeleteDeletedTask ==
  /\ DeletesFreed
  /\ stops' = stops + 1
  /\ StopTask
  /\ UNCHANGED <<starts, netVars>>

PanicOnDelete ==
  /\ DeletesFreed
  /\ stops' = stops + 1
  /\ Restart
  /\ UNCHANGED <<starts, netVars>>

----------------------------------------------------------------------------
\* tftp_ota_server_task

\* The port is free: the task serves, with its local state fresh
Bind ==
  /\ task = "starting" /\ ~bound
  /\ task' = "serving" /\ bound' = TRUE
  /\ expected' = 1 /\ inProgress' = FALSE /\ refused' = FALSE
  /\ UNCHANGED <<handle, starts, stops, flash, app, boot, ended, netVars>>

\* The port is taken, or there is no socket: the task deletes itself and the
\* actor keeps the handle
BindFails ==
  /\ task = "starting"
  /\ bound \/ CallsFail
  /\ task' = "none"
  /\ UNCHANGED <<handle, bound, starts, stops, otaVars, netVars>>

Serving(p) == task = "serving" /\ p \in rx
Reply(p)   == tx' = tx \cup {p} /\ UNCHANGED <<rx, client>>

\* esp_ota_begin erases the whole partition, its size being unknown
OnWrq(s) ==
  /\ Serving(Wrq(s))
  /\ flash' = Blank /\ expected' = 1 /\ inProgress' = TRUE /\ refused' = FALSE
  /\ Reply(Ack(s, 0))
  /\ UNCHANGED <<taskVars, app, boot, ended>>

\* No OTA partition, or esp_ota_begin fails: before, while or after it erases the
\* partition from its beginning.  An upload in progress goes on behind that.
RefuseWrq(s) ==
  /\ CallsFail
  /\ Serving(Wrq(s))
  /\ \E n \in 0..Blocks :
       /\ flash' = [k \in 1..Blocks |-> IF k <= n THEN Erased ELSE flash[k]]
       /\ refused' = (refused \/ n > 0)
  /\ Reply(Err(s))
  /\ UNCHANGED <<taskVars, expected, inProgress, app, boot, ended>>

\* Mutant: the block number is not looked at
AnyBlock(b)      == TRUE
\* Any other block is ignored, and not acknowledged
ExpectedBlock(b) == b = expected

OnData(s, b) ==
  /\ Serving(Data(s, b))
  /\ inProgress
  /\ ExpectedBlock(b)
  /\ flash' = [flash EXCEPT ![expected] = <<ImageOf[s], b>>]
  /\ expected' = expected + 1
  /\ Reply(Ack(s, b))
  /\ task' = IF b = Blocks THEN "finalizing" ELSE task
  /\ ended' = IF b = Blocks THEN {s} ELSE ended
  /\ UNCHANGED <<handle, bound, starts, stops, inProgress, app, boot, refused>>

WriteFails(s, b) ==
  /\ CallsFail
  /\ Serving(Data(s, b))
  /\ inProgress
  /\ ExpectedBlock(b)
  /\ inProgress' = FALSE
  /\ Reply(Err(s))
  /\ UNCHANGED <<taskVars, expected, flash, app, boot, refused, ended>>

\* data outside an upload
Unsupported(s, b) ==
  /\ Serving(Data(s, b))
  /\ ~inProgress
  /\ Reply(Err(s))
  /\ UNCHANGED <<taskVars, otaVars>>

\* esp_ota_end verifies the image
Verified == \E i \in Images : flash = Whole(i)

\* Mutant: without esp_ota_set_boot_partition
FinalizeForgetsBoot ==
  /\ task = "finalizing"
  /\ Verified
  /\ task' = "rebooting"
  /\ UNCHANGED <<handle, bound, starts, stops, otaVars, netVars>>
Finalize ==
  /\ task = "finalizing"
  /\ Verified
  /\ task' = "rebooting"
  /\ boot' = "spare"
  /\ UNCHANGED <<handle, bound, starts, stops, netVars>>
  /\ UNCHANGED <<expected, inProgress, flash, app, refused, ended>>

FinalizeFails ==
  /\ task = "finalizing"
  /\ ~Verified \/ CallsFail
  /\ task' = "serving"
  /\ inProgress' = FALSE /\ ended' = {}
  /\ UNCHANGED <<handle, bound, starts, stops, netVars>>
  /\ UNCHANGED <<expected, flash, app, boot, refused>>

\* a second after the boot partition was set
Reboot ==
  /\ task = "rebooting"
  /\ Restart
  /\ UNCHANGED <<starts, stops, netVars>>

----------------------------------------------------------------------------
\* The upload command (external)

Send(p) == rx' = rx \cup {p} /\ UNCHANGED tx

ClientPut(s) ==
  /\ client[s] = NotSent
  /\ client' = [client EXCEPT ![s] = 0]
  /\ Send(Wrq(s))
  /\ UNCHANGED <<taskVars, otaVars>>

ClientNext(s) ==
  /\ client[s] < Blocks
  /\ Ack(s, client[s]) \in tx
  /\ client' = [client EXCEPT ![s] = @ + 1]
  /\ Send(Data(s, client[s] + 1))
  /\ UNCHANGED <<taskVars, otaVars>>

ClientDone(s) ==
  /\ client[s] = Blocks
  /\ Ack(s, Blocks) \in tx
  /\ client' = [client EXCEPT ![s] = Done]
  /\ UNCHANGED <<taskVars, otaVars, rx, tx>>

ClientFails(s) ==
  /\ client[s] <= Blocks
  /\ Err(s) \in tx
  /\ client' = [client EXCEPT ![s] = Failed]
  /\ UNCHANGED <<taskVars, otaVars, rx, tx>>

ServerStep ==
  \/ Bind \/ BindFails \/ Finalize \/ FinalizeFails
  \/ \E s \in Sessions : OnWrq(s) \/ RefuseWrq(s)
  \/ \E s \in Sessions, b \in 1..Blocks :
       OnData(s, b) \/ WriteFails(s, b) \/ Unsupported(s, b)

ClientStep(s) == ClientPut(s) \/ ClientNext(s) \/ ClientDone(s) \/ ClientFails(s)

ActorStep == \/ WifiConnected \/ WifiDisconnected
             \/ DeleteDeletedTask \/ PanicOnDelete

Next == ActorStep \/ ServerStep \/ Reboot \/ \E s \in Sessions : ClientStep(s)

Spec == Init /\ [][Next]_vars

----------------------------------------------------------------------------
\* Properties

TypeOK ==
  /\ handle \in BOOLEAN
  /\ task \in {"none", "starting", "serving", "finalizing", "rebooting"}
  /\ bound \in BOOLEAN
  /\ starts \in 0..MaxStarts /\ stops \in 0..MaxStops
  /\ expected \in 1..(Blocks + 1)
  /\ inProgress \in BOOLEAN
  /\ flash \in [1..Blocks -> Written \cup {Erased}]
  /\ app \in [1..Blocks -> Written \cup {Erased}]
  /\ boot \in {"running", "spare"}
  /\ refused \in BOOLEAN /\ ended \subseteq Sessions
  /\ rx \subseteq [op : {"WRQ", "DATA"}, s : Sessions, block : 0..Blocks]
  /\ tx \subseteq [op : {"ACK", "ERROR"}, s : Sessions, block : 0..Blocks]
  /\ client \in [Sessions -> 0..Failed]

\* Blocks n+1..m are in the partition, each in its place, and nothing else
Holds(f, n, m) ==
  \A k \in 1..Blocks : IF n < k /\ k <= m THEN f[k] \in Images \X {k} ELSE f[k] = Erased

\* Whatever is delayed, repeated or reordered, however many sessions overlap
\* and whichever calls fail, the partition holds the blocks before the expected
\* one, each once and in its place.  All of them, unless a write request was
\* refused while the upload went on: that erases a beginning of it.
FlashIsPrefix ==
  inProgress /\ task \in {"serving", "finalizing"}
    => \E n \in 0..(expected - 1) : (n > 0 => refused) /\ Holds(flash, n, expected - 1)

\* The last block is acknowledged only with all blocks in the partition that
\* no refused write request erased behind them: the sender of the last block is
\* told nothing of the erased ones.
LastAckMeansWhole ==
  [][\A s \in Sessions : Ack(s, Blocks) \in tx' \ tx
       => \E n \in 0..(Blocks - 1) : (n > 0 => refused') /\ Holds(flash', n, Blocks)]_vars

\* The server acknowledges the last block before it finalizes the image.  From
\* then on the image of that session, whole and unmixed, is what boots, or it is
\* still being finalized; but for esp_ota_end finding it bad and for a stop in
\* between.  No stop, restart, failing call or later upload undoes it: before the
\* restart none can get at the partition, and after it they get the other one.
UploadKept == \A s \in ended : task = "finalizing" \/ Boots = Whole(ImageOf[s])

\* main.cpp: "ota via tftp".  A task handle the actor holds is a task that
\* serves or is about to.
HandleMeansTask == handle => task # "none"
=============================================================================
