------------------------------ MODULE WifiOta ------------------------------
(***************************************************************************)
(* The Wi-Fi actor and the updater together: the updater starts and stops  *)
(* on the messages the Wi-Fi actor put on the event bus, in their order    *)
(* and possibly much later; a restart takes both back to the beginning.    *)
(***************************************************************************)
EXTENDS Wifi

CONSTANTS Sessions, Images, ImageOf, Blocks, CallsFail, MaxStarts, MaxStops

ASSUME UploadAssumption ==
  /\ ImageOf \in [Sessions -> Images]
  /\ Blocks \in Nat \ {0}
  /\ CallsFail \in BOOLEAN
  /\ MaxStarts \in Nat /\ MaxStops \in Nat

VARIABLES
  handle, task, bound, expected, inProgress, flash, app, boot, starts, stops, rx, tx, client,
  refused, ended,
  lost  \* history: whether a message found the bus full

O == INSTANCE Ota
otaVars == <<handle, task, bound, expected, inProgress, flash, app, boot, starts, stops,
             rx, tx, client, refused, ended>>
allVars == <<vars, otaVars, lost>>

SystemInit == Init /\ O!Init /\ lost = FALSE

\* on_start and the driver
WifiStep ==
  /\ StartStep \/ DriverStep
  /\ UNCHANGED <<otaVars, lost>>

\* The event task; the only other use of the bus is to be read
EventStep ==
  /\ HandlerStep
  /\ lost' = (lost \/ Len(bus) = BusCap)
  /\ UNCHANGED otaVars

\* OtaActor::on_message, when the event bus dispatches to it
DeliverConnected ==
  /\ bus # <<>> /\ Head(bus) = "WifiConnected"
  /\ Dispatch
  /\ O!WifiConnected
  /\ UNCHANGED lost

DeliverDisconnected ==
  /\ bus # <<>> /\ Head(bus) = "WifiDisconnected"
  /\ Dispatch
  /\ O!WifiDisconnected \/ O!DeleteDeletedTask
  /\ UNCHANGED lost

\* The server task
ServeStep == O!ServerStep /\ UNCHANGED <<vars, lost>>

\* The upload command
UploadStep == \E s \in Sessions : O!ClientStep(s) /\ UNCHANGED <<vars, lost>>

\* esp_restart after an update, or a panic, takes the Wi-Fi down too
RestartWifi ==
  /\ start' = "scan" /\ driver' = "off" /\ events' = <<>> /\ retries' = 0
  /\ connected' = FALSE /\ bus' = <<>> /\ outage' = 0 /\ lost' = FALSE

RebootAll == O!Reboot /\ RestartWifi

PanicAll ==
  /\ bus # <<>> /\ Head(bus) = "WifiDisconnected" /\ start = "done"
  /\ O!PanicOnDelete
  /\ RestartWifi

SystemNext ==
  \/ WifiStep \/ EventStep
  \/ DeliverConnected \/ DeliverDisconnected
  \/ ServeStep \/ UploadStep \/ RebootAll \/ PanicAll

SystemSpec == SystemInit /\ [][SystemNext]_allVars

\* The event task and the server task run, the latter to its restart, and an attempt
\* to associate ends, in an address or in STA_DISCONNECTED.
LiveSystemSpec ==
  /\ SystemSpec
  /\ WF_allVars(EventStep) /\ WF_allVars((Associate \/ GotIp) /\ UNCHANGED <<otaVars, lost>>)
  /\ WF_allVars(ServeStep) /\ WF_allVars(RebootAll)

----------------------------------------------------------------------------
\* Properties

\* When every message was accepted and has been delivered, the updater has a
\* task handle exactly while the Wi-Fi is connected, and runs no task without
\* one: outages shorter than the bus is slow cannot leave it on the wrong side.
Settled == events = <<>> /\ bus = <<>> /\ ~lost
UpdaterFollowsLink ==
  Settled => IF connected THEN handle ELSE ~handle /\ task = "none"

\* An upload whose last block was acknowledged is the firmware that runs, in the
\* end: unless esp_ota_end finds its image bad, a stop deletes the task while it
\* finalizes, or a later upload ends.  If the stop comes in the second before the
\* restart, the image waits for the next restart to run.
Runs(s)    == app = O!Whole(ImageOf[s])
Waits(s)   == O!Boots = O!Whole(ImageOf[s]) /\ task # "rebooting"
DoneIsInstalled ==
  \A s \in Sessions : s \in ended ~> Runs(s) \/ Waits(s) \/ s \notin ended
=============================================================================
