-------------------------------- MODULE Wifi --------------------------------
(***************************************************************************)
(* The Wi-Fi actor of the firmware: on_start scans and then starts the     *)
(* driver, event_handler runs in ESP-IDF's event task for every driver     *)
(* event, reconnects a bounded number of times and tells the other actors  *)
(* with WifiConnected and WifiDisconnected on the event bus.               *)
(*                                                                         *)
(* The driver is external: it starts, tries to associate when told, and    *)
(* loses the link at any time.                                             *)
(***************************************************************************)
EXTENDS Naturals, Sequences

CONSTANTS
  MaxRetry,  \* ESP_MAXIMUM_RETRY, 5 in the code
  BusCap     \* room the event bus has for these messages

ASSUME WifiAssumption == MaxRetry \in Nat /\ BusCap \in Nat \ {0}

VARIABLES
  start,      \* what WifiActor::on_start is doing
  driver,     \* the Wi-Fi driver
  events,     \* driver events the event task has not handled
  retries,    \* s_retry_count
  connected,  \* _wifi_connected
  bus,        \* Wi-Fi messages on the event bus
  outage      \* history: STA_DISCONNECTED events since the last address,
              \* counted up to one more than the retries

vars == <<start, driver, events, retries, connected, bus, outage>>

Init ==
  /\ start = "scan"
  /\ driver = "off"
  /\ events = <<>>
  /\ retries = 0
  /\ connected = FALSE
  /\ bus = <<>>
  /\ outage = 0

----------------------------------------------------------------------------
\* on_start

ScanOk ==
  /\ start = "scan"
  /\ start' = "connect"
  /\ UNCHANGED <<driver, events, retries, connected, bus, outage>>

\* scan reports an error and on_start will call it again ...
ScanFails ==
  /\ start = "scan"
  /\ start' = "rescan"
  /\ UNCHANGED <<driver, events, retries, connected, bus, outage>>

\* ... but the second call creates the default event loop again, which ESP-IDF
\* refuses, and ESP_ERROR_CHECK restarts the firmware.
RescanAborts ==
  /\ start = "rescan"
  /\ start' = "scan"
  /\ UNCHANGED <<driver, events, retries, connected, bus, outage>>

Connect ==
  /\ start = "connect"
  /\ start' = "done"
  /\ driver' = "idle"
  /\ events' = <<"STA_START">>
  /\ UNCHANGED <<retries, connected, bus, outage>>

\* a driver call of connect fails: on_start gives up
ConnectFails ==
  /\ start = "connect"
  /\ start' = "done"
  /\ UNCHANGED <<driver, events, retries, connected, bus, outage>>

----------------------------------------------------------------------------
\* The driver

Associate ==
  /\ driver = "trying"
  /\ driver' = "associated"
  /\ UNCHANGED <<start, events, retries, connected, bus, outage>>

GotIp ==
  /\ driver = "associated"
  /\ driver' = "online"
  /\ events' = Append(events, "GOT_IP")
  /\ outage' = 0
  /\ UNCHANGED <<start, retries, connected, bus>>

LinkLost ==
  /\ driver \in {"trying", "associated", "online"}
  /\ driver' = "idle"
  /\ events' = Append(events, "STA_DISCONNECTED")
  /\ outage' = IF outage <= MaxRetry THEN outage + 1 ELSE outage
  /\ UNCHANGED <<start, retries, connected, bus>>

DriverStep == Associate \/ GotIp \/ LinkLost

----------------------------------------------------------------------------
\* event_handler

\* Mutant: an unbounded bus
EmitAnyway(m) == bus' = Append(bus, m)
\* EventBus::push deletes the message when the bus stays full
Emit(m) == bus' = IF Len(bus) < BusCap THEN Append(bus, m) ELSE bus

OnEvent(e) ==
  /\ events # <<>>
  /\ Head(events) = e
  /\ events' = Tail(events)

OnStaStart ==
  /\ OnEvent("STA_START")
  /\ driver' = "trying"
  /\ UNCHANGED <<start, retries, connected, bus, outage>>

\* Mutant: the retries are not counted
RetryAlways == driver' = "trying" /\ retries' = retries
Retry ==
  IF retries < MaxRetry THEN driver' = "trying" /\ retries' = retries + 1
                        ELSE UNCHANGED <<driver, retries>>

\* Mutant: the flag is reset only when the retries are spent
OnStaDisconnectedKeepsFlag ==
  /\ OnEvent("STA_DISCONNECTED")
  /\ Emit("WifiDisconnected")
  /\ connected' = (connected /\ retries < MaxRetry)
  /\ Retry
  /\ UNCHANGED <<start, outage>>
OnStaDisconnected ==
  /\ OnEvent("STA_DISCONNECTED")
  /\ Emit("WifiDisconnected")
  /\ connected' = FALSE
  /\ Retry
  /\ UNCHANGED <<start, outage>>

\* Mutant: the counter is not reset
OnGotIpKeepsCount ==
  /\ OnEvent("GOT_IP")
  /\ Emit("WifiConnected")
  /\ connected' = TRUE
  /\ UNCHANGED <<start, driver, retries, outage>>
OnGotIp ==
  /\ OnEvent("GOT_IP")
  /\ Emit("WifiConnected")
  /\ connected' = TRUE
  /\ retries' = 0
  /\ UNCHANGED <<start, driver, outage>>

HandlerStep == OnStaStart \/ OnStaDisconnected \/ OnGotIp

\* The event bus gives the oldest message to the actors, once all have started
Dispatch ==
  /\ start = "done"
  /\ bus # <<>>
  /\ bus' = Tail(bus)
  /\ UNCHANGED <<start, driver, events, retries, connected, outage>>

StartStep == ScanOk \/ ScanFails \/ RescanAborts \/ Connect \/ ConnectFails

Next == StartStep \/ DriverStep \/ HandlerStep \/ Dispatch

Spec == Init /\ [][Next]_vars

----------------------------------------------------------------------------
\* Properties

TypeOK ==
  /\ start \in {"scan", "rescan", "connect", "done"}
  /\ driver \in {"off", "idle", "trying", "associated", "online"}
  /\ events \in Seq({"STA_START", "STA_DISCONNECTED", "GOT_IP"}) /\ Len(events) <= 2
  /\ retries \in 0..MaxRetry
  /\ connected \in BOOLEAN
  /\ bus \in Seq({"WifiConnected", "WifiDisconnected"}) /\ Len(bus) <= BusCap
  /\ outage \in 0..(MaxRetry + 1)

\* The driver is left idle, with nothing that would start it again, only after
\* every retry since the last address (or the start) has been used.
GivenUp == driver = "idle" /\ events = <<>>
GivesUpOnlyWhenSpent == GivenUp => outage = MaxRetry + 1

\* When the event task has caught up, _wifi_connected is the driver's state.
SettledAgrees == events = <<>> => (connected <=> driver = "online")

\* Every outage ends, in an address or with all retries spent, or with a restart.
OutageEnds == driver # "off" ~> driver \in {"online", "off"} \/ GivenUp
=============================================================================
