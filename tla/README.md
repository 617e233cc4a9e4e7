# A TLA+ model of zenoh-projects

`zenoh-projects` is a robotics monorepo of about sixty programs: firmware for
ESP32 and STM32 boards, a Rust message broker and clients on Linux, user
interfaces, and the experiments that led to them. Two of them are the live core,
and they talk to each other:

* **limeros** (`src/limeros`, Rust on tokio): the peer discovery, the UDP node,
  the publish/subscribe broker, clients and user interfaces;
* **zenoh-esp32-eventbus** (`src/zenoh-esp32-eventbus`, C++ on ESP-IDF): the
  firmware of the robot, a set of actors on one event bus.

This directory holds TLA+ modules translated from that code, the TLC
configurations that check them on small instances, and TLAPS proofs that hold
for every instance.

    tlc -config MCBroker.cfg MCBroker      # one run of the table below
    tlapm Broker_proofs.tla                # one module of proofs

## 1. Inventory

### limeros

| part | state | operations | talks to |
|---|---|---|---|
| `Scout` (`scout.rs`) | `endpoints`: name to address, last_seen, subscribe; `subscriptions`: pattern to list of destinations; both `DashMap` | `handle_multicast_packet` (an Alive arrives), `prune` (every period), periodic Alive | the multicast group; read by the two below |
| `UdpNode` (`lib.rs`) | `tx_queue`, an mpsc channel of 100; `generic_handlers` behind a mutex | unicast receiver (spawns a task per packet), unicast sender (drains `tx_queue` to the peers' addresses), `start_tasks` | UDP; reads `endpoints` |
| `Forwarder` (`bin/broker.rs`) | none of its own | `handle`: one `tx_queue` entry per subscriber of the packet's type, then per subscriber of `*` | reads `subscriptions`, writes `tx_queue` |
| client and `eventbus.rs` | an unbounded channel, a ping chain | ping, publish, subscribe | the broker |
| user interfaces (`tui.rs`, `wv.rs`) | last values | display | the broker |

Hard here: five tasks share two sharded maps, a mutex and a bounded queue, and
guards of the maps stay locked across other waits. What makes it correct: both
maps agree about live peers, a packet reaches exactly the subscribers of its type
and of `*`, once each, silent peers are forgotten, and no task waits for ever.

### The firmware

| part | state | operations | talks to |
|---|---|---|---|
| `EventBus` (`actor.cpp`, `actor.h`) | a FreeRTOS queue of 200 envelope pointers, the actors in registration order | `push` (any task, 100 ticks), `loop`: `on_start` of all, then receive, `on_message` of all, delete, timers of all | every actor |
| `Timer`, `Timers` (`actor.cpp`, `actor.h`) | per timer: active, one-shot or repetitive, expiry | `fire`, `stop`, `refresh`, `is_expired`, `sleep_time`, `get_expired_timers` | the loop's timer pass, every actor |
| `WifiActor` (`wifi_actor.cpp`) | `s_retry_count`, `_wifi_connected` | `on_start` (scan, connect), `event_handler` in ESP-IDF's event task | the driver; emits `WifiConnected`, `WifiDisconnected` |
| `OtaActor` (`ota_actor.cpp`) | `_ota_task_handle`; in its server task the block number, the OTA handle and the progress flag | start and stop the task, TFTP PUT into the spare partition, boot it | Wi-Fi messages; UDP port 69 |
| `McActor` (`mc_actor.cpp`) | sockets, listener tasks, `_source_map` | publish and receive over multicast and unicast, ping | Wi-Fi messages; the limeros broker |
| `HoverboardActor` | the last command, the UART framer | COBS frames with checksum, resend every 100 ms | the motor board |
| `LedActor` | its state, the level of the pin, one timer for pulses and blinking | on, off, pulse, blink, `on_timer` | the bus |
| `SysActor`, `MdnsActor` | board values | publish, announce | the bus |
| `ZenohActor` | - | not registered in `main.cpp` | - |

Hard here: callbacks of all actors run in one task that also fills the queue they
are called from; driver events, the bus and the server task run at different
speeds; tasks are deleted in the middle of what they do; uploads come over UDP; one
timer serves several purposes and is stopped, restarted and overdue at any time.
What makes it correct: every envelope has one owner and reaches all actors in one
order, the retry counter neither gives up early nor for good without need, the
updater follows the link, what was acknowledged to the end and found good boots, a pulse has its
length, and the wheels hear of the last command at a steady pace.

### The STM32 serial port (`zenoh-stm32/lib/stm32_stm32cube`)

| part | state | operations | talks to |
|---|---|---|---|
| `CircBuf` | slots, read and write position | `write`, `read`, `size`, `space` | one of main loop and interrupt at each end |
| `HardwareSerial` (`Serial.cpp`) | two `CircBuf`s, the chunk being sent | `write`, `isr_txd_done`, `isr_rxd` | the UART's interrupts |
| `_z_read_serial_internal` (`network.cpp`) | the partial frame | reads to the next marker or until a timeout | zenoh-pico |

Hard here: interrupts come between any two memory accesses of the main loop,
buffers are full or empty at that moment, and chunks are dropped in mid-frame.
What makes it correct: bytes leave in the order they were taken in, every byte
leaves, and framing finds its way back after a loss.

### The serial client (`esp_no_std`)

| part | state | operations | talks to |
|---|---|---|---|
| `UartActor` (`uart.rs`) | the message being written | reads frames, writes commands | the line; the client's queue |
| `PubSubActor` (`pubsub.rs`) | connected or not, `ping_timeouts`, topics, message ids | answers to the gateway's messages, ping and connect timers | the uart's queue |
| `Sys` (`sys.rs`) | a timer | publishes board values | the client's queue |

Hard here: one task polls them all, their queues are a few entries long and drop
what does not fit, the line and the gateway lose messages, and the ping counter
outlives the connection it counted for. What makes it correct: silence is noticed,
and after trouble the client comes back for good.

### The rest

`PROJECT.json` lists the other parts and why they are left out: motor
control loops (numerical, on hardware counters), older firmware of the same
structure, earlier actor frameworks, dashboards, generated message types,
vendored network and JPEG code.

## 2. The modules and the code

| module | what it is |
|---|---|
| `Broker` | limeros broker: Scout, UdpNode and Forwarder with their locks and queue |
| `PubSub` | the abstract publish/subscribe service that `Broker` implements |
| `EventBus` | the firmware's queue, `push` and `loop` |
| `Broadcast` | the abstract broadcast log that `EventBus` implements |
| `Wifi` | the Wi-Fi actor, with the driver and the bus as its environment |
| `Ota` | the OTA actor, its TFTP server task, and the upload command as environment |
| `WifiOta` | `Wifi` and `Ota` joined by the event bus |
| `Timers` | the firmware's timers and the loop's timer pass, with the LED and the hoverboard actor |
| `CircBuf` | the circular buffer, as operators on its value |
| `Serial` | the serial port: two `CircBuf`s, interrupts, the frame reader |
| `Pipe` | the abstract byte pipe that each direction of `Serial` implements |
| `Client` | the serial pub/sub client, with line and gateway as its environment |
| `MCBroker`, `MCEventBus`, `MCOta`, `MCWifiOta` | constants for TLC |
| `Broker_proofs`, `EventBus_proofs`, `Wifi_proofs`, `Ota_proofs`, `WifiOta_proofs`, `Timers_proofs`, `Serial_proofs`, `Client_proofs` | the proofs; `WifiOta_proofs` goes on from `Wifi_proofs` and `Ota_proofs` |

### Broker

One group of actions per tokio task.

* **Multicast receiver**, `handle_multicast_packet`: `RecvAlive` takes a packet,
  `InsertEndpoint` updates `endpoints`, then one `AddSubscription` per announced
  pattern. Each takes the lock of the key it writes, so they are separate steps.
* **Pruner**, `Scout::prune`: `PruneStart`, `PruneVisit` per endpoint with
  `iter_mut()`; for a stale one `PrunePurge` per pattern and `PruneSweep` (the
  `retain` that drops empty lists), all under that endpoint's lock; then
  `PruneIterated` and `PruneRetain` per endpoint, with a new reading of the clock.
* **Unicast receiver and handlers**: `ReceivePacket`, `SpawnHandler` (waits for
  `generic_handlers`, which a running handler holds), `StartHandler` (any spawned
  task may get the mutex first).
* **Forwarder::handle**: `StartHandler` and `LookupWildcard` take the read guard of
  a list, `ForwardTo` awaits room in `tx_queue` under it, `FinishHandler` ends.
* **Unicast sender**: `PopTx`, then `SendDatagram`, which reads the endpoint.
* `Tick` ages the endpoints. Time never has to pass.

Locks are predicates of the tasks' positions (`EndpointLocked`,
`SubscriptionsLocked`), since that is what guards are. A DashMap locks a shard,
several keys at once; the model gives each key a lock of its own, which permits
every interleaving a map with a shard per key has. Sharing a shard can only make
more tasks wait for each other. `copies` is a history variable.

### EventBus

`PushBegin` is `xQueueSend`: it succeeds or the producer waits; `PushResumes` and
`PushDrops` end the wait, with the envelope in the queue or deleted. The loop has a
step in and a step out of every callback (`StartActor`/`ActorStarted`,
`OnMessage`/`MessageHandled`, `RunTimers`/`TimersRun`), and between them the actor
may push (`LoopPush`), which can block the loop's own task for the length of the
timeout. Which timers have expired is left open: `RunTimers` may push or not.
`log` and `seen` are histories.

### Wifi

`start` follows `on_start`. A scan that fails is called again and its second call
creates the default event loop twice, so `ESP_ERROR_CHECK` restarts the firmware
(`RescanAborts`). `HandlerStep` is `event_handler`, one action per event;
`DriverStep` is the external driver, which queues events that the event task takes
later. `Emit` is the push onto the bus, which deletes the message when there is no
room.

### Ota

`ActorStep` is `on_message`. `ServerStep` has one action for each branch of the
server task, the failing calls included. Stopping deletes the task wherever it
is; lwIP does not close a deleted task's socket, hence `bound` stays. Deleting a
task that has already deleted itself hands FreeRTOS a freed handle; the model
chooses between no effect and a panic (`DeleteDeletedTask`, `PanicOnDelete`). There
are two partitions, the one the firmware runs from (`app`) and the spare one (`flash`);
`boot` is the one otadata names, and `Restart` swaps them when that is the spare one.
`esp_ota_begin` is called without a size and erases the whole partition. When it fails
(`RefuseWrq`), it has erased nothing, a beginning, or all, and the code leaves an upload
in progress as it was: `refused` remembers that such an upload has lost blocks. `ended`
is the session whose last block was acknowledged, until the upload is found bad, the
task is deleted over it, or another one ends. Both are histories.
`rx` and `tx` are sets that only grow: a datagram may be received late, repeatedly,
out of order or never. The upload command is external and only does what the
server needs of it. Block numbers are sixteen bits wide in the code; the flash
holds fewer than 65 536 blocks of 512 bytes (4 MB are 8 192), so wrapping around
is out of reach and left out.

### WifiOta

The bus of `Wifi` delivers to the handlers of `Ota`; the driver, the event task,
the loop, the server task (`ServeStep`) and the upload command (`UploadStep`) interleave
freely, and a restart after an update (`RebootAll`) or a panic (`PanicAll`) takes the
Wi-Fi down too. It extends `Wifi`, so the properties of the Wi-Fi
actor are checked here, under a bus that the updater's handlers really empty.

### Timers

`PassStep` follows `EventBus::loop` after its receive: for the LED and then the
hoverboard, `Scan` (`get_expired_timers`), `LedOnTimer`/`HbOnTimer` (`on_timer`),
`RefreshTimer`, `TakeSleepTime`. The code reads the clock at each of them, so `Tick`
may come between any two, up to `Lag` ticks in a pass; while the loop waits a tick
runs its timeout down. A timer is the number of ticks left, negative when it is
overdue. `Stop`, `Fire`, `Refresh`, `IsExpired` and `SleepTime` are the methods as
they are: `is_expired` does not look at `_active`. A message ends the wait at any
time; `OtherMessage` stands for those that neither actor heeds. `pulse` and `quiet`
are histories. The hoverboard has a second timer, of 5 s, whose delivery does
nothing; since it only ends waits, `OtherMessage` covers it, and the list of expired
timers has one entry or none. `Init` is the first `receive`: the Wi-Fi actor's
`on_start` comes between the constructors and the loop and may take long, so each
timer is fresh or overdue.

### CircBuf, Serial

`start[writePos++ % limit] = b[i]` is two stores, and the compiler chooses their
order. `PositionsAfter` says which build it is; the shipped one, `gcc -Os`, moves the
position first, and that is the order the runs check. An operation of the main loop is a
`First` and a `Then` half, and an interrupt handler, which nothing interrupts, is
one step (`TxDone`, `Rxd`). `Kick` may be one step as well: `isr_txd_done` is called
by `write` only while the port is ready, and then no interrupt reads that buffer.
Bytes are their own numbers, so a byte that is lost, doubled or changed shows. With
positions first an interrupt can catch a byte between its two accesses and spoil it: the
transmit interrupt takes out a slot that was not written yet, or the receive interrupt
reuses one that is just being read. Two histories name those bytes and no others: `early`
is filled by `Transmit` when it passes the slot `write` is at, `late` by `Rxd` when the
slot being read changes. `cut` holds places in what was read, since a spoilt byte may
have the number of another. The reader follows `_z_read_serial_internal`: `InTime`/`ReadTimeout` is the test of the
deadline, `GetFirst`/`GetThen` the read, `Parse` what a marker sets off. Decoding a
frame is zenoh-pico's and external: it accepts what was sent and nothing else,
which is what its checksum is for.

### Client

`turn` says which future of `main`'s task is polled: uart, pubsub, sys, in the order
of `main.rs`. A poll of the uart reads what has arrived or takes a command, and
neither while it writes; pubsub handles commands before timers, and of two expired
timers either may come first: `alarm` returns the one it has slept for, or else the one
of the lowest id. Each future goes on until it would wait. `Offer` is `try_send`,
which drops. Message contents are abstracted to what changes the connection; all
others are `Other`, which still take their places in the queues. The gateway and
the line are external: they answer, lose, forget and end sessions.

## 3. Runs

All bounds are constants of the cfg. Deadlock is not checked where the model really
may stop: nobody announces itself any more, the envelopes or messages allowed are
used up, the uploads are over.

| run | what it asks | properties |
|---|---|---|
| `broker_safety` | do both maps, the forwarder and the copies stay right while the pruner and the receiver work? | `TypeOK`, `FreshEndpointsSubscribed`, `ForwardOnlyToSubscribers`, `RoutesLikePubSub` |
| `broker_live` | is the one known cycle of waits all that can stop the broker, and does it ever end? | `PacketsHandledUnlessCycle`, `SilentForgottenUnlessCycle`, `QueueDrainsUnlessCycle`, `CycleIsForEver` |
| `broker_stuck` | is every packet handled? (no: that cycle) | `EveryPacketHandled` |
| `broker_orphan` | does forgetting a peer leave a subscription? (yes) | `ForgottenLeavesNoSubscription` |
| `eventbus` | ownership, order, delivery and the end of every push, with three actors and three producers | `TypeOK`, `OneOwner`, `SourceOrder`, `StartedBeforeMessages`, `Broadcasts`, `AcceptedIsDelivered`, `PushEnds` |
| `wifi_ota` | is the retry counter right, does the flag follow the driver and the updater the link, and is an upload that was acknowledged to the end installed? | `TypeOK`, `GivesUpOnlyWhenSpent`, `SettledAgrees`, `UpdaterFollowsLink`, `OutageEnds`, `DoneIsInstalled` |
| `ota` | does the partition hold the blocks in their places over a bad network, with calls that fail, and does what was acknowledged to the end boot? | `TypeOK`, `FlashIsPrefix`, `LastAckMeansWhole`, `UploadKept` |
| `ota_reconnect` | does the actor's handle mean a task? (no) | `HandleMeansTask` |
| `timers` | how long is a pulse, how often are the wheels told, what does a spent timer do? | `TypeOK`, `PulseLength`, `CommandPace`, `SpentTimerIsHarmless`, `BlinkGoesOn`, `CommandReachesWheels` |
| `serial` | in the shipped order of accesses: are both directions pipes but for the bytes caught in between, does every byte leave, does framing recover? | `TypeOK`, `IntactFramesPassedOn`, `Sends`, `Receives`, `EveryByteLeaves` |
| `serial_order` | does the transmit interrupt read only what was written, whatever the build? (no) | `ReadsOnlyWritten` |
| `client` | is silence noticed, and does the client come back? | `TypeOK`, `SilenceNoticed`, `Recovers` |

What they show, and why the bounds are enough:

* **Broker.** Two peers, one type and `*`, a queue of one entry, and two packets, one
  of them without a type: a peer can be stale, come back, be purged and be served in
  every order, the second one interferes, and the forwarder meets a full queue with
  one subscriber more than it has room for. `PeerTimeout = 1` with `MaxAge = 1` makes
  a peer cross the limit at any step. The observer of `RoutesLikePubSub` counts a
  packet as routed when the forwarder looks a pattern up; for it every lookup is
  one atomic step to exactly the subscribers of that moment. In `broker_live` one
  peer is subscribed to both patterns and two packets make four copies for a queue
  of one: the queue is full and the peer stale in every combination. `Cycle` is the
  whole circle: forwarder, pruner and sender each wait for what the next one has.
  That the properties hold in every other state means that a full queue alone, or a
  timeout alone, stops nothing. `CycleIsForEver` says that it never ends by itself.
* **EventBus.** Three actors, the loop and two other tasks, two envelopes each and
  a queue of two: six envelopes over a queue that overflows. The loop itself meets a
  full queue, for which only it can make room, and `PushEnds` rests on the timeout
  alone.
* **Ota.** Images of three blocks, so there is a first, a middle and a short last
  one; two sessions with an image each, three starts and two stops, so a task can be
  stopped, started over, and stopped again while the image it wrote waits for a restart;
  every call may fail. The server takes blocks from any sender, so the partition can
  hold blocks of both images, and only `esp_ota_end` keeps a mixture from booting. What
  the protocol itself ensures is that the blocks are in their places, and complete
  unless a refused write request erased a beginning (`FlashIsPrefix`,
  `LastAckMeansWhole`). `UploadKept` says what an acknowledged last block is worth: once
  `esp_ota_end` has found the image good, it is that session's, whole, and it boots.
  No stop, failing call or other session gets at the partition between
  `esp_ota_set_boot_partition` and the restart, and after it the firmware runs from
  there. The leaked socket of the finding below is part of why: a stop in that second
  leaves the port taken, so no new task serves (the mutant closes the socket).
* **WifiOta.** Two retries, a bus of three messages, three starts and stops, images
  of two blocks: an outage can use up its retries, end just before, or be followed
  by another one while the messages of the first are on the bus. `outage` counts
  disconnections since the last address, independently of the counter in the code;
  `GivesUpOnlyWhenSpent` compares the two. The proofs cover every retry limit.
  `UpdaterFollowsLink` is for histories in which the bus had room: a message lost on
  a full bus leaves the updater on the wrong side until the next change. One session
  puts one image, and the calls succeed; `ota` has the other sessions and the failures.
  `DoneIsInstalled` begins with the acknowledgement of the last block and ends with the
  image running, or waiting for a restart when a stop came in the second before it. It
  promises nothing when `esp_ota_end` refuses the image or a stop deletes the task while
  it finalizes: the command has been told of success by then (`ota_actor.cpp:184`).
* **Timers.** Periods of one and two ticks, pulses shorter and longer than both, and a
  tick of lag in every pass: a timer may be due, overdue, or become due at any step of
  a pass, and a message may cut every wait short. The bounds in `PulseLength` and
  `CommandPace` count the passes that may lie between an expiry and its delivery:
  the delivery of an overdue timer can miss its own pass by one reading of the clock.
* **Serial.** Buffers of three bytes, chunks of two: positions go twice round the
  buffer, a chunk fits, just fits or is refused, and there are three frames, so a
  loss can hit the first, the middle and the last, or the seam of two. Positions move
  first, so bytes are spoilt in both directions, between frames and inside them.
* **Client.** Queues of two and three entries against bursts of two, one ping that may
  stay unanswered. The gateway sends of its own when the line is empty, and answers
  whatever is on it, so no answer is lost for want of room. Each of the queues
  overflows, and `pings` passes its limit.

## 4. Fairness

* **Broker.** Strong fairness for the receiver, the pruner and the sender, whose
  locks are free again and again: tokio runs what can run, and a waiting writer is
  granted a lock that keeps being released. Weak fairness for the handler tasks.
  Neither the clock nor the network has to move.
* **EventBus.** Weak fairness for the loop's task, and for the end of a timed wait.
* **WifiOta.** Weak fairness for the event task, for an attempt to associate (it
  ends, in an address or in `STA_DISCONNECTED`), and for the server task, its restart
  of the board included (`RebootAll`). The link may be lost for ever. The upload command
  has no fairness: the property begins when its last block is acknowledged. A lost acknowledgement stalls an upload until it is
  started over, since a repeated block is not acknowledged again
  (`ota_actor.cpp:169-174`) and `TFTP_TIMEOUT_MS` is unused. The bus need not be
  dispatched at all.
* **Timers.** Weak fairness for the loop's task, whose steps are always possible but for
  its waiting; strong fairness for `Tick`, since the clock cannot move while the pass
  has used up its lag. No message need come.
* **Serial.** Weak fairness for the main loop and for the end of a transmission.
* **Client.** Weak fairness for the polls, since a timer wakes the task again and
  again; strong fairness for the timers and for both directions of the line, which may
  deliver or lose. `Recovers` assumes that from some time on nothing is lost or
  forgotten, nothing finds a queue full, and every ping finds queues and line empty,
  that is, the answer to the one before has come.

Tokio's part of the assumption for the broker is that a task that waits for a map's
lock, and so blocks its worker thread, does not keep the others from running. A guard is
held across an await by the running handler only, and four tasks can block on it, directly
or through each other: receiver, pruner, sender, and the task of `main` that displays both
maps every five seconds (`broker.rs:79-95`). So five workers are enough; tokio starts one
per core.

## 5. What the checks found

* `broker_stuck`: the forwarder holds a list's read guard while it waits for room in
  `tx_queue`; the pruner, holding a stale peer's endpoint, waits for that list; the
  sender, which alone makes room, waits for that endpoint. Nothing moves any more.
* `broker_orphan`: `prune` reads the clock once to remove subscriptions and again to
  remove endpoints. A peer that crosses the limit in between keeps its
  subscriptions for ever.
* `ota_reconnect`: after an outage the deleted task's socket still holds port 69, so
  the next server task fails to bind and ends, and there is no OTA until the next
  restart.
* `serial_order`: with `gcc -Os` the write position of `CircBuf` is stored before the
  byte, and a transmit interrupt between the two takes out a slot that holds an old
  byte. The receiving side has the same weakness with a full buffer, an interrupt
  between the two accesses of a read; `Receives` allows for those bytes by name (`late`),
  as `Sends` does for the others (`early`).

Modelled as the code has it, without a text to hold it against: handler tasks race
for `generic_handlers`, so packets of one sender may be forwarded in the opposite
order; subscriptions are only ever added while a peer lives; a failed scan restarts
the firmware; when `esp_ota_begin` of a repeated write request fails after it has
erased, the upload in progress goes on behind the erased beginning, its sender is told
nothing, and its last block is acknowledged all the same, so that only `esp_ota_end`
keeps it from booting; and the upload command reads success before `esp_ota_end` has
looked at the image at all.

## 6. Proofs

The assumptions on constants are the named ones (`BrokerAssumption`,
`EventBusAssumption`, `WifiAssumption`, `OtaAssumption`, `UploadAssumption`,
`TimersAssumption`, `CircBufAssumption`, `SerialAssumption`, `ClientAssumption`), which
TLC evaluates in the runs. Some theorems have a hypothesis besides:

* `PositionsAfter` in `WrittenFirst` and `NoneSpoilt` of `Serial_proofs`: a build that
  updates a position after its slot, the order the comment in `CircBuf.cpp` states. It
  cannot be dropped: `serial_order` shows the other build. All other theorems there hold
  in both orders.
* `~CallsFail` in `FollowsLink`, as in the run: a server task that cannot be created is
  not tried again before the next `WifiConnected`.

**Broker_proofs.** `TypeCorrect`, `FreshSubscribed` (`FreshEndpointsSubscribed`),
`ForwardSubscribers` (`ForwardOnlyToSubscribers`) and `Refinement`
(`RoutesLikePubSub`), for any peers, patterns, packets, timeout and queue. The
invariant `IInv` (in `Broker`) adds to the types what the tasks know of each other,
`TasksOK` above all: the endpoint the pruner works under its lock is stale and
stays so, because a new Alive needs that lock. So `FreshListedOrPending` survives a
purge: what is removed belongs to a stale peer. `FreshEndpointsSubscribed` alone is
not inductive, since it says nothing while the receiver is between its steps. The
refinement needs `HandledOnce` as well (a packet is in one place, and has no copies
before it is looked up). `AtMostOneCopy` is read off the refinement: what `PubSub`
routes at most once is an upper bound of what is in the queue.

The finding of `broker_stuck` is a lasso of a small instance; `NeverBroken`
(`CycleIsForEver`) and `CycleLosesPackets` are what it means in general. `Cycle` is
closed under every step: the pruner can still finish lists that the forwarder does not
hold, but the list both want stays in `prune.left` (`PruneInCycle`), and the handlers,
the forwarder and the sender have no step at all. So however many peers there are and
however large the queue, no announcement, arrival or passing of time ends it, and a
packet that was not handled by then never is.

**EventBus_proofs.** `TypeCorrect`, `SourcesInOrder` (`SourceOrder`) and
`Refinement` (`Broadcasts`), for any number of actors, tasks and envelopes and any
depth. The queue, the loop and the actors are shown to be views of one log: the
queue is its end (`Queued`), the entry before it is being dispatched
(`Dispatching`), and every actor has seen the rest, and that entry once the loop
has reached the actor (`SeenPrefix`). On the producers' side an envelope that waits
is the last its producer made (`Waiters`, `Made`), so what enters the log is new
and in order (`Ordered`).

`OneHistory` says it for the actors among each other: two of them agree on what both
were given, and none is more than one envelope ahead.

`StartsFirst` (`StartedBeforeMessages`) and `OneOwnerAlways` (`OneOwner`) go on from
that invariant. The log is freed from its front: `Live` is the first entry that is not,
the one being dispatched or else the head of the queue. The invariant `Owned` says that
a freed envelope was made, no longer waits and is not in the log from `Live` on, and
that one that was made is freed, waits, or is there. It is the order of the log (no
envelope twice) that makes freeing the front entry free nothing else.

**Wifi_proofs.** `TypeCorrect`, `SpentFirst` (`GivesUpOnlyWhenSpent`) and
`FlagFollowsDriver` (`SettledAgrees`), for any retry limit and bus. Both properties
speak of an empty event queue and are not inductive; `IInv` describes the five
queues there can be (`Types`) and how driver, counter and outage stand for each of
them (`Drained`, `Pending`). That there are never more than two events is part of
it: after a disconnection the driver waits for the handler.

**Ota_proofs.** `TypeCorrect`, `PrefixInFlash` (`FlashIsPrefix`), `LastAckLast`
(`LastAckMeansWhole`) and `AcknowledgedBoots` (`UploadKept`), for any sessions, images,
blocks, starts and stops and whichever calls fail. `FlashIsPrefix` is inductive with the
types: a block goes behind those that are there (`WrittenInOrder`), and a refused write
request moves the beginning of what is left (`RefusedErases`).

`AcknowledgedBoots` needs more, the invariant `KInv`. While the image is finalized its
last block tells whose it is (`EndedKept`), and `esp_ota_end` accepts only whole images,
so what it accepts is that session's. From then on the partition must stay untouched
until the restart: no task serves, and none can start to, because whoever wrote the
partition holds the port, alive or deleted (`Guarded`, with `Owned`: a task that serves,
finalizes or is about to restart has the port, and no task runs without a handle). After
the restart the firmware runs from that partition and `esp_ota_begin` erases the other.

**WifiOta_proofs.** `FollowsLink` (`UpdaterFollowsLink`) rests on the last word of the
Wi-Fi actor: the last message on the bus, or the updater's handle when there is none,
says what the connected flag says (`LastWord`), unless a message was lost.

The rest says that joining the two actors takes nothing away from either. The system's
steps, seen from the Wi-Fi actor, are its own steps, a message taken off the bus, or a
restart; its invariant survives them (`SystemWifi`), and so `SystemTypes`, `SystemSpent`
and `SystemFlag` state `TypeOK`, `GivesUpOnlyWhenSpent` and `SettledAgrees` of the
system. Seen from the updater they are steps of `Ota` (`SystemIsOta`: `SystemSpec =>
O!Spec`), which carries the theorems of `Ota_proofs` over: `SystemPrefix`
(`FlashIsPrefix`) and `SystemKeeps` (`UploadKept`), both without a hypothesis.

**Timers_proofs.** `TypeCorrect`, `PulseIsLong` (`PulseLength`), `WheelsInTime`
(`CommandPace`) and `SpentIsHarmless` (`SpentTimerIsHarmless`), for any periods,
durations and lag. The bounds hold at every step and say nothing about how late a
timer may be on the way, so the invariant follows both timers through a pass: what is
left of the hoverboard's and the time the wheels have waited make up a period
(`Paced`), and the LED's timer is what is left of a pulse that is lit (`Pulsing`), with
a bound on its lateness for each step of the loop.

**Serial_proofs.** `TypeCorrect`, `SendsAsPipe` (`Sends`), `ReceivesAsPipe`
(`Receives`) and `FramesPassedOn` (`IntactFramesPassedOn`), for buffers and chunks of any
size, markers anywhere, and either order of position and slot. One invariant covers both
orders: `Ahead` and `Behind` are by how much a position may be ahead of its slot, 1
between the two halves of an operation in the build that moves positions first and 0
otherwise. What is in a buffer is in the slots of its positions modulo the size (`Sent`,
`Recv`); the arithmetic is one lemma, `OwnSlot`: two positions less than a buffer apart
never share a slot. So the receive interrupt, which trusts a position that has moved too
early, reaches at most the one slot the reader is at, and the transmit interrupt at most
the one that `write` is at; these are the bytes in `late` and `early`. `Sent` also says
that the chunk being sent lies between what left the port and the read position, whether
`write` or the interrupt put it there; the two pipes are read off (`DepartedInOrder`,
`DeliveredInOrder`). A slot that was passed once holds a byte, an old one at worst
(`Filled`), so what is read is always a number.

For the frames, `Framing` says that the partial frame is the end of what was read, since
the last marker parsed or the last timeout (`Partial`), and that every intact frame
before it was passed on (`Passed`). `IntactFramesPassedOn` itself says nothing about the
frame being read and is not inductive.

`NoneMiscounted` is about how many bytes there are, whatever they are; `NoneSpoilt` and
`WrittenFirst` say that in a build that moves positions second `early` and `late` stay
empty and the chunk holds only what was written: the spoilt bytes come from the order of
the accesses and from nothing else.

**Client_proofs.** `TypeCorrect`, for queues, bursts and a ping limit of any size. The
type is what there is to say about overflow: whoever offers what to a queue, what does
not fit is dropped and the queue keeps to its capacity (`Offered`), and `pings` stays in
the range the model counts. Two queues depend on a third: what the uart hands on came
off the line, and what it writes came from the client, so the conjuncts of `TypeOK` are
proved together, one lemma for each of the three futures and one for the world outside.
While something is written, the line has room for its answer.

**Only model-checked**: liveness, which is out of the prover's reach
(`PacketsHandledUnlessCycle`, `SilentForgottenUnlessCycle`, `QueueDrainsUnlessCycle`,
`AcceptedIsDelivered`, `PushEnds`, `OutageEnds`, `DoneIsInstalled`, `BlinkGoesOn`,
`CommandReachesWheels`, `EveryByteLeaves`, `SilenceNoticed`, `Recovers`). Every safety
property of a passing run is a theorem. `SilenceNoticed` and `Recovers` are all that
`Client` promises.

## 7. What is left out, and the plan

Left out of the modelled parts:

* **Broker**: the encoding of messages (CBOR, JSON); the broker's own Alive every
  second; packets that come before `main` has registered the forwarder, which no
  handler sees; `add_sender`, which silently gives up when the mutex is taken and
  which the broker does not call; the task of `main` that displays both maps every
  five seconds. A DashMap iterator keeps the lock of the shard it leaves until it has
  the next one; in the model the pruner lets go first, which permits more.
* **Event bus**: plain message handlers (`main.cpp:51` has the only one commented out);
  `Thread` and `QueueSet` of `actor.h`, which nothing uses. `FREERTOS_HZ` is 1000, so
  ticks are milliseconds.
* **Wi-Fi**: the choice of an access point and `publish_info`.
* **Timers**: the 64-bit clock, which does not wrap; other actors' timers, which act on
  the loop only through its timeout.
* **Hoverboard**: the UART, COBS and checksum of the frames to and from the wheels.
* **Serial**: the HAL's error callback, which arms a one-byte reception into its own stack
  frame; the result of `write`, which `_z_send_serial_internal` does not report.
* **Client**: topics and message ids (`msg_id` is sixteen bits and would overflow after
  65 535 publishes); the commands that `main` wires to nobody; the LED; `sys/echo`, a
  topic outside the client's own subscription `dst/esp32/**`. A Subscribe whose
  acknowledgement is lost is not repeated, and giving up after lost pings does not
  forget the gateway's topics: no text says what should hold.

Not modelled, by decision: `McActor`, whose hazards are two data races without a defined
outcome (`_source_map` and `_broker_name` are written by the listener tasks and read by
the loop) and growth without a promised bound (sockets and tasks per `WifiConnected`,
pings per timer tick); the serdes framer, a sequential codec; `eventbus.rs` and
`client.rs` of limeros, where nothing interleaves.

What could come next, in this order:

1. `McActor` with its address map behind a lock it does not have, as a statement of what
   the lock would give.
2. Topics in `Client`: registrations of the gateway against `server_topics`.
