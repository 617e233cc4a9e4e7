------------------------------- MODULE Serial -------------------------------
(***************************************************************************)
(* A serial port of the STM32 boards: two circular buffers between the     *)
(* main loop and the port's interrupts, and zenoh-pico's read loop, which  *)
(* cuts the bytes into frames at the markers.                              *)
(*                                                                         *)
(* An interrupt handler runs between any two steps of the main loop, from  *)
(* beginning to end.  Bytes are numbered: a byte to send by its place in   *)
(* what write took in, a received byte by its place in what the other side *)
(* sends; Ends are the places of the markers.                              *)
(***************************************************************************)
EXTENDS CircBuf, FiniteSets

CONSTANTS
  SbufSize,  \* the transmit chunk, 32 in the code
  MaxChunk,  \* longest write and longest received chunk
  MaxTx,     \* bound: bytes that write takes in
  Last,      \* bound: bytes the other side sends
  Ends       \* the COBS markers among them

ASSUME SerialAssumption ==
  /\ SbufSize \in Nat \ {0} /\ MaxChunk \in Nat \ {0}
  /\ MaxTx \in Nat /\ Last \in Nat
  /\ Ends \subseteq 1..Last

VARIABLES
  tx,        \* _txBuffer
  rx,        \* _rxBuffer
  gState,    \* HAL: whether a transmission is going on
  sbuf,      \* _sbuf
  wire,      \* bytes that left the port
  arrived,   \* bytes that reached the port
  main,      \* the main loop: its step, bytes left to write, the byte it reads
  raw,       \* raw_buf of _z_read_serial_internal
  accepted,  \* history: number of bytes write took in
  taken,     \* history: bytes the receive interrupt put into the buffer
  got,       \* history: bytes the main loop took out of it
  frames,    \* markers of the frames passed on to zenoh-pico
  cut,       \* history: places in got of the bytes dropped when a read timed out
  early,     \* history: bytes the transmit interrupt took out before their store
  late       \* history: places in got overwritten before their load

txVars == <<tx, gState, sbuf, wire, accepted, early>>
rxVars == <<rx, raw, got, frames, cut, late>>
vars == <<txVars, rxVars, arrived, taken, main>>

Init ==
  /\ tx = NewCircBuf /\ rx = NewCircBuf
  /\ gState = "ready" /\ sbuf = <<>> /\ wire = <<>>
  /\ arrived = 0
  /\ main = [pc |-> "idle", left |-> 0]
  /\ raw = <<>>
  /\ accepted = 0 /\ taken = <<>> /\ got = <<>> /\ frames = {} /\ cut = {}
  /\ early = {} /\ late = {}

At(pc) == main.pc = pc
Goto(pc) == main' = [main EXCEPT !.pc = pc]

----------------------------------------------------------------------------
\* HardwareSerial::write

\* the whole of the data or nothing
WriteAnyway(n) ==
  /\ At("idle") /\ accepted + n <= MaxTx
  /\ main' = [pc |-> "put", left |-> n]
  /\ UNCHANGED <<txVars, rxVars, arrived, taken>>
Write(n) ==
  /\ At("idle") /\ accepted + n <= MaxTx
  /\ Space(tx) >= n
  /\ main' = [pc |-> "put", left |-> n]
  /\ UNCHANGED <<txVars, rxVars, arrived, taken>>

PutFirst ==
  /\ At("put")
  /\ tx' = WriteFirst(tx, accepted + 1)
  /\ Goto("putting")
  /\ UNCHANGED <<gState, sbuf, wire, accepted, early, rxVars, arrived, taken>>

PutThen ==
  /\ At("putting")
  /\ tx' = WriteThen(tx, accepted + 1)
  /\ accepted' = accepted + 1
  /\ main' = [pc |-> IF main.left = 1 THEN "kick" ELSE "put", left |-> main.left - 1]
  /\ UNCHANGED <<gState, sbuf, wire, early, rxVars, arrived, taken>>

\* isr_txd_done moves up to SbufSize bytes into _sbuf and transmits them
Transmit ==
  LET n == IF Size(tx) < SbufSize THEN Size(tx) ELSE SbufSize
  IN /\ sbuf' = SubSeq(Contents(tx), 1, n)
     /\ tx' = ReadAll(tx, n)
     /\ gState' = IF n > 0 THEN "busy" ELSE "ready"
     /\ early' = early \cup {b \in (tx.readPos + 1)..(tx.readPos + n) :
                               At("putting") /\ b = accepted + 1}

\* Mutant: the state of the port is not looked at
KickAnyway ==
  /\ At("kick")
  /\ Transmit
  /\ Goto("idle")
  /\ UNCHANGED <<wire, accepted, rxVars, arrived, taken>>
\* Mutant: write leaves the transmission to the interrupt
KickNot ==
  /\ At("kick")
  /\ Goto("idle")
  /\ UNCHANGED <<txVars, rxVars, arrived, taken>>

\* isr_txd_done, called by write: nobody else reads the buffer while the port
\* is ready, for only the end of a transmission calls back.
Kick ==
  /\ At("kick")
  /\ IF gState = "ready" THEN Transmit ELSE UNCHANGED <<tx, sbuf, gState, early>>
  /\ Goto("idle")
  /\ UNCHANGED <<wire, accepted, rxVars, arrived, taken>>

\* HAL_UART_TxCpltCallback
TxDone ==
  /\ gState = "busy"
  /\ wire' = wire \o sbuf
  /\ Transmit
  /\ UNCHANGED <<accepted, rxVars, arrived, taken, main>>

----------------------------------------------------------------------------
\* HAL_UARTEx_RxEventCallback: isr_rxd ignores that the buffer refused a chunk

Chunk(n) == [k \in 1..n |-> arrived + k]

\* The byte that the main loop is just reading may be among those overwritten
Overwritten ==
  late' = late \cup {k \in {Len(got) + 1} : At("getting") /\ ReadValue(rx') # ReadValue(rx)}

\* Mutant: room is not looked for
RxdAnyway(n) ==
  /\ arrived + n <= Last
  /\ arrived' = arrived + n
  /\ rx' = WriteAll(rx, Chunk(n)) /\ taken' = taken \o Chunk(n)
  /\ Overwritten
  /\ UNCHANGED <<txVars, raw, got, frames, cut, main>>

Rxd(n) ==
  /\ arrived + n <= Last
  /\ arrived' = arrived + n
  /\ IF Space(rx) >= n THEN rx' = WriteAll(rx, Chunk(n)) /\ taken' = taken \o Chunk(n)
                       ELSE UNCHANGED <<rx, taken>>
  /\ Overwritten
  /\ UNCHANGED <<txVars, raw, got, frames, cut, main>>

----------------------------------------------------------------------------
\* _z_read_serial_internal

ReadCall ==
  /\ At("idle")
  /\ raw' = <<>>
  /\ Goto("check")
  /\ UNCHANGED <<txVars, rx, got, frames, cut, late, arrived, taken>>

\* The call is within READ_TIMEOUT; what 115200 baud brings in that time stays
\* below the other limit of the loop.
InTime ==
  /\ At("check")
  /\ Goto("poll")
  /\ UNCHANGED <<txVars, rxVars, arrived, taken>>

ReadTimeout ==
  /\ At("check")
  /\ cut' = cut \cup (Len(got) - Len(raw) + 1)..Len(got)
  /\ raw' = <<>>
  /\ Goto("idle")
  /\ UNCHANGED <<txVars, rx, got, frames, late, arrived, taken>>

NoneAvailable ==
  /\ At("poll")
  /\ Size(rx) = 0
  /\ Goto("check")
  /\ UNCHANGED <<txVars, rxVars, arrived, taken>>

\* available, then read
GetFirst ==
  /\ At("poll")
  /\ Size(rx) > 0
  /\ rx' = ReadFirst(rx)
  /\ Goto("getting")
  /\ UNCHANGED <<txVars, raw, got, frames, cut, late, arrived, taken>>

GetThen ==
  /\ At("getting")
  /\ LET b == ReadValue(rx)
     IN /\ raw' = Append(raw, b)
        /\ got' = Append(got, b)
        /\ Goto(IF b \in Ends THEN "parse" ELSE "poll")
  /\ rx' = ReadThen(rx)
  /\ UNCHANGED <<txVars, frames, cut, late, arrived, taken>>

\* The bytes from a to e are a frame: a marker, and before it all since the last
FrameAt(a, e) ==
  e \in Ends /\ (a = 1 \/ a - 1 \in Ends) /\ \A d \in Ends : d < e => d < a
\* The decoder and its checksum accept exactly the frames that were sent
Deserializes(bytes) ==
  /\ bytes # <<>>
  /\ FrameAt(bytes[1], bytes[Len(bytes)])
  /\ \A k \in 1..Len(bytes) : bytes[k] = bytes[1] + k - 1

\* Mutant: what was read stays in the buffer
ParseKeepsNoise ==
  /\ At("parse")
  /\ IF Deserializes(raw) THEN frames' = frames \cup {raw[Len(raw)]} /\ Goto("idle")
                          ELSE frames' = frames /\ Goto("check")
  /\ UNCHANGED <<txVars, rx, raw, got, cut, late, arrived, taken>>
\* a frame ends the call, noise is dropped
Parse ==
  /\ At("parse")
  /\ IF Deserializes(raw) THEN frames' = frames \cup {raw[Len(raw)]} /\ Goto("idle")
                          ELSE frames' = frames /\ Goto("check")
  /\ raw' = <<>>
  /\ UNCHANGED <<txVars, rx, got, cut, late, arrived, taken>>

----------------------------------------------------------------------------
SendStep == PutFirst \/ PutThen \/ Kick
ReadStep == InTime \/ ReadTimeout \/ NoneAvailable \/ GetFirst \/ GetThen \/ Parse

Next ==
  \/ \E n \in 1..MaxChunk : Write(n) \/ Rxd(n)
  \/ ReadCall
  \/ SendStep \/ ReadStep
  \/ TxDone

Spec == Init /\ [][Next]_vars

\* The main loop runs, and a transmission comes to its end.
LiveSpec == Spec /\ WF_vars(SendStep) /\ WF_vars(ReadStep) /\ WF_vars(TxDone)

----------------------------------------------------------------------------
\* Properties

TypeOK ==
  /\ Size(tx) \in 0..Limit /\ Size(rx) \in 0..Limit
  /\ gState \in {"ready", "busy"} /\ (gState = "busy" <=> sbuf # <<>>)
  /\ Len(sbuf) <= SbufSize
  /\ main.pc \in {"idle", "put", "putting", "kick", "check", "poll", "getting", "parse"}
  /\ main.left \in 0..MaxChunk
  /\ arrived \in 0..Last /\ accepted \in 0..MaxTx
  /\ frames \subseteq Ends /\ cut \subseteq 1..Last
  /\ early \subseteq 1..MaxTx /\ late \subseteq 1..Last

\* In whichever order the build moves a position and accesses the slot, sending is
\* a pipe but for what one byte is: the place of each byte leaves the port once and
\* in its order, and only a byte that the interrupt took out between the two
\* accesses may leave as something else.  The shipped build has such bytes.
Departed == [b \in 1..Len(wire) |-> IF b \in early THEN b ELSE wire[b]]
SendPipe == INSTANCE Pipe WITH taken <- [b \in 1..tx.writePos |-> b], given <- Departed
Sends == SendPipe!Spec

\* So is receiving: what the interrupt took in is read, each byte once and in its
\* order, and only a byte overwritten between the two accesses of a read may be
\* read as something else.
Delivered == [k \in 1..Len(got) |-> IF k \in late THEN taken[k] ELSE got[k]]
ReceivePipe == INSTANCE Pipe WITH given <- Delivered
Receives == ReceivePipe!Spec

\* CircBuf.cpp: "positions are increased after operation".  What the transmit
\* interrupt takes out of the buffer has been written by then.
ReadsOnlyWritten == \A k \in 1..Len(sbuf) : sbuf[k] = Len(wire) + k

\* Every byte that write took in leaves the port, whoever starts the transmission.
EveryByteLeaves == \A n \in 1..MaxTx : accepted >= n ~> Len(wire) >= n

\* Places i to j of what was read are a frame, from its first byte to its marker,
\* and the read began with it, after another marker or after a timeout.
Intact(i, j) ==
  /\ FrameAt(got[i], got[j]) /\ \A k \in i..j : got[k] = got[i] + k - i
  /\ i = 1 \/ got[i - 1] \in Ends \/ i - 1 \in cut
  /\ i..j \cap cut = {}

\* After whatever noise, refused chunks, spoilt bytes and timeouts, a frame that was
\* read whole is passed on.
IntactFramesPassedOn ==
  ~At("parse") => \A j \in 1..Len(got) : \A i \in 1..j : Intact(i, j) => got[j] \in frames
=============================================================================
