--------------------------- MODULE Serial_proofs ---------------------------
(***************************************************************************)
(* Both directions of the serial port are pipes, for buffers, transmit     *)
(* chunks and messages of any size, in whichever order the build updates   *)
(* the positions and the slots of a buffer; what a byte is may be spoilt   *)
(* only where positions come first, and only one byte at a time.           *)
(*                                                                         *)
(* The slots in use are those from readPos to writePos, taken modulo the   *)
(* size; since they are no more than the size, no two fall on one slot.    *)
(* Slot p of the transmit buffer holds byte p + 1 of what was written,     *)
(* slot p of the receive buffer byte p + 1 of what was taken in: all of    *)
(* them but the one that write has given up before its byte is in it, and  *)
(* the one that read looks at after it gave it back.                       *)
(*                                                                         *)
(* And framing recovers: the partial frame holds what was read since the   *)
(* last marker or timeout, so a frame that was read whole is accepted.     *)
(***************************************************************************)
EXTENDS Serial, SequenceTheorems, TLAPS

LEMMA Sizes ==
  /\ Limit \in Nat /\ Limit >= 1 /\ SbufSize \in Nat /\ SbufSize >= 1
  /\ MaxChunk \in Nat /\ MaxChunk >= 1 /\ MaxTx \in Nat /\ Last \in Nat
  /\ Ends \subseteq 1..Last
BY CircBufAssumption, SerialAssumption DEF CircBufAssumption, SerialAssumption

(***************************************************************************)
(* Arithmetic modulo the size                                              *)
(***************************************************************************)
LEMMA Division ==
  ASSUME NEW x \in Int
  PROVE  /\ x % Limit \in 0..(Limit - 1) /\ x \div Limit \in Int
         /\ x = (Limit * (x \div Limit)) + (x % Limit)
BY Sizes

LEMMA Multiples ==
  ASSUME NEW q \in Int
  PROVE  (q >= 1 => Limit * q >= Limit) /\ (q <= -1 => Limit * q <= -Limit)
BY Sizes

LEMMA Remainder ==
  ASSUME NEW x \in Int, NEW q \in Int, NEW r \in 0..(Limit - 1), x = (Limit * q) + r
  PROVE  x % Limit = r
<1> DEFINE d == x \div Limit
           m == x % Limit
<1>1. m \in 0..(Limit - 1) /\ d \in Int /\ x = (Limit * d) + m
  BY Division
<1> HIDE DEF d, m
<1>2. Limit * (q - d) = m - r /\ q - d \in Int
  BY <1>1, Sizes
<1>3. ~(q - d >= 1) /\ ~(q - d <= -1)
  BY <1>1, <1>2, Sizes, Multiples
<1>4. q - d = 0
  BY <1>2, <1>3
<1>5. m = r
  BY <1>1, <1>2, <1>4, Sizes
<1> QED
  BY <1>5 DEF m

\* Positions less than the size apart have slots of their own
LEMMA OwnSlot ==
  ASSUME NEW a \in Nat, NEW b \in Nat, a < b, b < a + Limit
  PROVE  a % Limit # b % Limit
<1> SUFFICES ASSUME a % Limit = b % Limit PROVE FALSE
  OBVIOUS
<1> DEFINE d == a \div Limit
           e == b \div Limit
           m == a % Limit
<1>1. d \in Int /\ e \in Int /\ a = (Limit * d) + m /\ b = (Limit * e) + m /\ m \in Int
  BY Division
<1> HIDE DEF d, e, m
<1>2. b - a = Limit * (e - d) /\ e - d \in Int
  BY <1>1, Sizes
<1>3. ~(e - d >= 1) /\ ~(e - d <= -1)
  BY <1>2, Sizes, Multiples
<1>4. e - d = 0
  BY <1>2, <1>3
<1> QED
  BY <1>2, <1>4, Sizes

\* How far a slot is behind the writing position
LEMMA SlotDistance ==
  ASSUME NEW p \in Nat, NEW w \in Nat, NEW j \in 0..(Limit - 1),
         p - w = j \/ p - w = j - Limit
  PROVE  ((p % Limit) - w) % Limit = j
<1> DEFINE d == p \div Limit
           m == p % Limit
<1>1. d \in Int /\ m \in Int /\ p = (Limit * d) + m
  BY Division
<1> HIDE DEF d, m
<1>2. CASE p - w = j
  <2>1. m - w = (Limit * (0 - d)) + j /\ 0 - d \in Int
    BY <1>1, <1>2, Sizes
  <2>2. (m - w) % Limit = j
    BY <2>1, <1>1, Remainder
  <2> QED
    BY <2>2 DEF m
<1>3. CASE p - w = j - Limit
  <2>1. m - w = (Limit * ((0 - d) - 1)) + j /\ (0 - d) - 1 \in Int
    BY <1>1, <1>3, Sizes
  <2>2. (m - w) % Limit = j
    BY <2>1, <1>1, Remainder
  <2> QED
    BY <2>2 DEF m
<1> QED
  BY <1>2, <1>3

(***************************************************************************)
(* The circular buffer                                                     *)
(***************************************************************************)
BufType == [start : [0..(Limit - 1) -> Nat], readPos : Nat, writePos : Nat]

Sound(c) == c \in BufType /\ c.readPos <= c.writePos /\ c.writePos <= c.readPos + Limit

LEMMA Fields ==
  ASSUME NEW c \in BufType
  PROVE  /\ c.start \in [0..(Limit - 1) -> Nat] /\ c.readPos \in Nat /\ c.writePos \in Nat
         /\ c = [start |-> c.start, readPos |-> c.readPos, writePos |-> c.writePos]
BY DEF BufType

LEMMA Emptied ==
  /\ Sound(NewCircBuf) /\ NewCircBuf.readPos = 0 /\ NewCircBuf.writePos = 0
BY Sizes DEF Sound, NewCircBuf, BufType

\* write, first half: the free slot gets the byte or the position moves
LEMMA WriteBegins ==
  ASSUME NEW c, Sound(c), NEW b \in Nat, Space(c) >= 1
  PROVE  /\ Sound(WriteFirst(c, b)) /\ WriteFirst(c, b).readPos = c.readPos
         /\ WriteFirst(c, b).writePos = c.writePos + IF PositionsAfter THEN 0 ELSE 1
         /\ PositionsAfter => WriteFirst(c, b).start[c.writePos % Limit] = b
         /\ \A p \in c.readPos..(c.writePos - 1) :
              WriteFirst(c, b).start[p % Limit] = c.start[p % Limit]
<1>1. /\ c.start \in [0..(Limit - 1) -> Nat] /\ c.readPos \in Nat /\ c.writePos \in Nat
      /\ c = [start |-> c.start, readPos |-> c.readPos, writePos |-> c.writePos]
      /\ c.readPos <= c.writePos /\ c.writePos <= c.readPos + Limit
  BY Fields DEF Sound
<1>2. CASE PositionsAfter
  <2>1. c.writePos % Limit \in 0..(Limit - 1)
    BY <1>1, Division
  <2> DEFINE s == [c.start EXCEPT ![c.writePos % Limit] = b]
  <2>2. WriteFirst(c, b) = [start |-> s, readPos |-> c.readPos, writePos |-> c.writePos]
    BY <1>1, <1>2 DEF WriteFirst
  <2>3. /\ s \in [0..(Limit - 1) -> Nat] /\ s[c.writePos % Limit] = b
        /\ \A i \in 0..(Limit - 1) : i # c.writePos % Limit => s[i] = c.start[i]
    BY <1>1, <2>1
  <2> HIDE DEF s
  <2>4. ASSUME NEW p \in c.readPos..(c.writePos - 1) PROVE s[p % Limit] = c.start[p % Limit]
    <3>1. p \in Nat /\ p < c.writePos /\ c.writePos < p + Limit
      BY <1>1, Sizes DEF Space, Size
    <3>2. p % Limit # c.writePos % Limit /\ p % Limit \in 0..(Limit - 1)
      BY <3>1, <1>1, OwnSlot, Division
    <3> QED
      BY <3>2, <2>3
  <2> QED
    BY <1>1, <1>2, <2>2, <2>3, <2>4 DEF Sound, BufType
<1>3. CASE ~PositionsAfter
  <2>1. WriteFirst(c, b) =
          [start |-> c.start, readPos |-> c.readPos, writePos |-> c.writePos + 1]
    BY <1>1, <1>3 DEF WriteFirst
  <2>2. c.writePos + 1 <= c.readPos + Limit
    BY <1>1, Sizes DEF Space, Size
  <2> QED
    BY <1>1, <1>3, <2>1, <2>2 DEF Sound, BufType
<1> QED
  BY <1>2, <1>3

\* write, second half, when the position comes second
LEMMA WriteEnds ==
  ASSUME PositionsAfter, NEW c, Sound(c), NEW b, Space(c) >= 1
  PROVE  /\ Sound(WriteThen(c, b)) /\ WriteThen(c, b).start = c.start
         /\ WriteThen(c, b).readPos = c.readPos /\ WriteThen(c, b).writePos = c.writePos + 1
<1>1. /\ c.start \in [0..(Limit - 1) -> Nat] /\ c.readPos \in Nat /\ c.writePos \in Nat
      /\ c = [start |-> c.start, readPos |-> c.readPos, writePos |-> c.writePos]
      /\ c.readPos <= c.writePos /\ c.writePos <= c.readPos + Limit
  BY Fields DEF Sound
<1>2. WriteThen(c, b) =
        [start |-> c.start, readPos |-> c.readPos, writePos |-> c.writePos + 1]
  BY <1>1 DEF WriteThen
<1>3. c.writePos + 1 <= c.readPos + Limit
  BY <1>1, Sizes DEF Space, Size
<1> QED
  BY <1>1, <1>2, <1>3 DEF Sound, BufType

\* ... and when the byte does: it reaches a slot that was already given up
LEMMA WriteLate ==
  ASSUME ~PositionsAfter, NEW c, Sound(c), NEW b \in Nat, c.writePos >= 1
  PROVE  /\ Sound(WriteThen(c, b))
         /\ WriteThen(c, b).readPos = c.readPos /\ WriteThen(c, b).writePos = c.writePos
         /\ WriteThen(c, b).start[(c.writePos - 1) % Limit] = b
         /\ \A p \in c.readPos..(c.writePos - 2) :
              WriteThen(c, b).start[p % Limit] = c.start[p % Limit]
<1>1. /\ c.start \in [0..(Limit - 1) -> Nat] /\ c.readPos \in Nat /\ c.writePos \in Nat
      /\ c = [start |-> c.start, readPos |-> c.readPos, writePos |-> c.writePos]
      /\ c.writePos <= c.readPos + Limit
  BY Fields DEF Sound
<1> DEFINE w == c.writePos - 1
           s == [c.start EXCEPT ![w % Limit] = b]
<1>2. w \in Nat /\ w % Limit \in 0..(Limit - 1) /\ w < c.readPos + Limit
  <2>1. w \in Nat /\ w < c.readPos + Limit
    BY <1>1, Sizes
  <2> QED
    BY <2>1, Division
<1>3. WriteThen(c, b) = [start |-> s, readPos |-> c.readPos, writePos |-> c.writePos]
  BY <1>1 DEF WriteThen
<1>4. /\ s \in [0..(Limit - 1) -> Nat] /\ s[w % Limit] = b
      /\ \A i \in 0..(Limit - 1) : i # w % Limit => s[i] = c.start[i]
  BY <1>1, <1>2
<1>5. Sound(WriteThen(c, b))
  <2> HIDE DEF s
  <2> QED
    BY <1>1, <1>3, <1>4 DEF Sound, BufType
<1>6. ASSUME NEW p \in c.readPos..(c.writePos - 2) PROVE s[p % Limit] = c.start[p % Limit]
  <2>1. p \in Nat /\ p < w /\ w < p + Limit
    <3> HIDE DEF s
    <3>1. p \in Int /\ p >= c.readPos /\ p <= c.writePos - 2 /\ Limit \in Nat
      BY <1>1, Sizes
    <3> QED
      BY <3>1, <1>1
  <2> HIDE DEF s, w
  <2>2. p % Limit # w % Limit /\ p % Limit \in 0..(Limit - 1)
    BY <2>1, <1>2, OwnSlot, Division
  <2> QED
    BY <2>2, <1>4
<1> HIDE DEF s
<1> QED
  BY <1>3, <1>4, <1>5, <1>6

LEMMA TakenOut ==
  ASSUME NEW c, Sound(c), NEW n \in 0..Size(c)
  PROVE  /\ Sound(ReadAll(c, n)) /\ ReadAll(c, n).start = c.start
         /\ ReadAll(c, n).readPos = c.readPos + n /\ ReadAll(c, n).writePos = c.writePos
<1>1. /\ c.start \in [0..(Limit - 1) -> Nat] /\ c.readPos \in Nat /\ c.writePos \in Nat
      /\ c = [start |-> c.start, readPos |-> c.readPos, writePos |-> c.writePos]
      /\ c.readPos <= c.writePos /\ c.writePos <= c.readPos + Limit
  BY Fields DEF Sound
<1>2. ReadAll(c, n) = [start |-> c.start, readPos |-> c.readPos + n, writePos |-> c.writePos]
  BY <1>1 DEF ReadAll
<1>3. n \in Nat /\ c.readPos + n \in Nat /\ c.readPos + n <= c.writePos
  BY <1>1 DEF Size
<1> QED
  BY <1>1, <1>2, <1>3, Sizes DEF Sound, BufType

\* read: the position moves in the first half or in the second
LEMMA ReadMoves ==
  ASSUME NEW c, Sound(c)
  PROVE  /\ ReadFirst(c) = IF PositionsAfter THEN c ELSE ReadAll(c, 1)
         /\ ReadThen(c) = IF PositionsAfter THEN ReadAll(c, 1) ELSE c
         /\ ReadValue(c) = c.start[(c.readPos - IF PositionsAfter THEN 0 ELSE 1) % Limit]
<1>1. c.readPos \in Nat
  BY Fields DEF Sound
<1>2. ReadFirst(c) = IF PositionsAfter THEN c ELSE ReadAll(c, 1)
  BY DEF ReadFirst, ReadAll
<1>3. ReadThen(c) = IF PositionsAfter THEN ReadAll(c, 1) ELSE c
  BY DEF ReadThen, ReadAll
<1>4. CASE PositionsAfter
  <2>1. c.readPos - 0 = c.readPos
    BY <1>1
  <2> QED
    BY <1>2, <1>3, <1>4, <2>1 DEF ReadValue
<1>5. CASE ~PositionsAfter
  BY <1>2, <1>3, <1>5 DEF ReadValue
<1> QED
  BY <1>4, <1>5

\* The receive interrupt writes a chunk that there is room for
LEMMA ChunkWritten ==
  ASSUME NEW c, Sound(c), NEW bytes \in Seq(Nat), Len(bytes) <= Space(c)
  PROVE  /\ Sound(WriteAll(c, bytes))
         /\ WriteAll(c, bytes).readPos = c.readPos
         /\ WriteAll(c, bytes).writePos = c.writePos + Len(bytes)
         /\ \A p \in c.readPos..(c.writePos - 1) :
              WriteAll(c, bytes).start[p % Limit] = c.start[p % Limit]
         /\ \A j \in 1..Len(bytes) :
              WriteAll(c, bytes).start[(c.writePos + j - 1) % Limit] = bytes[j]
<1> DEFINE n == Len(bytes)
           w == c.writePos
           s == [i \in 0..(Limit - 1) |->
                   IF ((i - w) % Limit) + 1 <= n THEN bytes[((i - w) % Limit) + 1]
                                                 ELSE c.start[i]]
<1>1. /\ c.start \in [0..(Limit - 1) -> Nat] /\ c.readPos \in Nat /\ w \in Nat
      /\ c = [start |-> c.start, readPos |-> c.readPos, writePos |-> c.writePos]
      /\ c.readPos <= w /\ w <= c.readPos + Limit
  BY Fields DEF Sound
<1>2. n \in Nat /\ w + n <= c.readPos + Limit /\ \A j \in 1..n : bytes[j] \in Nat
  <2> HIDE DEF s
  <2>1. n \in Nat /\ \A j \in 1..n : bytes[j] \in Nat
    BY LenProperties, ElementOfSeq
  <2>2. n <= Limit - (w - c.readPos)
    BY DEF Space, Size
  <2> HIDE DEF n, w
  <2>3. w + n <= c.readPos + Limit
    BY <1>1, <2>1, <2>2, Sizes
  <2> QED
    BY <2>1, <2>3
<1>3. WriteAll(c, bytes) = [start |-> s, readPos |-> c.readPos, writePos |-> w + n]
  <2>1. WriteAll(c, bytes) = [c EXCEPT !.start = s, !.writePos = w + n]
    BY Zenon DEF WriteAll
  <2> HIDE DEF s, n, w
  <2> QED
    BY <1>1, <2>1 DEF w
<1> HIDE DEF n, w
<1>4. \A i \in 0..(Limit - 1) : (i - w) % Limit \in 0..(Limit - 1)
  <2> SUFFICES ASSUME NEW i \in 0..(Limit - 1) PROVE (i - w) % Limit \in 0..(Limit - 1)
    OBVIOUS
  <2>1. i - w \in Int
    BY <1>1
  <2> QED
    BY <2>1, Division
<1>5. s \in [0..(Limit - 1) -> Nat]
  <2> SUFFICES ASSUME NEW i \in 0..(Limit - 1)
               PROVE  (IF ((i - w) % Limit) + 1 <= n THEN bytes[((i - w) % Limit) + 1]
                                                     ELSE c.start[i]) \in Nat
    OBVIOUS
  <2>1. PICK k \in 0..(Limit - 1) : k = (i - w) % Limit
    BY <1>4
  <2>2. k + 1 <= n => bytes[k + 1] \in Nat
    BY <1>2, Sizes
  <2> QED
    BY <2>1, <2>2, <1>1
<1>9. \A i \in 0..(Limit - 1), k \in 0..(Limit - 1) :
        k = (i - w) % Limit => s[i] = IF k + 1 <= n THEN bytes[k + 1] ELSE c.start[i]
  OBVIOUS
<1> HIDE DEF s
<1>6. ASSUME NEW p \in c.readPos..(w - 1) PROVE s[p % Limit] = c.start[p % Limit]
  <2>1. p \in Nat /\ p < w /\ p >= c.readPos /\ Limit \in Nat
    BY <1>1, Sizes
  <2>2. p % Limit \in 0..(Limit - 1)
    BY <2>1, Division
  <2>3. p - w + Limit >= n /\ p - w + Limit \in 0..(Limit - 1)
    BY <2>1, <1>1, <1>2
  <2>4. PICK k \in 0..(Limit - 1) : k = p - w + Limit /\ k >= n
    BY <2>3
  <2>5. p - w = k - Limit
    BY <2>1, <2>4, <1>1
  <2>6. ((p % Limit) - w) % Limit = k
    BY <2>1, <2>5, <1>1, SlotDistance
  <2>7. ~(k + 1 <= n)
    BY <2>4, <1>2
  <2> QED
    BY <2>2, <2>6, <2>7, <1>9
<1>7. ASSUME NEW j \in 1..n PROVE s[(w + j - 1) % Limit] = bytes[j]
  <2>0. n <= Limit /\ Limit \in Nat /\ j \in Nat /\ j >= 1 /\ j <= n
    BY <1>1, <1>2, Sizes
  <2>1. w + j - 1 \in Nat /\ j - 1 \in 0..(Limit - 1)
    BY <2>0, <1>1, <1>2
  <2>2. (w + j - 1) % Limit \in 0..(Limit - 1)
    BY <2>1, Division
  <2>3. PICK k \in 0..(Limit - 1) : k = j - 1
    BY <2>1
  <2>4. k + 1 = j /\ (w + j - 1) - w = k
    BY <2>0, <2>3, <1>1
  <2>5. (((w + j - 1) % Limit) - w) % Limit = k
    BY <2>1, <2>4, <1>1, SlotDistance
  <2> QED
    BY <2>0, <2>2, <2>4, <2>5, <1>9
<1>8. Sound(WriteAll(c, bytes))
  BY <1>1, <1>2, <1>3, <1>5, Sizes DEF Sound, BufType
<1> QED
  BY <1>3, <1>6, <1>7, <1>8 DEF n, w

\* A slot has been filled when the writing position has passed it
Bytes == 1..Last
Filled(c) == \A i \in 0..(Limit - 1) : i < c.writePos => c.start[i] \in Bytes

LEMMA BelowSlot == ASSUME NEW x \in Nat PROVE x % Limit \in 0..(Limit - 1) /\ x % Limit <= x
<1>1. x % Limit \in 0..(Limit - 1)
  BY Division
<1>2. CASE x < Limit
  <2>1. x = (Limit * 0) + x /\ x \in 0..(Limit - 1)
    BY <1>2, Sizes
  <2>2. x % Limit = x
    BY <2>1, Remainder
  <2> QED
    BY <1>1, <2>2
<1>3. CASE x >= Limit
  BY <1>1, <1>3, Sizes
<1> QED
  BY <1>2, <1>3, Sizes

LEMMA ChunkFills ==
  ASSUME NEW c, Sound(c), Filled(c), NEW bytes \in Seq(Bytes), Len(bytes) <= Space(c)
  PROVE  Filled(WriteAll(c, bytes))
<1> DEFINE n == Len(bytes)
           w == c.writePos
           s == [i \in 0..(Limit - 1) |->
                   IF ((i - w) % Limit) + 1 <= n THEN bytes[((i - w) % Limit) + 1]
                                                 ELSE c.start[i]]
<1>1. /\ c.readPos \in Nat /\ w \in Nat /\ c.readPos <= w
      /\ c = [start |-> c.start, readPos |-> c.readPos, writePos |-> c.writePos]
  BY Fields DEF Sound
<1>2. n \in Nat /\ \A j \in 1..n : bytes[j] \in Bytes
  <2> HIDE DEF s
  <2> QED
    BY LenProperties, ElementOfSeq
<1>3. WriteAll(c, bytes) = [start |-> s, readPos |-> c.readPos, writePos |-> w + n]
  <2>1. WriteAll(c, bytes) = [c EXCEPT !.start = s, !.writePos = w + n]
    BY Zenon DEF WriteAll
  <2> HIDE DEF s, n, w
  <2> QED
    BY <1>1, <2>1 DEF w
<1>4. n <= Limit
  BY <1>1, <1>2, Sizes DEF Space, Size
<1>5. \A i \in 0..(Limit - 1) : i < w => c.start[i] \in Bytes
  BY DEF Filled
<1> HIDE DEF n, w
<1>6. \A i \in 0..(Limit - 1), k \in 0..(Limit - 1) :
        k = (i - w) % Limit => s[i] = IF k + 1 <= n THEN bytes[k + 1] ELSE c.start[i]
  OBVIOUS
<1> HIDE DEF s
<1>7. ASSUME NEW i \in 0..(Limit - 1), i < w + n PROVE s[i] \in Bytes
  <2>1. PICK k \in 0..(Limit - 1) : k = (i - w) % Limit
    <3>1. i - w \in Int
      BY <1>1
    <3> QED
      BY <3>1, Division
  <2>2. s[i] = IF k + 1 <= n THEN bytes[k + 1] ELSE c.start[i]
    BY <2>1, <1>6
  <2>3. CASE k + 1 <= n
    BY <2>2, <2>3, <1>2, Sizes
  <2>4. CASE ~(k + 1 <= n)
    <3>1. i < w
      <4> SUFFICES ASSUME i >= w PROVE FALSE
        BY <1>1
      <4>0. i \in Nat /\ i < Limit /\ w \in Nat /\ n \in Nat /\ i < w + n /\ Limit \in Nat
        BY <1>1, <1>2, <1>7, Sizes
      <4>1. i - w \in Nat /\ i - w < n /\ i - w \in 0..(Limit - 1)
        BY <4>0
      <4>2. i - w = (Limit * 0) + (i - w)
        BY <4>1, Sizes
      <4>3. (i - w) % Limit = i - w
        BY <4>1, <4>2, Remainder
      <4> QED
        BY <4>1, <4>3, <2>1, <2>4, <1>2
    <3> QED
      BY <3>1, <2>2, <2>4, <1>5
  <2> QED
    BY <2>3, <2>4
<1> QED
  BY <1>3, <1>7 DEF Filled, n, w

(***************************************************************************)
(* Sending                                                                 *)
(***************************************************************************)
Steps == {"idle", "put", "putting", "kick", "check", "poll", "getting", "parse"}
MainType == [pc : Steps, left : 0..MaxChunk]

\* Whether write has given up a slot whose byte it has not stored yet
Ahead == IF ~PositionsAfter /\ main.pc = "putting" THEN 1 ELSE 0

\* What write is doing: there is room for the rest of its bytes
Writing ==
  /\ main \in MainType
  /\ accepted \in 0..MaxTx
  /\ main.pc \in {"put", "putting"} =>
       main.left >= 1 /\ main.left <= Space(tx) + Ahead /\ accepted + main.left <= MaxTx
  /\ PositionsAfter /\ main.pc = "putting" => tx.start[tx.writePos % Limit] = accepted + 1

\* Every byte that was accepted is on the wire, in the chunk or in its slot
Sent ==
  /\ Sound(tx) /\ tx.writePos = accepted + Ahead
  /\ wire \in Seq(Nat) /\ sbuf \in Seq(Nat) /\ Len(sbuf) <= SbufSize
  /\ tx.readPos = Len(wire) + Len(sbuf)
  /\ \A k \in 1..Len(wire) : wire[k] = k \/ k \in early
  /\ \A k \in 1..Len(sbuf) : sbuf[k] = Len(wire) + k \/ Len(wire) + k \in early
  /\ \A p \in tx.readPos..(accepted - 1) : tx.start[p % Limit] = p + 1
  /\ gState \in {"ready", "busy"} /\ (gState = "busy" <=> sbuf # <<>>)
  /\ early \subseteq 1..MaxTx /\ (PositionsAfter => early = {})

SendInv == Writing /\ Sent

LEMMA InitSend == Init => SendInv
<1> SUFFICES ASSUME Init PROVE SendInv
  OBVIOUS
<1>1. /\ wire = <<>> /\ sbuf = <<>> /\ gState = "ready" /\ accepted = 0 /\ early = {}
      /\ tx = NewCircBuf /\ main = [pc |-> "idle", left |-> 0]
  BY DEF Init
<1>2. wire \in Seq(Nat) /\ sbuf \in Seq(Nat) /\ Len(wire) = 0 /\ Len(sbuf) = 0
  BY <1>1
<1>3. Sound(tx) /\ tx.readPos = 0 /\ tx.writePos = 0
  BY <1>1, Emptied
<1>4. Writing /\ Ahead = 0
  BY <1>1, Sizes DEF Writing, MainType, Steps, Ahead
<1>5. Sent
  BY <1>1, <1>2, <1>3, <1>4, Sizes DEF Sent
<1> QED
  BY <1>4, <1>5 DEF SendInv

LEMMA TxNumbers ==
  ASSUME SendInv
  PROVE  /\ tx.readPos \in Nat /\ tx.writePos \in Nat /\ accepted \in Nat
         /\ tx.readPos <= tx.writePos /\ tx.writePos <= tx.readPos + Limit
         /\ Size(tx) = tx.writePos - tx.readPos /\ Size(tx) \in Nat /\ Size(tx) <= Limit
         /\ Space(tx) = Limit - Size(tx) /\ Space(tx) \in Nat
         /\ Len(wire) \in Nat /\ Len(sbuf) \in Nat
         /\ Ahead \in {0, 1} /\ tx.writePos = accepted + Ahead
         /\ main.pc \in Steps /\ main.left \in Nat /\ main.left <= MaxChunk
<1>1. /\ tx.readPos \in Nat /\ tx.writePos \in Nat /\ tx.readPos <= tx.writePos
      /\ tx.writePos <= tx.readPos + Limit
  BY Fields DEF SendInv, Sent, Sound
<1>2. accepted \in Nat /\ Len(wire) \in Nat /\ Len(sbuf) \in Nat
  BY LenProperties, Sizes DEF SendInv, Sent, Writing
<1>3. main.pc \in Steps /\ main.left \in Nat /\ main.left <= MaxChunk
  BY Sizes DEF SendInv, Writing, MainType
<1>4. Ahead \in {0, 1} /\ tx.writePos = accepted + Ahead
  BY DEF Ahead, SendInv, Sent
<1> QED
  BY <1>1, <1>2, <1>3, <1>4, Sizes DEF Size, Space

\* While write has bytes left there is room for the next one
LEMMA NextFits ==
  ASSUME SendInv, main.pc \in {"put", "putting"}
  PROVE  /\ main.left \in Nat /\ main.left >= 1 /\ main.left <= MaxChunk
         /\ main.left <= Space(tx) + Ahead /\ Space(tx) \in Nat
         /\ accepted \in Nat /\ accepted + 1 \in Nat
         /\ accepted + main.left <= MaxTx /\ accepted + 1 <= MaxTx
         /\ Sound(tx) /\ tx.writePos = accepted + Ahead
<1>1. main.left >= 1 /\ main.left <= Space(tx) + Ahead /\ accepted + main.left <= MaxTx
  BY DEF SendInv, Writing
<1>2. /\ main.left \in Nat /\ main.left <= MaxChunk /\ Space(tx) \in Nat /\ accepted \in Nat
  BY TxNumbers
<1>3. Sound(tx) /\ tx.writePos = accepted + Ahead
  BY DEF SendInv, Sent
<1> QED
  BY <1>1, <1>2, <1>3, Sizes

\* The main loop does something else
LEMMA SendSame ==
  ASSUME SendInv, UNCHANGED txVars, main' \in MainType,
         main' = main \/ {main.pc, main'.pc} \cap {"put", "putting"} = {}
  PROVE  SendInv'
<1>1. Ahead' = Ahead
  BY DEF Ahead
<1>2. Writing'
  BY <1>1 DEF SendInv, Writing, txVars, Space, Size
<1>3. Sent'
  BY <1>1 DEF SendInv, Sent, txVars, Sound
<1> QED
  BY <1>2, <1>3 DEF SendInv

LEMMA GoneTo ==
  ASSUME SendInv, NEW pc \in Steps, Goto(pc)
  PROVE  main' \in MainType /\ main'.pc = pc /\ main'.left = main.left
BY DEF SendInv, Writing, MainType, Goto

LEMMA WriteSends == ASSUME SendInv, NEW n \in 1..MaxChunk, Write(n) PROVE SendInv'
<1>1. /\ UNCHANGED txVars /\ Space(tx) >= n /\ accepted + n <= MaxTx /\ main.pc = "idle"
      /\ main' = [pc |-> "put", left |-> n]
  BY DEF Write, At
<1>2. main' \in MainType /\ main'.pc = "put" /\ main'.left = n
  BY <1>1, Sizes DEF MainType, Steps
<1>3. Ahead = 0 /\ Ahead' = 0 /\ n >= 1 /\ n <= Space(tx) + 0
  BY <1>1, <1>2, TxNumbers, Sizes DEF Ahead
<1>4. Writing'
  BY <1>1, <1>2, <1>3 DEF SendInv, Writing, txVars, Space, Size
<1>5. Sent'
  BY <1>1, <1>3 DEF SendInv, Sent, txVars, Sound
<1> QED
  BY <1>4, <1>5 DEF SendInv

LEMMA PutFirstSends == ASSUME SendInv, PutFirst PROVE SendInv'
<1>1. /\ main.pc = "put" /\ tx' = WriteFirst(tx, accepted + 1)
      /\ UNCHANGED <<gState, sbuf, wire, accepted, early>> /\ Goto("putting")
  BY DEF PutFirst, At
<1>2. main' \in MainType /\ main'.pc = "putting" /\ main'.left = main.left
  BY <1>1, GoneTo DEF Steps
<1>3. Ahead = 0 /\ Ahead' = IF PositionsAfter THEN 0 ELSE 1
  BY <1>1, <1>2 DEF Ahead
<1>4. /\ main.left \in Nat /\ main.left >= 1 /\ main.left <= Space(tx)
      /\ accepted \in Nat /\ accepted + main.left <= MaxTx
      /\ Space(tx) \in Nat /\ Space(tx) >= 1
      /\ accepted + 1 \in Nat /\ Sound(tx) /\ tx.writePos = accepted
  BY <1>1, <1>3, NextFits
<1>5. /\ Sound(tx') /\ tx'.readPos = tx.readPos /\ tx'.writePos = accepted + Ahead'
      /\ PositionsAfter => tx'.start[accepted % Limit] = accepted + 1
      /\ \A p \in tx.readPos..(accepted - 1) : tx'.start[p % Limit] = tx.start[p % Limit]
  <2> DEFINE c == WriteFirst(tx, accepted + 1)
  <2>1. /\ Sound(c) /\ c.readPos = tx.readPos
        /\ c.writePos = tx.writePos + IF PositionsAfter THEN 0 ELSE 1
        /\ PositionsAfter => c.start[tx.writePos % Limit] = accepted + 1
        /\ \A p \in tx.readPos..(tx.writePos - 1) : c.start[p % Limit] = tx.start[p % Limit]
    BY <1>4, WriteBegins
  <2>2. tx' = c
    BY <1>1
  <2> HIDE DEF c
  <2> QED
    BY <2>1, <2>2, <1>3, <1>4
<1>6. Space(tx') + Ahead' = Space(tx)
  <2>1. tx.readPos \in Nat /\ tx.writePos \in Nat /\ Limit \in Nat
    BY TxNumbers, Sizes
  <2>2. tx'.writePos = tx.writePos + Ahead' /\ Ahead' \in {0, 1}
    BY <1>3, <1>4, <1>5
  <2> QED
    BY <2>1, <2>2, <1>5 DEF Space, Size
<1>7. PositionsAfter => tx'.start[tx'.writePos % Limit] = accepted + 1
  <2>1. PositionsAfter => tx'.writePos = accepted
    BY <1>3, <1>4, <1>5
  <2> QED
    BY <2>1, <1>5
<1>8. Writing'
  BY <1>1, <1>2, <1>4, <1>6, <1>7 DEF SendInv, Writing
<1>9. Sent'
  BY <1>1, <1>5 DEF SendInv, Sent
<1> QED
  BY <1>8, <1>9 DEF SendInv

\* After write's second half the byte is in its slot and the position past it
LEMMA Stored ==
  ASSUME SendInv, PutThen
  PROVE  /\ Sound(tx') /\ tx'.readPos = tx.readPos /\ tx'.writePos = accepted + 1
         /\ tx'.start[accepted % Limit] = accepted + 1
         /\ \A p \in tx.readPos..(accepted - 1) : tx'.start[p % Limit] = tx.start[p % Limit]
<1> DEFINE b == accepted + 1
           c == WriteThen(tx, b)
<1>1. main.pc = "putting" /\ tx' = c
  BY DEF PutThen, At
<1>2. /\ main.left \in Nat /\ main.left >= 1 /\ main.left <= Space(tx) + Ahead
      /\ Space(tx) \in Nat /\ accepted \in Nat /\ b \in Nat
      /\ Sound(tx) /\ tx.writePos = accepted + Ahead
  BY <1>1, NextFits
<1>3. CASE PositionsAfter
  <2>1. Ahead = 0 /\ tx.writePos = accepted /\ Space(tx) >= 1
    BY <1>2, <1>3 DEF Ahead
  <2>2. tx.start[accepted % Limit] = b
    BY <1>1, <1>3, <2>1 DEF SendInv, Writing
  <2> HIDE DEF b
  <2>3. /\ Sound(c) /\ c.start = tx.start
        /\ c.readPos = tx.readPos /\ c.writePos = tx.writePos + 1
    BY <1>2, <1>3, <2>1, WriteEnds
  <2> HIDE DEF c
  <2> QED
    BY <1>1, <2>1, <2>2, <2>3 DEF b
<1>4. CASE ~PositionsAfter
  <2>1. Ahead = 1 /\ tx.writePos = b /\ tx.writePos >= 1 /\ tx.writePos - 1 = accepted
        /\ tx.writePos - 2 = accepted - 1
    BY <1>1, <1>2, <1>4 DEF Ahead
  <2> HIDE DEF b
  <2>2. /\ Sound(c) /\ c.readPos = tx.readPos /\ c.writePos = tx.writePos
        /\ c.start[(tx.writePos - 1) % Limit] = b
        /\ \A p \in tx.readPos..(tx.writePos - 2) : c.start[p % Limit] = tx.start[p % Limit]
    BY <1>2, <1>4, <2>1, WriteLate
  <2> HIDE DEF c
  <2> QED
    BY <1>1, <2>1, <2>2 DEF b
<1> QED
  BY <1>3, <1>4

LEMMA PutThenSends == ASSUME SendInv, PutThen PROVE SendInv'
<1>1. /\ main.pc = "putting" /\ accepted' = accepted + 1
      /\ UNCHANGED <<gState, sbuf, wire, early>>
      /\ main' = [pc |-> IF main.left = 1 THEN "kick" ELSE "put", left |-> main.left - 1]
  BY DEF PutThen, At
<1>2. /\ main.left \in Nat /\ main.left >= 1 /\ main.left <= Space(tx) + Ahead
      /\ main.left <= MaxChunk /\ accepted \in Nat /\ accepted + main.left <= MaxTx
      /\ Space(tx) \in Nat /\ tx.writePos = accepted + Ahead
  BY <1>1, NextFits
<1>3. /\ Sound(tx') /\ tx'.readPos = tx.readPos /\ tx'.writePos = accepted + 1
      /\ tx'.start[accepted % Limit] = accepted + 1
      /\ \A p \in tx.readPos..(accepted - 1) : tx'.start[p % Limit] = tx.start[p % Limit]
  BY Stored
<1>4. /\ main' \in MainType /\ main'.left = main.left - 1
      /\ main'.pc = IF main.left = 1 THEN "kick" ELSE "put"
  <2>1. main.left - 1 \in 0..MaxChunk
    BY <1>2, Sizes
  <2> QED
    BY <1>1, <2>1 DEF MainType, Steps
<1>5. Ahead' = 0 /\ Space(tx') = (Space(tx) + Ahead) - 1
  <2>1. /\ tx.readPos \in Nat /\ tx.writePos \in Nat /\ Limit \in Nat /\ Ahead \in {0, 1}
        /\ tx'.writePos = (tx.writePos - Ahead) + 1
    BY <1>2, <1>3, TxNumbers, Sizes
  <2>2. Space(tx') = (Space(tx) + Ahead) - 1
    BY <2>1, <1>3 DEF Space, Size
  <2>3. Ahead' = 0
    BY <1>4 DEF Ahead
  <2> QED
    BY <2>2, <2>3
<1>6. Writing'
  <2>1. accepted' \in 0..MaxTx /\ accepted' = accepted + 1
    BY <1>1, <1>2, Sizes
  <2>2. main'.pc = "put" => main'.left >= 1
    BY <1>2, <1>4
  <2>3. main'.left <= Space(tx') + Ahead' /\ accepted' + main'.left <= MaxTx
    <3>1. Ahead \in {0, 1}
      BY TxNumbers
    <3> QED
      BY <3>1, <1>2, <1>4, <1>5, <2>1, Sizes
  <2>4. main'.pc # "putting"
    BY <1>4
  <2> QED
    BY <2>1, <2>2, <2>3, <2>4, <1>4 DEF Writing
<1>7. Sent'
  <2>1. ASSUME NEW p \in tx'.readPos..(accepted' - 1) PROVE tx'.start[p % Limit] = p + 1
    <3>1. p = accepted \/ p \in tx.readPos..(accepted - 1)
      BY <1>1, <1>3, TxNumbers
    <3> QED
      BY <3>1, <1>3 DEF SendInv, Sent
  <2>2. tx'.writePos = accepted' + Ahead' /\ tx'.readPos = Len(wire') + Len(sbuf')
    BY <1>1, <1>2, <1>3, <1>5 DEF SendInv, Sent
  <2> QED
    BY <2>1, <2>2, <1>1, <1>3 DEF SendInv, Sent
<1> QED
  BY <1>6, <1>7 DEF SendInv

\* isr_txd_done takes a chunk out of the buffer and starts to transmit it
LEMMA ChunkTaken ==
  ASSUME Sound(tx), Transmit
  PROVE  /\ Sound(tx') /\ tx'.start = tx.start /\ tx'.writePos = tx.writePos
         /\ tx'.readPos = tx.readPos + Len(sbuf') /\ Space(tx') >= Space(tx)
         /\ Space(tx') \in Nat
         /\ sbuf' \in Seq(Nat) /\ Len(sbuf') <= SbufSize /\ Len(sbuf') \in 0..Size(tx)
         /\ \A k \in 1..Len(sbuf') : sbuf'[k] = tx.start[(tx.readPos + k - 1) % Limit]
         /\ gState' \in {"ready", "busy"} /\ (gState' = "busy" <=> sbuf' # <<>>)
         /\ early' = early \cup {b \in (tx.readPos + 1)..(tx.readPos + Len(sbuf')) :
                                   At("putting") /\ b = accepted + 1}
<1>0. /\ tx.start \in [0..(Limit - 1) -> Nat] /\ tx.readPos \in Nat /\ tx.writePos \in Nat
      /\ tx.readPos <= tx.writePos /\ tx.writePos <= tx.readPos + Limit
  BY Fields DEF Sound
<1> DEFINE n == IF Size(tx) < SbufSize THEN Size(tx) ELSE SbufSize
<1>1. Size(tx) \in Nat /\ Space(tx) \in Nat /\ n \in 0..Size(tx) /\ n <= SbufSize /\ n \in Nat
  BY <1>0, Sizes DEF Size, Space
<1>2. /\ sbuf' = SubSeq(Contents(tx), 1, n) /\ tx' = ReadAll(tx, n)
      /\ gState' = IF n > 0 THEN "busy" ELSE "ready"
      /\ early' = early \cup {b \in (tx.readPos + 1)..(tx.readPos + n) :
                                At("putting") /\ b = accepted + 1}
  BY DEF Transmit
<1> HIDE DEF n
<1>3. ASSUME NEW k \in 1..n
      PROVE  /\ Contents(tx)[k] = tx.start[(tx.readPos + k - 1) % Limit]
             /\ Contents(tx)[k] \in Nat
  <2>1. k \in 1..Size(tx) /\ tx.readPos + k - 1 \in Int
    BY <1>0, <1>1
  <2>2. Contents(tx)[k] = tx.start[(tx.readPos + k - 1) % Limit]
    BY <2>1 DEF Contents
  <2>3. (tx.readPos + k - 1) % Limit \in 0..(Limit - 1)
    BY <2>1, Division
  <2> QED
    BY <2>2, <2>3, <1>0
<1>5. /\ sbuf' \in Seq(Nat) /\ Len(sbuf') = n
      /\ \A k \in 1..n : sbuf'[k] = Contents(tx)[k]
  BY <1>1, <1>2, <1>3, SubSeqProperties
<1>7. /\ Sound(tx') /\ tx'.start = tx.start
      /\ tx'.readPos = tx.readPos + n /\ tx'.writePos = tx.writePos
  BY <1>1, <1>2, TakenOut
<1>8. Space(tx') = Space(tx) + n
  BY <1>0, <1>1, <1>7, Sizes DEF Space, Size
<1>9. n > 0 <=> sbuf' # <<>>
  BY <1>1, <1>5, EmptySeq
<1>10. gState' \in {"ready", "busy"} /\ (gState' = "busy" <=> sbuf' # <<>>)
  BY <1>2, <1>9
<1>11. \A k \in 1..n : sbuf'[k] = tx.start[(tx.readPos + k - 1) % Limit]
  BY <1>3, <1>5, Zenon
<1>12. Space(tx') >= Space(tx) /\ Space(tx') \in Nat
  BY <1>1, <1>8
<1>13. early' = early \cup {b \in (tx.readPos + 1)..(tx.readPos + Len(sbuf')) :
                              At("putting") /\ b = accepted + 1}
  BY <1>2, <1>5
<1> QED
  BY <1>1, <1>5, <1>7, <1>10, <1>11, <1>12, <1>13

\* The chunk follows what was taken out of the buffer before
LEMMA Transmitted ==
  ASSUME SendInv, Transmit
  PROVE  /\ Sound(tx') /\ tx'.writePos = tx.writePos
         /\ tx'.readPos = tx.readPos + Len(sbuf')
         /\ Space(tx) \in Nat /\ Space(tx') \in Nat /\ Space(tx') >= Space(tx)
         /\ tx'.start = tx.start
         /\ sbuf' \in Seq(Nat) /\ Len(sbuf') <= SbufSize /\ Len(sbuf') \in Nat
         /\ \A k \in 1..Len(sbuf') : sbuf'[k] = tx.readPos + k \/ tx.readPos + k \in early'
         /\ gState' \in {"ready", "busy"} /\ (gState' = "busy" <=> sbuf' # <<>>)
         /\ early \subseteq early' /\ early' \subseteq 1..MaxTx /\ (PositionsAfter => early' = {})
<1>1. /\ Sound(tx') /\ tx'.start = tx.start /\ tx'.writePos = tx.writePos
      /\ tx'.readPos = tx.readPos + Len(sbuf') /\ Space(tx') >= Space(tx)
      /\ Space(tx') \in Nat
      /\ sbuf' \in Seq(Nat) /\ Len(sbuf') <= SbufSize /\ Len(sbuf') \in 0..Size(tx)
      /\ \A k \in 1..Len(sbuf') : sbuf'[k] = tx.start[(tx.readPos + k - 1) % Limit]
      /\ gState' \in {"ready", "busy"} /\ (gState' = "busy" <=> sbuf' # <<>>)
      /\ early' = early \cup {b \in (tx.readPos + 1)..(tx.readPos + Len(sbuf')) :
                                At("putting") /\ b = accepted + 1}
  BY ChunkTaken DEF SendInv, Sent
<1>2. /\ tx.readPos \in Nat /\ tx.writePos \in Nat /\ accepted \in Nat
      /\ Size(tx) \in Nat /\ Size(tx) = tx.writePos - tx.readPos
      /\ tx.writePos = accepted + Ahead /\ Ahead \in {0, 1}
      /\ Len(sbuf') \in Nat /\ Len(sbuf') <= Size(tx)
  BY <1>1, TxNumbers
<1>3. ASSUME NEW k \in 1..Len(sbuf')
      PROVE  sbuf'[k] = tx.readPos + k \/ tx.readPos + k \in early'
  <2>1. /\ k \in Nat /\ k >= 1 /\ k <= Len(sbuf') /\ tx.readPos + k - 1 >= tx.readPos
        /\ tx.readPos + k - 1 \in Nat /\ (tx.readPos + k - 1) + 1 = tx.readPos + k
        /\ tx.readPos + k <= accepted + Ahead
    BY <1>2
  <2>2. CASE tx.readPos + k <= accepted
    <3>1. tx.readPos + k - 1 \in tx.readPos..(accepted - 1)
      BY <2>1, <2>2, <1>2
    <3>2. tx.start[(tx.readPos + k - 1) % Limit] = (tx.readPos + k - 1) + 1
      BY <3>1 DEF SendInv, Sent
    <3> QED
      BY <1>1, <2>1, <3>2
  <2>3. CASE tx.readPos + k > accepted
    <3>1. Ahead = 1 /\ tx.readPos + k = accepted + 1
      BY <2>1, <2>3, <1>2
    <3>2. At("putting")
      BY <3>1 DEF Ahead, At
    <3>3. tx.readPos + k \in (tx.readPos + 1)..(tx.readPos + Len(sbuf'))
      BY <2>1, <1>2
    <3> QED
      BY <3>1, <3>2, <3>3, <1>1
  <2> QED
    BY <2>1, <2>2, <2>3, <1>2
<1>4. ASSUME NEW b \in early' \ early
      PROVE  b \in 1..MaxTx /\ ~PositionsAfter
  <2>1. b = accepted + 1 /\ main.pc = "putting" /\ b <= tx.readPos + Len(sbuf')
    BY <1>1, <1>2 DEF At
  <2>2. accepted + 1 <= MaxTx /\ accepted + 1 \in Nat /\ accepted + 1 >= 1
    BY <2>1, <1>2, NextFits
  <2>3. Ahead = 1
    BY <2>1, <1>2
  <2> QED
    BY <2>1, <2>2, <2>3, Sizes DEF Ahead
<1>5. early \subseteq early' /\ early' \subseteq 1..MaxTx /\ (PositionsAfter => early' = {})
  BY <1>1, <1>4 DEF SendInv, Sent
<1> QED
  BY <1>1, <1>2, <1>3, <1>5, TxNumbers

\* What is left in the buffer after a transmission has begun
LEMMA StillStored ==
  ASSUME SendInv, Transmit, accepted' = accepted
  PROVE  \A p \in tx'.readPos..(accepted' - 1) : tx'.start[p % Limit] = p + 1
<1>1. /\ tx'.readPos = tx.readPos + Len(sbuf') /\ Len(sbuf') \in Nat /\ tx'.start = tx.start
  BY Transmitted
<1>2. \A p \in tx'.readPos..(accepted' - 1) : p \in tx.readPos..(accepted - 1)
  BY <1>1, TxNumbers
<1> QED
  BY <1>1, <1>2 DEF SendInv, Sent

LEMMA KickSends == ASSUME SendInv, Kick PROVE SendInv'
<1>1. /\ main.pc = "kick" /\ Goto("idle") /\ UNCHANGED <<wire, accepted>>
      /\ IF gState = "ready" THEN Transmit ELSE UNCHANGED <<tx, sbuf, gState, early>>
  BY DEF Kick, At
<1>2. main' \in MainType /\ main'.pc = "idle"
  BY <1>1, GoneTo DEF Steps
<1>3. Ahead = 0 /\ Ahead' = 0 /\ Writing'
  <2>1. Ahead = 0 /\ Ahead' = 0
    BY <1>1, <1>2 DEF Ahead
  <2> QED
    BY <2>1, <1>1, <1>2 DEF SendInv, Writing
<1>4. CASE gState = "ready"
  <2>1. Len(sbuf) = 0 /\ tx.readPos = Len(wire) + 0
    BY <1>4, EmptySeq DEF SendInv, Sent
  <2>2. tx.readPos = Len(wire') /\ Transmit /\ accepted' = accepted
    BY <2>1, <1>1, <1>4, TxNumbers
  <2>3. /\ Sound(tx') /\ tx'.writePos = accepted' + Ahead'
        /\ tx'.readPos = Len(wire') + Len(sbuf')
        /\ sbuf' \in Seq(Nat) /\ Len(sbuf') <= SbufSize
        /\ \A k \in 1..Len(sbuf') : sbuf'[k] = Len(wire') + k \/ Len(wire') + k \in early'
        /\ gState' \in {"ready", "busy"} /\ (gState' = "busy" <=> sbuf' # <<>>)
        /\ early \subseteq early' /\ early' \subseteq 1..MaxTx /\ (PositionsAfter => early' = {})
    BY <2>2, <1>3, Transmitted, TxNumbers
  <2>4. wire' \in Seq(Nat) /\ \A k \in 1..Len(wire') : wire'[k] = k \/ k \in early'
    BY <1>1, <2>3 DEF SendInv, Sent
  <2>5. Sent'
    BY <2>2, <2>3, <2>4, StillStored DEF Sent
  <2> QED
    BY <2>5, <1>3 DEF SendInv
<1>5. CASE gState # "ready"
  BY <1>1, <1>2, <1>5, SendSame DEF txVars
<1> QED
  BY <1>4, <1>5

LEMMA TxDoneSends == ASSUME SendInv, TxDone PROVE SendInv'
<1>1. /\ gState = "busy" /\ wire' = wire \o sbuf /\ Transmit
      /\ UNCHANGED <<accepted, main>> /\ Ahead' = Ahead
  BY DEF TxDone, Ahead
<1>2. /\ wire' \in Seq(Nat) /\ Len(wire') = Len(wire) + Len(sbuf)
      /\ \A k \in 1..(Len(wire) + Len(sbuf)) :
           wire'[k] = IF k <= Len(wire) THEN wire[k] ELSE sbuf[k - Len(wire)]
  BY <1>1, ConcatProperties DEF SendInv, Sent
<1>3. tx.readPos = Len(wire')
  BY <1>2 DEF SendInv, Sent
<1>4. /\ Sound(tx') /\ tx'.start = tx.start /\ tx'.writePos = accepted' + Ahead'
      /\ tx'.readPos = Len(wire') + Len(sbuf')
      /\ Space(tx) \in Nat /\ Space(tx') \in Nat /\ Space(tx') >= Space(tx)
      /\ sbuf' \in Seq(Nat) /\ Len(sbuf') <= SbufSize /\ Len(sbuf') \in Nat
      /\ \A k \in 1..Len(sbuf') : sbuf'[k] = Len(wire') + k \/ Len(wire') + k \in early'
      /\ gState' \in {"ready", "busy"} /\ (gState' = "busy" <=> sbuf' # <<>>)
      /\ early \subseteq early' /\ early' \subseteq 1..MaxTx /\ (PositionsAfter => early' = {})
      /\ tx'.writePos = tx.writePos
  BY <1>1, <1>3, Transmitted, TxNumbers
<1>5. ASSUME NEW k \in 1..Len(wire') PROVE wire'[k] = k \/ k \in early'
  <2>1. /\ k \in Nat /\ k >= 1 /\ k <= Len(wire) + Len(sbuf)
        /\ Len(wire) \in Nat /\ Len(sbuf) \in Nat
    BY <1>2, TxNumbers
  <2>2. wire'[k] = IF k <= Len(wire) THEN wire[k] ELSE sbuf[k - Len(wire)]
    BY <2>1, <1>2
  <2>3. CASE k <= Len(wire)
    <3>1. k \in 1..Len(wire)
      BY <2>1, <2>3
    <3>2. wire[k] = k \/ k \in early
      BY <3>1 DEF SendInv, Sent
    <3> QED
      BY <2>2, <2>3, <3>2, <1>4
  <2>4. CASE k > Len(wire)
    <3>1. k - Len(wire) \in 1..Len(sbuf) /\ Len(wire) + (k - Len(wire)) = k
          /\ ~(k <= Len(wire))
      BY <2>1, <2>4
    <3>2. \/ sbuf[k - Len(wire)] = Len(wire) + (k - Len(wire))
          \/ Len(wire) + (k - Len(wire)) \in early
      BY <3>1 DEF SendInv, Sent
    <3> QED
      BY <2>2, <3>1, <3>2, <1>4
  <2> QED
    BY <2>1, <2>3, <2>4
<1>6. main.left <= Space(tx) + Ahead => main'.left <= Space(tx') + Ahead'
  <2>1. main.left \in Nat /\ Ahead \in {0, 1}
    BY TxNumbers
  <2> QED
    BY <2>1, <1>1, <1>4
<1>7. Writing'
  BY <1>1, <1>4, <1>6 DEF SendInv, Writing
<1>8. Sent'
  BY <1>1, <1>2, <1>4, <1>5, StillStored DEF Sent
<1> QED
  BY <1>7, <1>8 DEF SendInv

\* Everything else goes on in between
LEMMA NextSends == ASSUME SendInv, [Next]_vars PROVE SendInv'
<1>0. main \in MainType
  BY DEF SendInv, Writing
<1>1. CASE UNCHANGED vars
  BY <1>0, <1>1, SendSame DEF vars
<1>2. ASSUME NEW n \in 1..MaxChunk, Write(n) \/ Rxd(n) PROVE SendInv'
  <2>1. CASE Write(n)
    BY <2>1, WriteSends
  <2>2. CASE Rxd(n)
    BY <1>0, <2>2, SendSame DEF Rxd
  <2> QED
    BY <1>2, <2>1, <2>2
<1>3. CASE ReadCall \/ ReadStep
  <2>1. /\ UNCHANGED txVars /\ main.pc \notin {"put", "putting"}
        /\ \E pc \in Steps \ {"put", "putting"} : Goto(pc)
    BY <1>3 DEF ReadCall, ReadStep, InTime, ReadTimeout, NoneAvailable, GetFirst, GetThen,
      Parse, Steps, At
  <2>2. PICK pc \in Steps \ {"put", "putting"} : Goto(pc)
    BY <2>1
  <2>3. main' \in MainType /\ main'.pc = pc
    BY <2>2, GoneTo
  <2> QED
    BY <2>1, <2>3, SendSame
<1> QED
  BY <1>1, <1>2, <1>3, PutFirstSends, PutThenSends, KickSends, TxDoneSends DEF Next, SendStep

(***************************************************************************)
(* Receiving                                                               *)
(***************************************************************************)
\* Whether read has given back the slot it has yet to look at
Behind == IF ~PositionsAfter /\ main.pc = "getting" THEN 1 ELSE 0

\* What was read begins what was taken in; the rest is in its slots
Recv ==
  /\ Sound(rx) /\ Filled(rx) /\ rx.readPos = Len(got) + Behind /\ rx.writePos = Len(taken)
  /\ taken \in Seq(Bytes) /\ got \in Seq(Bytes) /\ raw \in Seq(Bytes)
  /\ Len(raw) <= Len(got)
  /\ arrived \in 0..Last /\ Len(taken) <= arrived
  /\ frames \subseteq Ends /\ cut \subseteq Bytes
  /\ \A k \in 1..Len(got) : got[k] = taken[k] \/ k \in late
  /\ \A p \in rx.readPos..(rx.writePos - 1) : rx.start[p % Limit] = taken[p + 1]
  /\ main.pc = "getting" =>
       /\ Len(got) < Len(taken)
       /\ rx.start[Len(got) % Limit] = taken[Len(got) + 1] \/ Len(got) + 1 \in late
  /\ late \subseteq Bytes /\ (PositionsAfter => late = {})

LEMMA InitRecv == Init => Recv
<1> SUFFICES ASSUME Init PROVE Recv
  OBVIOUS
<1>1. /\ taken = <<>> /\ got = <<>> /\ raw = <<>> /\ rx = NewCircBuf
      /\ main.pc = "idle" /\ arrived = 0 /\ frames = {} /\ cut = {} /\ late = {}
  BY DEF Init
<1>2. /\ taken \in Seq(Bytes) /\ got \in Seq(Bytes) /\ raw \in Seq(Bytes)
      /\ Len(taken) = 0 /\ Len(got) = 0
  BY <1>1
<1>3. Sound(rx) /\ rx.readPos = 0 /\ rx.writePos = 0
  BY <1>1, Emptied
<1>4. Filled(rx) /\ Behind = 0
  BY <1>1, <1>3 DEF Filled, Behind
<1> QED
  BY <1>1, <1>2, <1>3, <1>4, Sizes DEF Recv

LEMMA RxNumbers ==
  ASSUME Recv
  PROVE  /\ rx.readPos \in Nat /\ rx.writePos \in Nat
         /\ rx.readPos <= rx.writePos /\ rx.writePos <= rx.readPos + Limit
         /\ Size(rx) = rx.writePos - rx.readPos /\ Size(rx) \in Nat /\ Size(rx) <= Limit
         /\ Space(rx) = Limit - Size(rx) /\ Space(rx) \in Nat
         /\ Len(taken) \in Nat /\ Len(got) \in Nat /\ Len(raw) \in Nat
         /\ Behind \in {0, 1} /\ rx.readPos = Len(got) + Behind /\ rx.writePos = Len(taken)
         /\ arrived \in Nat /\ arrived <= Last
         /\ Len(got) <= Len(taken) /\ Len(taken) <= arrived /\ Len(raw) <= Len(got)
<1>1. /\ rx.readPos \in Nat /\ rx.writePos \in Nat /\ rx.readPos <= rx.writePos
      /\ rx.writePos <= rx.readPos + Limit
  BY Fields DEF Recv, Sound
<1>2. Len(taken) \in Nat /\ Len(got) \in Nat /\ Len(raw) \in Nat
  BY LenProperties DEF Recv
<1>3. Behind \in {0, 1} /\ rx.readPos = Len(got) + Behind /\ rx.writePos = Len(taken)
  BY DEF Behind, Recv
<1>4. arrived \in Nat /\ arrived <= Last /\ Len(taken) <= arrived /\ Len(raw) <= Len(got)
  BY Sizes DEF Recv
<1> QED
  BY <1>1, <1>2, <1>3, <1>4, Sizes DEF Size, Space

\* The slot that a read in progress looks at
LEMMA LooksAt ==
  ASSUME NEW c, Sound(c), main.pc = "getting", Len(got) \in Nat,
         c.readPos = Len(got) + Behind
  PROVE  ReadValue(c) = c.start[Len(got) % Limit]
<1>1. c.readPos - (IF PositionsAfter THEN 0 ELSE 1) = Len(got)
  <2>1. Behind = IF PositionsAfter THEN 0 ELSE 1
    BY DEF Behind
  <2>2. CASE PositionsAfter
    BY <2>1, <2>2
  <2>3. CASE ~PositionsAfter
    BY <2>1, <2>3
  <2> QED
    BY <2>2, <2>3
<1> QED
  BY <1>1, ReadMoves

\* Neither the buffer nor what went through it changes
LEMMA RecvSame ==
  ASSUME Recv, UNCHANGED <<rx, got, taken, arrived, late>>, raw' \in {raw, <<>>},
         frames' \subseteq Ends, cut' \subseteq Bytes,
         main'.pc = "getting" <=> main.pc = "getting"
  PROVE  Recv'
<1>1. Behind' = Behind
  BY DEF Behind
<1>2. raw' \in Seq(Bytes) /\ Len(raw') <= Len(got)
  <2>1. raw \in Seq(Bytes) /\ Len(raw) <= Len(got) /\ Len(got) \in Nat
    BY RxNumbers DEF Recv
  <2>2. <<>> \in Seq(Bytes) /\ Len(<<>>) <= Len(got)
    BY <2>1
  <2> QED
    BY <2>1, <2>2
<1> QED
  BY <1>1, <1>2 DEF Recv, Sound, Filled

LEMMA Chunked ==
  ASSUME NEW n \in 1..MaxChunk, arrived \in 0..Last, arrived + n <= Last
  PROVE  /\ Chunk(n) \in Seq(Bytes) /\ Chunk(n) \in Seq(Nat) /\ Len(Chunk(n)) = n
         /\ arrived + n \in 0..Last
<1>1. n \in Nat /\ arrived \in Nat /\ arrived + n \in 0..Last
  BY Sizes
<1>2. \A k \in 1..n : arrived + k \in Bytes /\ arrived + k \in Nat
  BY <1>1, Sizes DEF Bytes
<1> QED
  BY <1>1, <1>2 DEF Chunk

\* What the chunk did to the slot a read looks at is recorded
LEMMA Noticed ==
  ASSUME Recv, Recv => Sound(rx'), rx'.readPos = rx.readPos, Overwritten,
         got' = got, main' = main
  PROVE  /\ late \subseteq late' /\ late' \subseteq Bytes
         /\ main.pc = "getting" =>
              rx'.start[Len(got) % Limit] = rx.start[Len(got) % Limit] \/ Len(got) + 1 \in late'
         /\ main.pc = "getting" /\ rx'.start[Len(got) % Limit] = rx.start[Len(got) % Limit]
              => late' = late
         /\ main.pc # "getting" => late' = late
<1>1. late' = late \cup {k \in {Len(got) + 1} :
                           At("getting") /\ ReadValue(rx') # ReadValue(rx)}
  BY DEF Overwritten
<1>2. CASE main.pc = "getting"
  <2>1. Len(got) \in Nat /\ Len(got) < Len(taken) /\ Len(taken) <= Last /\ Len(taken) \in Nat
    BY <1>2, RxNumbers, Sizes DEF Recv
  <2>2. /\ ReadValue(rx) = rx.start[Len(got) % Limit]
        /\ ReadValue(rx') = rx'.start[Len(got) % Limit]
    BY <1>2, <2>1, LooksAt DEF Recv
  <2>3. Len(got) + 1 \in Bytes
    BY <2>1, Sizes DEF Bytes
  <2> QED
    BY <1>1, <1>2, <2>2, <2>3 DEF At, Recv
<1>3. CASE main.pc # "getting"
  BY <1>1, <1>3 DEF At, Recv
<1> QED
  BY <1>2, <1>3

LEMMA RxdRecv == ASSUME Recv, NEW n \in 1..MaxChunk, Rxd(n) PROVE Recv'
<1>1. /\ arrived + n <= Last /\ arrived' = arrived + n /\ arrived \in 0..Last
      /\ UNCHANGED <<raw, got, frames, cut, main>> /\ Overwritten /\ Behind' = Behind
  BY DEF Rxd, Recv, Behind
<1>2. /\ Chunk(n) \in Seq(Bytes) /\ Chunk(n) \in Seq(Nat) /\ Len(Chunk(n)) = n
      /\ arrived' \in 0..Last /\ n \in Nat /\ n >= 1
  BY <1>1, Chunked, Sizes
<1>3. CASE Space(rx) >= n
  <2> DEFINE c == Chunk(n)
  <2>1. /\ c \in Seq(Bytes) /\ c \in Seq(Nat) /\ Len(c) = n /\ Len(c) <= Space(rx)
        /\ rx' = WriteAll(rx, c) /\ taken' = taken \o c
    BY <1>2, <1>3, RxNumbers DEF Rxd
  <2>2. Sound(rx) /\ Filled(rx) /\ rx.writePos = Len(taken) /\ taken \in Seq(Bytes)
    BY DEF Recv
  <2> HIDE DEF c
  <2>3. /\ taken' \in Seq(Bytes) /\ Len(taken') = Len(taken) + n
        /\ \A k \in 1..(Len(taken) + n) :
             taken'[k] = IF k <= Len(taken) THEN taken[k] ELSE c[k - Len(taken)]
    <3>1. c \in Seq(Bytes) /\ Len(c) = n /\ taken' = taken \o c /\ taken \in Seq(Bytes)
      BY <2>1, <2>2
    <3> QED
      BY <3>1, ConcatProperties
  <2>4. /\ Sound(rx') /\ rx'.readPos = rx.readPos /\ rx'.writePos = rx.writePos + n
        /\ \A p \in rx.readPos..(rx.writePos - 1) : rx'.start[p % Limit] = rx.start[p % Limit]
        /\ \A j \in 1..n : rx'.start[(rx.writePos + j - 1) % Limit] = c[j]
    <3>1. /\ Sound(WriteAll(rx, c)) /\ WriteAll(rx, c).readPos = rx.readPos
          /\ WriteAll(rx, c).writePos = rx.writePos + Len(c)
          /\ \A p \in rx.readPos..(rx.writePos - 1) :
               WriteAll(rx, c).start[p % Limit] = rx.start[p % Limit]
          /\ \A j \in 1..Len(c) :
               WriteAll(rx, c).start[(rx.writePos + j - 1) % Limit] = c[j]
      BY <2>1, <2>2, ChunkWritten
    <3> QED
      BY <2>1, <3>1, Zenon
  <2>5. Filled(rx')
    BY <2>1, <2>2, ChunkFills DEF Filled
  <2>6. \A k \in 1..Len(taken) : taken'[k] = taken[k]
    <3>1. Len(taken) \in Nat /\ n \in Nat
      BY <1>2, RxNumbers
    <3>2. \A k \in 1..Len(taken) : k \in 1..(Len(taken) + n) /\ k <= Len(taken)
      BY <3>1
    <3> QED
      BY <3>2, <2>3
  <2>7. /\ late \subseteq late' /\ late' \subseteq Bytes
        /\ main.pc = "getting" =>
             rx'.start[Len(got) % Limit] = rx.start[Len(got) % Limit] \/ Len(got) + 1 \in late'
        /\ main.pc = "getting" /\ rx'.start[Len(got) % Limit] = rx.start[Len(got) % Limit]
              => late' = late
        /\ main.pc # "getting" => late' = late
    BY <1>1, <2>4, Noticed
  <2>8. ASSUME NEW k \in 1..Len(got') PROVE got'[k] = taken'[k] \/ k \in late'
    <3>1. k \in 1..Len(got) /\ k \in 1..Len(taken)
      BY <1>1, RxNumbers
    <3> QED
      BY <3>1, <1>1, <2>6, <2>7 DEF Recv
  <2>9. ASSUME NEW p \in rx'.readPos..(rx'.writePos - 1)
        PROVE  rx'.start[p % Limit] = taken'[p + 1]
    <3>1. /\ rx.readPos \in Nat /\ rx.writePos \in Nat /\ p \in Nat /\ p >= rx.readPos
          /\ p < rx.writePos + n /\ Len(taken) = rx.writePos
      <4>1. rx.readPos \in Nat /\ rx.writePos \in Nat /\ Len(taken) = rx.writePos
        BY RxNumbers
      <4>2. n \in Nat /\ rx'.readPos = rx.readPos /\ rx'.writePos = rx.writePos + n
        BY <2>4, <1>2
      <4> QED
        BY <4>1, <4>2
    <3>2. taken'[p + 1] = IF p + 1 <= Len(taken) THEN taken[p + 1] ELSE c[p + 1 - Len(taken)]
      <4>1. p + 1 \in 1..(Len(taken) + n)
        BY <3>1, <1>2
      <4> QED
        BY <4>1, <2>3
    <3>3. CASE p < rx.writePos
      <4>1. p \in rx.readPos..(rx.writePos - 1) /\ p + 1 <= Len(taken)
        BY <3>1, <3>3
      <4> QED
        BY <4>1, <3>2, <2>4 DEF Recv
    <3>4. CASE p >= rx.writePos
      <4>1. PICK j \in 1..n : j = p + 1 - Len(taken)
        BY <3>1, <3>4, <1>2
      <4>2. rx.writePos + j - 1 = p /\ ~(p + 1 <= Len(taken))
        BY <4>1, <3>1, <3>4, <1>2
      <4> QED
        BY <4>1, <4>2, <3>2, <2>4
    <3> QED
      BY <3>1, <3>3, <3>4
  <2>10. ASSUME main'.pc = "getting"
         PROVE  /\ Len(got') < Len(taken')
                /\ \/ rx'.start[Len(got') % Limit] = taken'[Len(got') + 1]
                   \/ Len(got') + 1 \in late'
    <3>1. /\ main.pc = "getting" /\ Len(got) < Len(taken)
          /\ rx.start[Len(got) % Limit] = taken[Len(got) + 1] \/ Len(got) + 1 \in late
      BY <2>10, <1>1 DEF Recv
    <3>2. Len(got) + 1 \in 1..Len(taken) /\ Len(got) < Len(taken')
      <4>1. Len(got) \in Nat /\ Len(taken) \in Nat
        BY RxNumbers
      <4>2. Len(taken') = Len(taken) + n /\ n \in Nat /\ Len(got) < Len(taken)
        BY <3>1, <2>3, <1>2
      <4> QED
        BY <4>1, <4>2
    <3> QED
      BY <3>1, <3>2, <2>6, <2>7, <1>1
  <2>11. PositionsAfter => late' = {}
    <3> SUFFICES ASSUME PositionsAfter PROVE late' = {}
      OBVIOUS
    <3>1. late = {}
      BY DEF Recv
    <3>2. CASE main.pc = "getting"
      <4>1. Len(got) \in rx.readPos..(rx.writePos - 1)
        BY <3>2, RxNumbers DEF Recv, Behind
      <4> QED
        BY <3>1, <3>2, <4>1, <2>4, <2>7
    <3> QED
      BY <3>1, <3>2, <2>7
  <2>12. /\ rx'.readPos = Len(got') + Behind' /\ rx'.writePos = Len(taken')
         /\ Len(taken') <= arrived'
    <3>1. /\ rx'.readPos = rx.readPos /\ rx'.writePos = rx.writePos + n
          /\ Len(taken') = Len(taken) + n
      BY <2>3, <2>4
    <3>2. /\ rx.readPos = Len(got) + Behind /\ rx.writePos = Len(taken)
          /\ Len(taken) <= arrived /\ Len(taken) \in Nat /\ arrived \in Nat
      BY RxNumbers
    <3>3. rx'.readPos = Len(got') + Behind'
      BY <3>1, <3>2, <1>1
    <3>4. rx'.writePos = Len(taken')
      BY <3>1, <3>2
    <3> QED
      BY <3>1, <3>2, <3>3, <3>4, <1>1, <1>2
  <2> QED
    BY <2>3, <2>4, <2>5, <2>7, <2>8, <2>9, <2>10, <2>11, <2>12, <1>1, <1>2 DEF Recv
<1>4. CASE ~(Space(rx) >= n)
  <2>1. UNCHANGED <<rx, taken>>
    BY <1>4 DEF Rxd
  <2>2. Sound(rx) /\ Sound(rx') /\ rx'.readPos = rx.readPos
    BY <2>1 DEF Recv, Sound
  <2>3. late' = late
    BY <2>1, <2>2, <1>1, Noticed
  <2>4. Len(taken') <= arrived'
    BY <2>1, <1>1, <1>2, RxNumbers
  <2> QED
    BY <2>1, <2>2, <2>3, <2>4, <1>1, <1>2 DEF Recv, Filled
<1> QED
  BY <1>3, <1>4

LEMMA GetFirstRecv == ASSUME Recv, main \in MainType, GetFirst PROVE Recv'
<1>1. /\ main.pc = "poll" /\ Size(rx) > 0 /\ rx' = ReadFirst(rx) /\ main'.pc = "getting"
      /\ UNCHANGED <<raw, got, frames, cut, arrived, taken, late>>
  BY DEF GetFirst, At, Goto, MainType
<1>2. Sound(rx) /\ 1 \in 0..Size(rx) /\ Behind = 0 /\ Behind' = IF PositionsAfter THEN 0 ELSE 1
  BY <1>1, RxNumbers DEF Recv, Behind
<1>3. /\ rx.readPos = Len(got) /\ Len(got) \in Nat /\ Len(taken) \in Nat
      /\ rx.writePos = Len(taken) /\ Len(got) < Len(taken)
  BY <1>1, <1>2, RxNumbers
<1>4. /\ Sound(rx') /\ rx'.start = rx.start /\ rx'.writePos = rx.writePos
      /\ rx'.readPos = rx.readPos + Behind'
  <2>1. CASE PositionsAfter
    <3>1. rx' = rx /\ Behind' = 0 /\ rx.readPos + 0 = rx.readPos
      BY <1>1, <1>2, <1>3, <2>1, ReadMoves
    <3> QED
      BY <3>1, <1>2
  <2>2. CASE ~PositionsAfter
    <3>1. rx' = ReadAll(rx, 1)
      BY <1>1, <1>2, <2>2, ReadMoves
    <3> QED
      BY <3>1, <2>2, <1>2, TakenOut
  <2> QED
    BY <2>1, <2>2
<1>5. rx.start[Len(got) % Limit] = taken[Len(got) + 1]
  <2>1. Len(got) \in rx.readPos..(rx.writePos - 1)
    BY <1>3
  <2> QED
    BY <2>1 DEF Recv
<1>6. \A p \in rx'.readPos..(rx'.writePos - 1) : p \in rx.readPos..(rx.writePos - 1)
  BY <1>2, <1>3, <1>4
<1>7. Filled(rx')
  BY <1>4 DEF Recv, Filled
<1>8. rx'.readPos = Len(got') + Behind' /\ rx'.writePos = Len(taken')
  BY <1>1, <1>3, <1>4
<1> QED
  BY <1>1, <1>3, <1>4, <1>5, <1>6, <1>7, <1>8 DEF Recv

\* A read appends one byte, of those that were ever taken in
LEMMA GotOne ==
  ASSUME Recv, main \in MainType, GetThen
  PROVE  \E b \in Bytes :
           /\ b = rx.start[Len(got) % Limit]
           /\ raw' = Append(raw, b) /\ got' = Append(got, b)
           /\ raw' \in Seq(Bytes) /\ got' \in Seq(Bytes)
           /\ Len(got') = Len(got) + 1 /\ got'[Len(got) + 1] = b
           /\ \A k \in 1..Len(got) : got'[k] = got[k]
           /\ Len(raw') = Len(raw) + 1 /\ raw'[Len(raw) + 1] = b
           /\ \A k \in 1..Len(raw) : raw'[k] = raw[k]
           /\ main.pc = "getting" /\ main'.pc = IF b \in Ends THEN "parse" ELSE "poll"
<1> DEFINE v == ReadValue(rx)
<1>1. /\ main.pc = "getting"
      /\ raw' = Append(raw, v) /\ got' = Append(got, v)
      /\ main'.pc = IF v \in Ends THEN "parse" ELSE "poll"
  BY DEF GetThen, At, Goto, MainType
<1>2. /\ Sound(rx) /\ rx.readPos = Len(got) + Behind /\ Len(got) \in Nat
      /\ Len(got) < rx.writePos /\ rx.writePos \in Nat
  BY <1>1, RxNumbers DEF Recv
<1> DEFINE i == Len(got) % Limit
<1>3. v = rx.start[i]
  BY <1>1, <1>2, LooksAt
<1>4. i \in 0..(Limit - 1) /\ i <= Len(got)
  BY <1>2, BelowSlot
<1> HIDE DEF v, i
<1>5. i < rx.writePos
  <2>1. i \in Int
    BY <1>4, Sizes
  <2> QED
    BY <2>1, <1>2, <1>4
<1>6. v \in Bytes
  BY <1>3, <1>4, <1>5 DEF Recv, Filled
<1>7. /\ raw' \in Seq(Bytes) /\ got' \in Seq(Bytes)
      /\ Len(got') = Len(got) + 1 /\ got'[Len(got) + 1] = v
      /\ \A k \in 1..Len(got) : got'[k] = got[k]
      /\ Len(raw') = Len(raw) + 1 /\ raw'[Len(raw) + 1] = v
      /\ \A k \in 1..Len(raw) : raw'[k] = raw[k]
  BY <1>1, <1>6, AppendProperties DEF Recv
<1> QED
  BY <1>1, <1>3, <1>6, <1>7 DEF i

LEMMA GetThenRecv == ASSUME Recv, main \in MainType, GetThen PROVE Recv'
<1>1. PICK b \in Bytes :
        /\ b = rx.start[Len(got) % Limit]
        /\ raw' = Append(raw, b) /\ got' = Append(got, b)
        /\ raw' \in Seq(Bytes) /\ got' \in Seq(Bytes)
        /\ Len(got') = Len(got) + 1 /\ got'[Len(got) + 1] = b
        /\ \A k \in 1..Len(got) : got'[k] = got[k]
        /\ Len(raw') = Len(raw) + 1 /\ raw'[Len(raw) + 1] = b
        /\ \A k \in 1..Len(raw) : raw'[k] = raw[k]
        /\ main.pc = "getting" /\ main'.pc = IF b \in Ends THEN "parse" ELSE "poll"
  BY GotOne, Zenon
<1>2. rx' = ReadThen(rx) /\ UNCHANGED <<frames, cut, arrived, taken, late>>
  BY DEF GetThen
<1>3. /\ Len(got) \in Nat /\ Len(taken) \in Nat /\ Len(got) < Len(taken) /\ Sound(rx)
      /\ rx.readPos = Len(got) + Behind /\ rx.writePos = Len(taken)
      /\ rx.start[Len(got) % Limit] = taken[Len(got) + 1] \/ Len(got) + 1 \in late
  BY <1>1, RxNumbers DEF Recv
<1>4. main'.pc # "getting" /\ Behind' = 0
  BY <1>1 DEF Behind
<1>5. /\ Sound(rx') /\ rx'.start = rx.start /\ rx'.writePos = rx.writePos
      /\ rx'.readPos = Len(got) + 1
  <2>1. CASE PositionsAfter
    <3>1. rx' = ReadAll(rx, 1)
      BY <1>2, <1>3, <2>1, ReadMoves
    <3>2. Behind = 0 /\ rx.readPos = Len(got)
      BY <1>3, <2>1 DEF Behind
    <3>3. 1 \in 0..Size(rx)
      BY <3>2, <1>3 DEF Size
    <3> QED
      BY <3>1, <3>2, <3>3, <1>3, TakenOut
  <2>2. CASE ~PositionsAfter
    <3>1. rx' = rx /\ Behind = 1
      BY <1>1, <1>2, <1>3, <2>2, ReadMoves DEF Behind
    <3> QED
      BY <3>1, <1>3
  <2> QED
    BY <2>1, <2>2
<1>6. ASSUME NEW k \in 1..Len(got') PROVE got'[k] = taken'[k] \/ k \in late'
  <2>1. k \in 1..Len(got) \/ k = Len(got) + 1
    BY <1>1, <1>3
  <2>2. CASE k \in 1..Len(got)
    BY <2>2, <1>1, <1>2 DEF Recv
  <2>3. CASE k = Len(got) + 1
    BY <2>3, <1>1, <1>2, <1>3
  <2> QED
    BY <2>1, <2>2, <2>3
<1>7. \A p \in rx'.readPos..(rx'.writePos - 1) : p \in rx.readPos..(rx.writePos - 1)
  BY <1>3, <1>5, RxNumbers
<1>8. Filled(rx')
  BY <1>5 DEF Recv, Filled
<1>9. /\ rx'.readPos = Len(got') + Behind' /\ rx'.writePos = Len(taken')
      /\ Len(raw') <= Len(got')
  BY <1>1, <1>2, <1>3, <1>4, <1>5, RxNumbers
<1> QED
  BY <1>1, <1>2, <1>4, <1>5, <1>6, <1>7, <1>8, <1>9 DEF Recv

LEMMA NextRecvs == ASSUME Recv, main \in MainType, [Next]_vars PROVE Recv'
<1>0. raw \in Seq(Bytes) /\ frames \subseteq Ends /\ cut \subseteq Bytes
  BY DEF Recv
<1>1. CASE UNCHANGED vars \/ TxDone
  <2>1. UNCHANGED <<rxVars, arrived, taken, main>>
    BY <1>1 DEF vars, TxDone
  <2> QED
    BY <2>1, <1>0, RecvSame DEF rxVars
<1>2. CASE SendStep \/ \E n \in 1..MaxChunk : Write(n)
  <2>1. UNCHANGED <<rxVars, arrived, taken>> /\ main.pc # "getting" /\ main'.pc # "getting"
    BY <1>2 DEF SendStep, PutFirst, PutThen, Kick, Write, At, Goto, MainType
  <2> QED
    BY <2>1, <1>0, RecvSame DEF rxVars
<1>3. CASE ReadCall \/ InTime \/ NoneAvailable
  <2>1. /\ UNCHANGED <<rx, got, frames, cut, arrived, taken, late>>
        /\ main.pc # "getting" /\ main'.pc # "getting" /\ raw' \in {raw, <<>>}
    BY <1>3 DEF ReadCall, InTime, NoneAvailable, rxVars, At, Goto, MainType
  <2> QED
    BY <2>1, <1>0, RecvSame
<1>4. CASE ReadTimeout
  <2>1. /\ UNCHANGED <<rx, got, frames, arrived, taken, late>>
        /\ main.pc # "getting" /\ main'.pc # "getting"
        /\ raw' = <<>> /\ cut' = cut \cup (Len(got) - Len(raw) + 1)..Len(got)
    BY <1>4 DEF ReadTimeout, At, Goto, MainType
  <2>2. cut' \subseteq Bytes
    <3> SUFFICES ASSUME NEW x \in (Len(got) - Len(raw) + 1)..Len(got) PROVE x \in 1..Last
      BY <2>1, <1>0 DEF Bytes
    <3> QED
      BY RxNumbers, Sizes
  <2> QED
    BY <2>1, <2>2, <1>0, RecvSame
<1>5. CASE Parse
  <2>1. /\ UNCHANGED <<rx, got, cut, arrived, taken, late>> /\ raw' = <<>>
        /\ main.pc # "getting" /\ main'.pc # "getting"
    BY <1>5 DEF Parse, At, Goto, MainType
  <2>2. frames' \subseteq Ends
    BY <1>5, <1>0 DEF Parse, Deserializes, FrameAt
  <2> QED
    BY <2>1, <2>2, <1>0, RecvSame
<1> QED
  BY <1>1, <1>2, <1>3, <1>4, <1>5, RxdRecv, GetFirstRecv, GetThenRecv DEF Next, ReadStep

(***************************************************************************)
(* The specification                                                       *)
(***************************************************************************)
IInv == SendInv /\ Recv

LEMMA InitIInv == Init => IInv
BY InitSend, InitRecv DEF IInv

LEMMA NextIInv == IInv /\ [Next]_vars => IInv'
BY NextSends, NextRecvs DEF IInv, SendInv, Writing

LEMMA Invariant == Spec => []IInv
BY InitIInv, NextIInv, PTL DEF Spec

\* Sizes and types: neither buffer is ever over- or underrun, in whichever order
\* the build updates positions and slots.
THEOREM TypeCorrect == Spec => []TypeOK
<1>1. IInv => TypeOK
  <2> SUFFICES ASSUME IInv PROVE TypeOK
    OBVIOUS
  <2>1. Size(tx) \in 0..Limit /\ Size(rx) \in 0..Limit
    BY TxNumbers, RxNumbers, Sizes DEF IInv
  <2>2. main.pc \in Steps /\ main.left \in 0..MaxChunk /\ accepted \in 0..MaxTx
    BY DEF IInv, SendInv, Writing, MainType
  <2> QED
    BY <2>1, <2>2 DEF IInv, SendInv, Sent, Recv, TypeOK, Steps, Bytes
<1> QED
  BY <1>1, Invariant, PTL

\* All bytes are accounted for: those on the wire, in the chunk and in the buffer
\* are as many as write took in, those read and in the buffer as many as the
\* interrupt took in.
Counted ==
  /\ main.pc # "putting" => Len(wire) + Len(sbuf) + Size(tx) = accepted
  /\ main.pc # "getting" => Len(got) + Size(rx) = Len(taken)

\* No byte is lost or doubled, in whichever order: an interrupt between the two
\* accesses to memory can only spoil what a byte is.
THEOREM NoneMiscounted == Spec => []Counted
<1>1. IInv => Counted
  <2> SUFFICES ASSUME IInv PROVE Counted
    OBVIOUS
  <2>1. ASSUME main.pc # "putting" PROVE Len(wire) + Len(sbuf) + Size(tx) = accepted
    <3>1. tx.writePos = accepted + 0 /\ tx.readPos = Len(wire) + Len(sbuf)
      BY <2>1 DEF IInv, SendInv, Sent, Ahead
    <3> QED
      BY <3>1, TxNumbers DEF IInv
  <2>2. ASSUME main.pc # "getting" PROVE Len(got) + Size(rx) = Len(taken)
    <3>1. rx.writePos = Len(taken) /\ rx.readPos = Len(got) + 0
      BY <2>2 DEF IInv, Recv, Behind
    <3> QED
      BY <3>1, RxNumbers DEF IInv
  <2> QED
    BY <2>1, <2>2 DEF Counted
<1> QED
  BY <1>1, Invariant, PTL

\* With positions updated after the slots no byte is spoilt in either direction.
\* The hypothesis is needed: SerialOrder's run spoils one with the other order.
THEOREM NoneSpoilt == PositionsAfter => (Spec => [](early = {} /\ late = {}))
<1> SUFFICES ASSUME PositionsAfter PROVE Spec => [](early = {} /\ late = {})
  OBVIOUS
<1>1. IInv => early = {} /\ late = {}
  BY DEF IInv, SendInv, Sent, Recv
<1> QED
  BY <1>1, Invariant, PTL

\* Nor does the transmit interrupt then take out a byte before it was written, as
\* CircBuf.cpp wants it.
THEOREM WrittenFirst == PositionsAfter => (Spec => []ReadsOnlyWritten)
<1> SUFFICES ASSUME PositionsAfter PROVE Spec => []ReadsOnlyWritten
  OBVIOUS
<1>1. IInv => ReadsOnlyWritten
  BY DEF IInv, SendInv, Sent, ReadsOnlyWritten
<1> QED
  BY <1>1, Invariant, PTL

(***************************************************************************)
(* Both directions implement Pipe                                          *)
(***************************************************************************)
LEMMA Begins ==
  ASSUME NEW S, NEW s \in Seq(S), NEW t \in Seq(S), Len(s) <= Len(t),
         \A i \in 1..Len(s) : s[i] = t[i]
  PROVE  SendPipe!IsPrefix(s, t) /\ ReceivePipe!IsPrefix(s, t)
<1>1. Len(s) \in Nat /\ Len(t) \in Nat
  BY LenProperties
<1>2. \A i \in 1..Len(s) : t[i] \in S
  BY <1>1, ElementOfSeq
<1> DEFINE u == SubSeq(t, 1, Len(s))
<1>3. u \in Seq(S) /\ Len(u) = Len(s) /\ \A i \in 1..Len(s) : u[i] = t[i]
  BY <1>1, <1>2, SubSeqProperties
<1> HIDE DEF u
<1>4. s = u
  BY <1>3, SeqEqual
<1> QED
  BY <1>4 DEF SendPipe!IsPrefix, ReceivePipe!IsPrefix, u

Numbers(n) == [b \in 1..n |-> b]

LEMMA Counting ==
  ASSUME NEW n \in Nat
  PROVE  /\ Numbers(n) \in Seq(Nat) /\ Len(Numbers(n)) = n
         /\ \A i \in 1..n : Numbers(n)[i] = i
BY DEF Numbers

\* Byte b left the port as byte b, or was taken out too early
LEMMA DepartedInOrder == ASSUME SendInv PROVE Departed = Numbers(Len(wire))
<1>1. \A b \in 1..Len(wire) : (IF b \in early THEN b ELSE wire[b]) = b
  BY DEF SendInv, Sent
<1> QED
  BY <1>1 DEF Departed, Numbers

\* write gives up one more slot, or a chunk reaches the wire
LEMMA SendSteps ==
  ASSUME IInv, [Next]_vars
  PROVE  \/ tx'.writePos = tx.writePos /\ wire' = wire
         \/ tx'.writePos = tx.writePos + 1 /\ wire' = wire
         \/ tx'.writePos = tx.writePos /\ TxDone
<1>0. SendInv /\ tx.writePos \in Nat
  BY TxNumbers DEF IInv
<1>1. CASE PutFirst
  <2>1. /\ main.pc = "put" /\ tx' = WriteFirst(tx, accepted + 1) /\ wire' = wire
    BY <1>1 DEF PutFirst, At
  <2>2. /\ accepted + 1 \in Nat /\ Sound(tx) /\ Space(tx) >= 1
    <3>1. Ahead = 0
      BY <2>1 DEF Ahead
    <3> QED
      BY <3>1, <2>1, <1>0, NextFits
  <2> DEFINE c == WriteFirst(tx, accepted + 1)
  <2>3. c.writePos = tx.writePos + IF PositionsAfter THEN 0 ELSE 1
    BY <2>2, WriteBegins
  <2> HIDE DEF c
  <2>4. tx'.writePos = tx.writePos + IF PositionsAfter THEN 0 ELSE 1
    BY <2>1, <2>3 DEF c
  <2> QED
    BY <2>1, <2>4, <1>0
<1>2. CASE PutThen
  <2>1. tx'.writePos = accepted + 1 /\ wire' = wire
    BY <1>0, <1>2, Stored DEF PutThen
  <2>2. Ahead \in {0, 1} /\ tx.writePos = accepted + Ahead /\ accepted \in Nat
    BY <1>0, TxNumbers
  <2> QED
    BY <2>1, <2>2
<1>3. CASE Kick
  <2>1. wire' = wire
    BY <1>3 DEF Kick
  <2>2. tx'.writePos = tx.writePos
    BY <1>0, <1>3, Transmitted DEF Kick
  <2> QED
    BY <2>1, <2>2
<1>4. CASE TxDone
  BY <1>0, <1>4, Transmitted DEF TxDone
<1>5. CASE UNCHANGED vars \/ UNCHANGED txVars
  BY <1>5 DEF vars, txVars
<1>6. CASE (\E n \in 1..MaxChunk : Write(n) \/ Rxd(n)) \/ ReadCall \/ ReadStep
  <2>1. UNCHANGED txVars
    BY <1>6 DEF Write, Rxd, ReadCall, ReadStep, InTime, ReadTimeout, NoneAvailable, GetFirst,
      GetThen, Parse
  <2> QED
    BY <2>1 DEF txVars
<1> QED
  BY <1>1, <1>2, <1>3, <1>4, <1>5, <1>6 DEF Next, SendStep

LEMMA SendsNext ==
  ASSUME IInv, IInv', [Next]_vars
  PROVE  [SendPipe!Next]_<<[b \in 1..tx.writePos |-> b], Departed>>
<1> DEFINE a == Numbers(tx.writePos)
           c == Numbers(tx'.writePos)
           d == Numbers(Len(wire))
           e == Numbers(Len(wire'))
<1>1. /\ tx.writePos \in Nat /\ tx'.writePos \in Nat
      /\ Len(wire) \in Nat /\ Len(wire') \in Nat
  <2>1. tx.writePos \in Nat /\ Len(wire) \in Nat
    BY TxNumbers DEF IInv
  <2>2. tx'.writePos \in Nat /\ wire' \in Seq(Nat)
    BY Fields DEF IInv, SendInv, Sent, Sound, BufType
  <2> QED
    BY <2>1, <2>2, LenProperties
<1>2. Departed = d /\ Departed' = e
  <2>1. Departed = d
    BY DepartedInOrder DEF IInv
  <2>2. \A b \in 1..Len(wire') : (IF b \in early' THEN b ELSE wire'[b]) = b
    BY DEF IInv, SendInv, Sent
  <2>3. Departed' = e
    BY <2>2 DEF Departed, Numbers
  <2> QED
    BY <2>1, <2>3
<1>3. /\ a \in Seq(Nat) /\ Len(a) = tx.writePos /\ \A i \in 1..tx.writePos : a[i] = i
      /\ c \in Seq(Nat) /\ Len(c) = tx'.writePos /\ \A i \in 1..tx'.writePos : c[i] = i
      /\ d \in Seq(Nat) /\ Len(d) = Len(wire) /\ \A i \in 1..Len(wire) : d[i] = i
      /\ e \in Seq(Nat) /\ Len(e) = Len(wire') /\ \A i \in 1..Len(wire') : e[i] = i
  BY <1>1, Counting
<1>4. /\ a = [b \in 1..tx.writePos |-> b] /\ c = [b \in 1..tx'.writePos |-> b]
      /\ tx'.writePos = tx.writePos => c = a
      /\ wire' = wire => e = d
  BY DEF Numbers
<1> HIDE DEF a, c, d, e
<1>5. CASE tx'.writePos = tx.writePos /\ wire' = wire
  BY <1>2, <1>4, <1>5
<1>6. CASE tx'.writePos = tx.writePos + 1 /\ wire' = wire
  <2>1. Len(c) > Len(a) /\ Len(a) <= Len(c) /\ \A i \in 1..Len(a) : a[i] = c[i]
    BY <1>1, <1>3, <1>6
  <2>2. SendPipe!IsPrefix(a, c)
    BY <2>1, <1>3, Begins
  <2> QED
    BY <2>1, <2>2, <1>2, <1>4, <1>6 DEF SendPipe!Next, SendPipe!Take
<1>7. CASE tx'.writePos = tx.writePos /\ TxDone
  <2>1. Len(wire') > Len(wire)
    <3>1. wire' = wire \o sbuf /\ sbuf # <<>> /\ sbuf \in Seq(Nat) /\ wire \in Seq(Nat)
      BY <1>7 DEF TxDone, IInv, SendInv, Sent
    <3>2. Len(sbuf) \in Nat \ {0} /\ Len(wire') = Len(wire) + Len(sbuf)
      BY <3>1, EmptySeq, ConcatProperties
    <3> QED
      BY <3>2, <1>1
  <2>2. Len(wire') <= tx'.writePos
    <3>1. /\ tx'.readPos = Len(wire') + Len(sbuf') /\ tx'.readPos <= tx'.writePos
          /\ sbuf' \in Seq(Nat)
      BY DEF IInv, SendInv, Sent, Sound
    <3>2. Len(sbuf') \in Nat
      BY <3>1, LenProperties
    <3> QED
      BY <3>1, <3>2, <1>1
  <2>3. /\ Len(d) <= Len(e) /\ Len(e) <= Len(a) /\ Len(e) > Len(d)
        /\ \A i \in 1..Len(d) : d[i] = e[i]
        /\ \A i \in 1..Len(e) : e[i] = a[i]
    <3>1. Len(d) = Len(wire) /\ Len(e) = Len(wire') /\ Len(a) = tx.writePos
      BY <1>3
    <3>2. Len(d) <= Len(e) /\ Len(e) <= Len(a) /\ Len(e) > Len(d)
      BY <3>1, <2>1, <2>2, <1>1, <1>7
    <3>3. \A i \in 1..Len(d) : i \in 1..Len(wire) /\ i \in 1..Len(wire')
      BY <3>1, <3>2, <1>1
    <3>4. \A i \in 1..Len(e) : i \in 1..Len(wire') /\ i \in 1..tx.writePos
      BY <3>1, <3>2, <1>1
    <3> QED
      BY <3>2, <3>3, <3>4, <1>3
  <2>4. SendPipe!IsPrefix(d, e) /\ SendPipe!IsPrefix(e, a)
    BY <2>3, <1>3, Begins
  <2> QED
    BY <2>3, <2>4, <1>2, <1>4, <1>7 DEF SendPipe!Next, SendPipe!Give
<1> QED
  BY <1>5, <1>6, <1>7, SendSteps

\* The bytes that write took in leave the port in their order, none lost or
\* doubled, whoever starts the transmissions and in whichever order the build
\* stores; what a byte is differs only if it was taken out before its store.
THEOREM SendsAsPipe == Spec => Sends
<1>1. Init => SendPipe!Init
  <2> SUFFICES ASSUME Init PROVE [b \in 1..tx.writePos |-> b] = <<>> /\ Departed = <<>>
    BY DEF SendPipe!Init
  <2> QED
    BY Emptied DEF Init, Departed
<1>2. IInv /\ IInv' /\ [Next]_vars
        => [SendPipe!Next]_<<[b \in 1..tx.writePos |-> b], Departed>>
  BY SendsNext
<1> QED
  BY <1>1, <1>2, Invariant, PTL DEF Spec, Sends, SendPipe!Spec

\* What was read is the beginning of what was taken in, but for what was spoilt
First(n) == [k \in 1..n |-> taken[k]]

LEMMA DeliveredInOrder == ASSUME Recv PROVE Delivered = First(Len(got))
<1>1. \A k \in 1..Len(got) : (IF k \in late THEN taken[k] ELSE got[k]) = taken[k]
  BY DEF Recv
<1> QED
  BY <1>1 DEF Delivered, First

LEMMA FirstOf ==
  ASSUME NEW n \in 0..Len(taken), taken \in Seq(Bytes)
  PROVE  First(n) \in Seq(Bytes) /\ Len(First(n)) = n /\ \A k \in 1..n : First(n)[k] = taken[k]
<1>1. \A k \in 1..n : taken[k] \in Bytes
  BY LenProperties, ElementOfSeq
<1>2. n \in Nat
  BY LenProperties
<1> QED
  BY <1>1, <1>2 DEF First

\* A chunk is taken in or a byte is read
LEMMA ReceiveSteps ==
  ASSUME IInv, [Next]_vars
  PROVE  \/ UNCHANGED <<taken, got>>
         \/ GetThen
         \/ \E n \in 1..MaxChunk :
              Rxd(n) /\ taken' = taken \o Chunk(n) /\ got' = got
<1>1. CASE UNCHANGED vars
  BY <1>1 DEF vars, rxVars
<1>2. CASE \E n \in 1..MaxChunk : Rxd(n)
  BY <1>2 DEF Rxd
<1>3. CASE \/ \E n \in 1..MaxChunk : Write(n)
           \/ ReadCall \/ SendStep \/ InTime \/ ReadTimeout \/ NoneAvailable \/ GetFirst
           \/ Parse \/ TxDone
  BY <1>3 DEF Write, ReadCall, SendStep, PutFirst, PutThen, Kick, TxDone, InTime, ReadTimeout,
    NoneAvailable, GetFirst, Parse, rxVars
<1> QED
  BY <1>1, <1>2, <1>3 DEF Next, ReadStep

LEMMA ReceivesNext ==
  ASSUME IInv, IInv', [Next]_vars
  PROVE  [ReceivePipe!Next]_<<taken, Delivered>>
<1>1. /\ Recv /\ main \in MainType
      /\ taken \in Seq(Bytes) /\ Len(taken) \in Nat /\ Len(got) \in 0..Len(taken)
      /\ arrived \in 0..Last
  <2>1. Recv /\ main \in MainType
    BY DEF IInv, SendInv, Writing
  <2>2. Len(taken) \in Nat /\ Len(got) \in Nat /\ Len(got) <= Len(taken)
    BY <2>1, RxNumbers
  <2>3. taken \in Seq(Bytes) /\ arrived \in 0..Last
    BY <2>1 DEF Recv
  <2>4. Len(got) \in 0..Len(taken)
    BY <2>2
  <2> QED
    BY <2>1, <2>2, <2>3, <2>4
<1> DEFINE d == Delivered
           e == Delivered'
<1>2. /\ d \in Seq(Bytes) /\ Len(d) = Len(got) /\ \A k \in 1..Len(got) : d[k] = taken[k]
  BY <1>1, DeliveredInOrder, FirstOf
<1>3. e = [k \in 1..Len(got') |-> taken'[k]]
  <2>1. \A k \in 1..Len(got') : (IF k \in late' THEN taken'[k] ELSE got'[k]) = taken'[k]
    BY DEF IInv, Recv
  <2> QED
    BY <2>1 DEF Delivered
<1>4. d = [k \in 1..Len(got) |-> taken[k]]
  BY <1>1, DeliveredInOrder DEF First
<1> HIDE DEF d, e
<1>5. CASE UNCHANGED <<taken, got>>
  BY <1>3, <1>4, <1>5 DEF d, e
<1>6. ASSUME NEW n \in 1..MaxChunk, Rxd(n), taken' = taken \o Chunk(n), got' = got
      PROVE  ReceivePipe!Next
  <2> DEFINE c == Chunk(n)
  <2>1. c \in Seq(Bytes) /\ Len(c) = n /\ n \in Nat /\ n >= 1
    BY <1>1, <1>6, Chunked, Sizes DEF Rxd
  <2>2. taken' = taken \o c
    BY <1>6
  <2> HIDE DEF c
  <2>3. /\ taken' \in Seq(Bytes) /\ Len(taken') = Len(taken) + n
        /\ \A k \in 1..(Len(taken) + n) :
             taken'[k] = IF k <= Len(taken) THEN taken[k] ELSE c[k - Len(taken)]
    BY <2>1, <2>2, <1>1, ConcatProperties
  <2>4. Len(taken') > Len(taken) /\ Len(taken) <= Len(taken')
    BY <2>1, <2>3, <1>1
  <2>5. \A k \in 1..Len(taken) : taken[k] = taken'[k]
    BY <2>1, <2>3, <1>1
  <2>6. ReceivePipe!IsPrefix(taken, taken')
    BY <2>3, <2>4, <2>5, <1>1, Begins
  <2>7. e = d
    <3>1. \A k \in 1..Len(got) : taken[k] = taken'[k]
      BY <2>5, <1>1
    <3> QED
      BY <3>1, <1>3, <1>4, <1>6
  <2> QED
    BY <2>4, <2>6, <2>7 DEF ReceivePipe!Next, ReceivePipe!Take, d, e
<1>7. CASE GetThen
  <2>1. taken' = taken /\ Len(got') = Len(got) + 1 /\ Len(got) < Len(taken)
    <3>1. taken' = taken /\ main.pc = "getting"
      BY <1>7 DEF GetThen, At
    <3>2. Len(got') = Len(got) + 1
      BY <1>1, <1>7, GotOne
    <3> QED
      BY <3>1, <3>2 DEF IInv, Recv
  <2>2. Len(got') \in 0..Len(taken)
    BY <2>1, <1>1
  <2>3. e = First(Len(got'))
    BY <2>1, <1>3 DEF First
  <2>4. /\ e \in Seq(Bytes) /\ Len(e) = Len(got') /\ \A k \in 1..Len(got') : e[k] = taken[k]
    BY <2>2, <2>3, <1>1, FirstOf
  <2>5. Len(e) > Len(d) /\ Len(d) <= Len(e) /\ Len(e) <= Len(taken)
    BY <2>1, <2>2, <2>4, <1>1, <1>2
  <2>6. \A k \in 1..Len(d) : d[k] = e[k]
    BY <2>1, <2>4, <1>1, <1>2
  <2>7. ReceivePipe!IsPrefix(d, e) /\ ReceivePipe!IsPrefix(e, taken)
    BY <2>4, <2>5, <2>6, <1>1, <1>2, Begins
  <2> QED
    BY <2>1, <2>5, <2>7 DEF ReceivePipe!Next, ReceivePipe!Give, d, e
<1> QED
  BY <1>5, <1>6, <1>7, ReceiveSteps DEF d, e

\* The bytes that the receive interrupt put into the buffer are read in their
\* order, each once, however full the buffer is and in whichever order the build
\* stores; what a byte is differs only if it was overwritten while it was read.
THEOREM ReceivesAsPipe == Spec => Receives
<1>1. Init => ReceivePipe!Init
  BY DEF Init, ReceivePipe!Init, Delivered
<1>2. IInv /\ IInv' /\ [Next]_vars => [ReceivePipe!Next]_<<taken, Delivered>>
  BY ReceivesNext
<1> QED
  BY <1>1, <1>2, Invariant, PTL DEF Spec, Receives, ReceivePipe!Spec

(***************************************************************************)
(* Frames                                                                  *)
(***************************************************************************)
\* Where the partial frame begins
Off == Len(got) - Len(raw)

\* raw holds what was read since then, no marker before the last of it; it began
\* with a timeout or after a marker, and is empty while the main loop writes.
Partial ==
  /\ \A k \in 1..Len(raw) : raw[k] = got[Off + k]
  /\ cut \subseteq 1..Off
  /\ Off # 0 => Off \in cut \/ got[Off] \in Ends
  /\ \A k \in 1..Len(raw) : raw[k] \in Ends => k = Len(raw) /\ At("parse")
  /\ At("parse") => raw # <<>> /\ raw[Len(raw)] \in Ends
  /\ main.pc \in {"idle", "put", "putting", "kick"} => raw = <<>>

\* All of them but the one just read and not parsed
Passed ==
  \A j \in 1..Len(got) : \A i \in 1..j :
    (j < Len(got) \/ ~At("parse")) /\ Intact(i, j) => got[j] \in frames

Framing == Partial /\ Passed

LEMMA InitFraming == Init => Framing
<1> SUFFICES ASSUME Init PROVE Framing
  OBVIOUS
<1>1. got = <<>> /\ raw = <<>> /\ cut = {} /\ main.pc = "idle"
  BY DEF Init
<1> QED
  BY <1>1 DEF Framing, Partial, Passed, Off, At

LEMMA OffNumbers ==
  ASSUME Recv, Framing
  PROVE  /\ Len(got) \in Nat /\ Len(raw) \in Nat /\ Off \in Nat /\ Off + Len(raw) = Len(got)
         /\ \A k \in 1..Len(got) : got[k] \in Bytes /\ got[k] \in Nat
         /\ \A k \in (Off + 1)..Len(got) : got[k] = raw[k - Off] /\ k - Off \in 1..Len(raw)
<1>1. /\ Len(got) \in Nat /\ Len(raw) \in Nat /\ Len(raw) <= Len(got)
      /\ \A k \in 1..Len(raw) : raw[k] = got[Off + k]
  BY RxNumbers DEF Framing, Partial
<1>2. Off \in Nat /\ Off + Len(raw) = Len(got)
  BY <1>1 DEF Off
<1>3. ASSUME NEW k \in 1..Len(got) PROVE got[k] \in Bytes /\ got[k] \in Nat
  <2>1. got[k] \in Bytes
    BY ElementOfSeq DEF Recv
  <2> QED
    BY <2>1, Sizes DEF Bytes
<1>4. ASSUME NEW k \in (Off + 1)..Len(got) PROVE got[k] = raw[k - Off] /\ k - Off \in 1..Len(raw)
  <2>1. k - Off \in 1..Len(raw) /\ Off + (k - Off) = k
    BY <1>1, <1>2
  <2> QED
    BY <2>1, <1>1
<1> QED
  BY <1>1, <1>2, <1>3, <1>4

\* Nothing is read, parsed or cut
LEMMA FramingSame ==
  ASSUME Framing, UNCHANGED <<raw, got, cut, frames>>,
         At("parse")' <=> At("parse"),
         main'.pc \in {"idle", "put", "putting", "kick"} => raw = <<>>
  PROVE  Framing'
<1>1. Off' = Off /\ \A i, j : Intact(i, j)' <=> Intact(i, j)
  BY DEF Off, Intact, FrameAt
<1>2. Partial'
  BY <1>1 DEF Framing, Partial
<1>3. Passed'
  BY <1>1 DEF Framing, Passed
<1> QED
  BY <1>2, <1>3 DEF Framing

LEMMA GetThenFraming ==
  ASSUME Recv, main \in MainType, Framing, GetThen PROVE Framing'
<1>1. PICK b \in Bytes :
        /\ b = rx.start[Len(got) % Limit]
        /\ raw' = Append(raw, b) /\ got' = Append(got, b)
        /\ raw' \in Seq(Bytes) /\ got' \in Seq(Bytes)
        /\ Len(got') = Len(got) + 1 /\ got'[Len(got) + 1] = b
        /\ \A k \in 1..Len(got) : got'[k] = got[k]
        /\ Len(raw') = Len(raw) + 1 /\ raw'[Len(raw) + 1] = b
        /\ \A k \in 1..Len(raw) : raw'[k] = raw[k]
        /\ main.pc = "getting" /\ main'.pc = IF b \in Ends THEN "parse" ELSE "poll"
  BY GotOne, Zenon
<1>2. /\ Len(got) \in Nat /\ Len(raw) \in Nat /\ Off \in Nat /\ Off + Len(raw) = Len(got)
  BY OffNumbers
<1>3. UNCHANGED <<frames, cut>>
  BY DEF GetThen
<1>4. Off' = Off /\ ~At("parse") /\ (At("parse")' <=> b \in Ends)
  BY <1>1, <1>2 DEF Off, At
<1>5. Partial /\ Passed
  BY DEF Framing
<1>6. ASSUME NEW k \in 1..Len(raw') PROVE k \in 1..Len(raw) \/ k = Len(raw) + 1
  BY <1>1, <1>2
<1>7. ASSUME NEW k \in 1..Len(raw') PROVE raw'[k] = got'[Off + k]
  <2>1. CASE k \in 1..Len(raw)
    <3>1. Off + k \in 1..Len(got)
      BY <2>1, <1>2
    <3> QED
      BY <2>1, <3>1, <1>1, <1>5 DEF Partial
  <2>2. CASE k = Len(raw) + 1
    <3>1. Off + k = Len(got) + 1
      BY <2>2, <1>2
    <3> QED
      BY <2>2, <3>1, <1>1
  <2> QED
    BY <2>1, <2>2, <1>6
<1>8. ASSUME NEW k \in 1..Len(raw'), raw'[k] \in Ends PROVE k = Len(raw') /\ At("parse")'
  <2>1. k \notin 1..Len(raw)
    BY <1>1, <1>4, <1>5, <1>8 DEF Partial
  <2> QED
    BY <2>1, <1>1, <1>4, <1>6, <1>8
<1>9. Off' # 0 => Off' \in cut' \/ got'[Off'] \in Ends
  <2>1. Off # 0 => Off \in 1..Len(got)
    BY <1>2
  <2> QED
    BY <2>1, <1>1, <1>3, <1>4, <1>5 DEF Partial
<1>10. At("parse")' => raw' # <<>> /\ raw'[Len(raw')] \in Ends
  <2>1. Len(raw') # 0
    BY <1>1, <1>2
  <2> QED
    BY <2>1, <1>1, <1>4
<1>11. Partial'
  BY <1>1, <1>3, <1>4, <1>5, <1>7, <1>8, <1>9, <1>10 DEF Partial
<1>12. ASSUME NEW j \in 1..Len(got'), NEW i \in 1..j,
              j < Len(got') \/ ~At("parse")', Intact(i, j)'
       PROVE  got'[j] \in frames'
  <2>1. FrameAt(got'[i], got'[j])
    BY <1>12 DEF Intact, FrameAt
  <2>2. j \in 1..Len(got) /\ i \in 1..Len(got)
    <3>1. CASE j = Len(got) + 1
      BY <2>1, <3>1, <1>1, <1>2, <1>4, <1>12 DEF FrameAt
    <3> QED
      BY <3>1, <1>1, <1>2
  <2>3. got'[j] = got[j] /\ got'[i] = got[i] /\ (i # 1 => got'[i - 1] = got[i - 1])
    <3>1. i # 1 => i - 1 \in 1..Len(got)
      BY <2>2
    <3> QED
      BY <2>2, <3>1, <1>1
  <2>4. \A k \in i..j : k \in 1..Len(got) /\ got'[k] = got[k]
    BY <2>2, <1>1, <1>2
  <2>5. Intact(i, j)
    <3>1. /\ \A k \in i..j : got'[k] = got'[i] + k - i
          /\ i = 1 \/ got'[i - 1] \in Ends \/ i - 1 \in cut'
          /\ i..j \cap cut' = {}
      BY <1>12 DEF Intact
    <3>2. \A k \in i..j : got[k] = got[i] + k - i
      BY <3>1, <2>3, <2>4
    <3> QED
      BY <3>1, <3>2, <2>1, <2>3, <1>3 DEF Intact
  <2> QED
    BY <2>2, <2>3, <2>5, <1>3, <1>4, <1>5 DEF Passed
<1>13. Passed'
  BY <1>12 DEF Passed
<1> QED
  BY <1>11, <1>13 DEF Framing

\* What a timeout drops belongs to no frame that was read whole
LEMMA ReadTimeoutFraming ==
  ASSUME Recv, main \in MainType, Framing, ReadTimeout PROVE Framing'
<1>1. /\ main.pc = "check" /\ main'.pc = "idle" /\ raw' = <<>> /\ UNCHANGED <<got, frames>>
      /\ cut' = cut \cup (Len(got) - Len(raw) + 1)..Len(got)
  BY DEF ReadTimeout, At, Goto, MainType
<1>2. /\ Len(got) \in Nat /\ Len(raw) \in Nat /\ Off \in Nat /\ Off + Len(raw) = Len(got)
      /\ Len(got) - Len(raw) + 1 = Off + 1
  BY OffNumbers DEF Off
<1>3. Off' = Len(got) /\ cut' = cut \cup (Off + 1)..Len(got)
  BY <1>1, <1>2 DEF Off
<1>4. Partial /\ Passed /\ ~At("parse") /\ ~At("parse")'
  BY <1>1 DEF Framing, At
<1>5. Off' # 0 => Off' \in cut' \/ got'[Off'] \in Ends
  <2>1. CASE Len(raw) = 0
    BY <2>1, <1>1, <1>2, <1>3, <1>4 DEF Partial
  <2>2. CASE Len(raw) > 0
    BY <2>2, <1>2, <1>3
  <2> QED
    BY <2>1, <2>2, <1>2
<1>6. cut' \subseteq 1..Off'
  <2> SUFFICES ASSUME NEW x \in cut' PROVE x \in 1..Len(got)
    BY <1>3
  <2>1. x \in 1..Off \/ x \in (Off + 1)..Len(got)
    BY <1>3, <1>4 DEF Partial
  <2> QED
    BY <2>1, <1>2
<1>7. Partial'
  BY <1>1, <1>4, <1>5, <1>6 DEF Partial
<1>8. ASSUME NEW j \in 1..Len(got), NEW i \in 1..j, Intact(i, j)' PROVE Intact(i, j)
  <2>1. /\ FrameAt(got[i], got[j]) /\ \A k \in i..j : got[k] = got[i] + k - i
        /\ i = 1 \/ got[i - 1] \in Ends \/ i - 1 \in cut'
        /\ i..j \cap cut' = {}
    BY <1>1, <1>8 DEF Intact, FrameAt
  <2>2. j \notin (Off + 1)..Len(got)
    BY <2>1, <1>3
  <2>3. i - 1 \notin (Off + 1)..Len(got)
    BY <2>2, <1>2
  <2> QED
    BY <2>1, <2>3, <1>3 DEF Intact
<1>9. Passed'
  BY <1>1, <1>4, <1>8 DEF Passed
<1> QED
  BY <1>7, <1>9 DEF Framing

\* A marker has been read.  If the bytes since the one before it, or since a
\* timeout, are a frame and none was cut, raw consists of them.
LEMMA ParseAccepts ==
  ASSUME Recv, Framing, At("parse"), NEW i \in 1..Len(got), Intact(i, Len(got))
  PROVE  Deserializes(raw) /\ raw[Len(raw)] = got[Len(got)]
<1> DEFINE n == Len(got)
<1>1. /\ n \in Nat /\ Len(raw) \in Nat /\ Off \in Nat /\ Off + Len(raw) = n
      /\ \A k \in 1..n : got[k] \in Bytes /\ got[k] \in Nat
      /\ \A k \in (Off + 1)..n : got[k] = raw[k - Off] /\ k - Off \in 1..Len(raw)
  BY OffNumbers
<1>2. /\ FrameAt(got[i], got[n]) /\ \A k \in i..n : got[k] = got[i] + k - i
      /\ i = 1 \/ got[i - 1] \in Ends \/ i - 1 \in cut
      /\ i..n \cap cut = {}
  BY DEF Intact
<1>3. Partial /\ raw # <<>> /\ raw \in Seq(Bytes) /\ Len(raw) >= 1
  <2>1. Partial /\ raw # <<>> /\ raw \in Seq(Bytes)
    BY DEF Framing, Partial, Recv
  <2>2. Len(raw) # 0
    BY <2>1, EmptySeq
  <2> QED
    BY <2>1, <2>2, <1>1
<1> HIDE DEF n
<1>4. i \in Nat /\ i >= 1 /\ i <= n
  BY <1>1 DEF n
<1>5. ~(Off < i - 1)
  <2> SUFFICES ASSUME Off < i - 1 PROVE FALSE
    OBVIOUS
  <2>1. i # 1 /\ i - 1 \in (Off + 1)..n /\ i - 1 < n
    BY <1>1, <1>4
  <2>2. got[i - 1] = raw[(i - 1) - Off] /\ (i - 1) - Off \in 1..Len(raw)
    BY <2>1, <1>1
  <2>3. got[i - 1] \notin Ends
    <3>1. (i - 1) - Off # Len(raw)
      BY <2>1, <1>1, <1>4
    <3> QED
      BY <2>2, <3>1, <1>3 DEF Partial
  <2>4. i - 1 \notin cut
    BY <2>1, <1>1, <1>3 DEF Partial
  <2> QED
    BY <2>1, <2>3, <2>4, <1>2
<1>6. ~(Off >= i)
  <2> SUFFICES ASSUME Off >= i PROVE FALSE
    OBVIOUS
  <2>1. Off \in i..n /\ Off # 0 /\ Off < n /\ n \in i..n /\ Off \in 1..n /\ i \in 1..n
    BY <1>1, <1>3, <1>4
  <2>2. Off \notin cut
    BY <2>1, <1>2
  <2>3. got[Off] \in Ends
    BY <2>1, <2>2, <1>3 DEF Partial
  <2>4. got[Off] = got[i] + Off - i /\ got[n] = got[i] + n - i /\ got[i] \in Nat
    BY <2>1, <1>1, <1>2
  <2>5. got[Off] < got[n] /\ got[Off] >= got[i] /\ got[Off] \in Nat
    <3>1. Off \in Nat /\ n \in Nat /\ i \in Nat /\ Off >= i /\ Off < n
      BY <2>1, <1>1, <1>4
    <3> QED
      BY <3>1, <2>4
  <2>6. got[Off] < got[i]
    BY <2>3, <2>5, <1>2 DEF FrameAt
  <2> QED
    BY <2>4, <2>5, <2>6
<1>7. Off = i - 1
  BY <1>1, <1>4, <1>5, <1>6
<1>8. ASSUME NEW k \in 1..Len(raw) PROVE raw[k] = got[i] + k - 1
  <2>1. /\ Off + k \in i..n /\ Off + k \in (Off + 1)..n /\ (Off + k) - Off = k
        /\ (Off + k) - i = k - 1
    BY <1>1, <1>4, <1>7
  <2>2. got[Off + k] = got[i] + (Off + k) - i
    BY <2>1, <1>2
  <2>3. got[Off + k] = raw[k]
    BY <2>1, <1>1
  <2>4. got[i] \in Nat
    BY <1>1, <1>4
  <2> QED
    BY <2>1, <2>2, <2>3, <2>4, <1>1, <1>7
<1>9. raw[1] = got[i] /\ raw[Len(raw)] = got[n]
  <2>1. 1 \in 1..Len(raw) /\ Len(raw) \in 1..Len(raw) /\ got[i] \in Nat /\ n \in i..n
    BY <1>1, <1>3, <1>4
  <2>2. raw[1] = got[i] + 1 - 1 /\ raw[Len(raw)] = got[i] + Len(raw) - 1
    BY <2>1, <1>8
  <2>3. got[n] = got[i] + n - i
    BY <2>1, <1>2
  <2> QED
    BY <2>1, <2>2, <2>3, <1>1, <1>4, <1>7
<1> QED
  BY <1>2, <1>3, <1>8, <1>9 DEF Deserializes, n

LEMMA ParseFraming == ASSUME Recv, main \in MainType, Framing, Parse PROVE Framing'
<1>1. /\ At("parse") /\ ~At("parse")' /\ raw' = <<>> /\ UNCHANGED <<got, cut>>
      /\ frames' = IF Deserializes(raw) THEN frames \cup {raw[Len(raw)]} ELSE frames
  BY DEF Parse, At, Goto, MainType
<1>2. /\ Len(got) \in Nat /\ Len(raw) \in Nat /\ Off \in Nat /\ Off + Len(raw) = Len(got)
      /\ \A k \in (Off + 1)..Len(got) : got[k] = raw[k - Off]
  BY OffNumbers
<1>3. Partial /\ Passed /\ raw # <<>> /\ raw[Len(raw)] \in Ends /\ raw \in Seq(Bytes)
  BY <1>1 DEF Framing, Partial, Recv
<1>4. Off' = Len(got)
  BY <1>1, <1>2 DEF Off
<1>5. got[Len(got)] \in Ends
  <2>1. Len(raw) # 0
    BY <1>3, EmptySeq
  <2>2. Len(got) \in (Off + 1)..Len(got) /\ Len(got) - Off = Len(raw)
    BY <2>1, <1>2
  <2> QED
    BY <2>2, <1>2, <1>3
<1>6. cut' \subseteq 1..Off'
  BY <1>1, <1>2, <1>3, <1>4 DEF Partial
<1>7. Partial'
  BY <1>1, <1>4, <1>5, <1>6 DEF Partial
<1>8. ASSUME NEW j \in 1..Len(got), NEW i \in 1..j, Intact(i, j)' PROVE got[j] \in frames'
  <2>1. Intact(i, j)
    BY <1>1, <1>8 DEF Intact, FrameAt
  <2>2. CASE j = Len(got)
    <3>1. i \in 1..Len(got)
      BY <2>2
    <3> QED
      BY <2>1, <2>2, <3>1, <1>1, ParseAccepts
  <2>3. CASE j < Len(got)
    BY <2>1, <2>3, <1>1, <1>3 DEF Passed
  <2> QED
    BY <2>2, <2>3, <1>2
<1>9. Passed'
  BY <1>1, <1>8 DEF Passed
<1> QED
  BY <1>7, <1>9 DEF Framing

LEMMA NextFraming == ASSUME Recv, main \in MainType, Framing, [Next]_vars PROVE Framing'
<1>0. main.pc \in {"idle", "put", "putting", "kick"} => raw = <<>>
  BY DEF Framing, Partial
<1>1. CASE \/ UNCHANGED vars \/ TxDone
           \/ \E n \in 1..MaxChunk : Rxd(n)
  <2>1. UNCHANGED <<raw, got, cut, frames, main>>
    BY <1>1 DEF vars, rxVars, TxDone, Rxd
  <2> QED
    BY <2>1, <1>0, FramingSame DEF At
<1>2. CASE \/ \E n \in 1..MaxChunk : Write(n)
           \/ SendStep \/ ReadCall \/ InTime \/ NoneAvailable \/ GetFirst
  <2>1. /\ raw' \in {raw, <<>>} /\ UNCHANGED <<got, cut, frames>>
        /\ ~At("parse") /\ ~At("parse")'
        /\ main'.pc \in {"idle", "put", "putting", "kick"} => raw = <<>>
        /\ raw' # raw => raw = <<>>
    BY <1>0, <1>2 DEF Write, SendStep, PutFirst, PutThen, Kick, ReadCall, InTime, NoneAvailable,
      GetFirst, rxVars, At, Goto, MainType
  <2> QED
    BY <2>1, FramingSame
<1> QED
  BY <1>1, <1>2, GetThenFraming, ParseFraming, ReadTimeoutFraming DEF Next, ReadStep

\* After whatever the buffer refused, whichever bytes were spoilt and however reads
\* time out, a frame whose bytes were all read, after a marker or a timeout, is
\* passed on, in whichever order the build stores.
THEOREM FramesPassedOn == Spec => []IntactFramesPassedOn
<1>1. Framing => IntactFramesPassedOn
  BY DEF Framing, Passed, IntactFramesPassedOn
<1>2. IInv /\ Framing /\ [Next]_vars => Framing'
  BY NextFraming DEF IInv, SendInv, Writing
<1> QED
  BY <1>1, <1>2, InitFraming, Invariant, PTL DEF Spec
=============================================================================
