------------------------------ MODULE CircBuf ------------------------------
(***************************************************************************)
(* The circular buffer between an interrupt handler and the main loop.     *)
(* Its operations map one value of the buffer to the next.  A byte goes in *)
(* or out with two accesses to memory, the position and the slot, and      *)
(* start[writePos++ % limit] = b leaves their order to the compiler: an    *)
(* operation that can be interrupted consists of a First and a Then half.  *)
(***************************************************************************)
EXTENDS Integers, Sequences

CONSTANTS
  Limit,          \* size of the buffer, 256 in the code
  PositionsAfter  \* whether the build updates positions after the operation

ASSUME CircBufAssumption == Limit \in Nat \ {0} /\ PositionsAfter \in BOOLEAN

\* Positions are 64 bits wide and never wrap
NewCircBuf == [start |-> [i \in 0..(Limit - 1) |-> 0], readPos |-> 0, writePos |-> 0]

Size(c)  == c.writePos - c.readPos
Space(c) == Limit - Size(c)

WriteFirst(c, b) ==
  IF PositionsAfter THEN [c EXCEPT !.start[c.writePos % Limit] = b]
                    ELSE [c EXCEPT !.writePos = @ + 1]
WriteThen(c, b) ==
  IF PositionsAfter THEN [c EXCEPT !.writePos = @ + 1]
                    ELSE [c EXCEPT !.start[(c.writePos - 1) % Limit] = b]

\* The slot that a read in progress looks at, after ReadFirst
ReadFirst(c) == IF PositionsAfter THEN c ELSE [c EXCEPT !.readPos = @ + 1]
ReadThen(c)  == IF PositionsAfter THEN [c EXCEPT !.readPos = @ + 1] ELSE c
ReadValue(c) == c.start[(IF PositionsAfter THEN c.readPos ELSE c.readPos - 1) % Limit]

\* What an interrupt handler does, which nothing interrupts
WriteAll(c, bytes) ==
  [c EXCEPT !.start = [i \in 0..(Limit - 1) |->
                         LET k == ((i - c.writePos) % Limit) + 1
                         IN IF k <= Len(bytes) THEN bytes[k] ELSE c.start[i]],
            !.writePos = @ + Len(bytes)]
Contents(c) == [k \in 1..Size(c) |-> c.start[(c.readPos + k - 1) % Limit]]
ReadAll(c, n) == [c EXCEPT !.readPos = @ + n]
=============================================================================
