-------------------------------- MODULE Pipe --------------------------------
(***************************************************************************)
(* What a serial line's buffer promises: the bytes it took in come out in  *)
(* their order, none is lost on the way, doubled or changed.  Bytes may be *)
(* refused, and then are never taken in.                                   *)
(***************************************************************************)
EXTENDS Naturals, Sequences

VARIABLES taken, given

Init == taken = <<>> /\ given = <<>>

IsPrefix(s, t) == Len(s) <= Len(t) /\ s = SubSeq(t, 1, Len(s))

Take == Len(taken') > Len(taken) /\ IsPrefix(taken, taken') /\ given' = given
Give == Len(given') > Len(given) /\ IsPrefix(given, given') /\ IsPrefix(given', taken)
        /\ taken' = taken

Next == Take \/ Give

Spec == Init /\ [][Next]_<<taken, given>>
=============================================================================
