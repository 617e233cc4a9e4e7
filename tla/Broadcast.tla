----------------------------- MODULE Broadcast -----------------------------
(***************************************************************************)
(* What the event bus promises the actors: the accepted envelopes form one *)
(* log, and every actor sees that log, in order, one envelope at a time.   *)
(***************************************************************************)
EXTENDS Naturals, Sequences

CONSTANTS Actors, Envelopes

VARIABLES
  log,   \* accepted envelopes, oldest first
  seen   \* what each actor was given

vars == <<log, seen>>

Init == log = <<>> /\ seen = [a \in Actors |-> <<>>]

\* An envelope is accepted at most once
Publish(e) ==
  /\ \A i \in 1..Len(log) : log[i] # e
  /\ log' = Append(log, e)
  /\ UNCHANGED seen

Deliver(a) ==
  /\ Len(seen[a]) < Len(log)
  /\ seen' = [seen EXCEPT ![a] = Append(@, log[Len(@) + 1])]
  /\ UNCHANGED log

Next == (\E e \in Envelopes : Publish(e)) \/ \E a \in Actors : Deliver(a)

Spec == Init /\ [][Next]_vars
=============================================================================
