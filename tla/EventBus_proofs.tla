-------------------------- MODULE EventBus_proofs --------------------------
(***************************************************************************)
(* Proofs about EventBus for any number of actors and tasks, any queue     *)
(* depth and any number of envelopes: type correctness, the order in which *)
(* actors see the envelopes, that the bus implements Broadcast, and that   *)
(* every envelope has one owner.                                           *)
(*                                                                         *)
(* The queue, the loop and the actors are three views of one log.  The     *)
(* queue holds its last entries; the entry before those is being           *)
(* dispatched; and what an actor has seen is the prefix before that, with  *)
(* the entry itself once the loop has been through the actor.  On the side *)
(* of the producers, an envelope that waits is the last its producer made, *)
(* so it follows everything of that producer in the log.                   *)
(***************************************************************************)
EXTENDS EventBus, SequenceTheorems, FiniteSetTheorems, TLAPS

\* The producers' side
Waiters ==
  \A p \in Producers : waiting[p] # NoEnv => waiting[p] = [src |-> p, n |-> made[p]]

Made ==
  \A i \in 1..Len(log) :
    /\ log[i].n <= made[log[i].src]
    /\ waiting[log[i].src] # NoEnv => log[i].n < made[log[i].src]

Ordered ==
  \A i, j \in 1..Len(log) : i < j /\ log[i].src = log[j].src => log[i].n < log[j].n

Pushed == Waiters /\ Made /\ Ordered

\* The loop's side
Taken == Len(log) - Len(queue)

Queued ==
  /\ Len(queue) <= Len(log)
  /\ \A i \in 1..Len(queue) : queue[i] = log[Taken + i]

Dispatching ==
  /\ pc = "receive" => actor = 1 /\ ~inside
  /\ pc = "dispatch" => Taken >= 1 /\ current \in Envelopes /\ current = log[Taken]

Reached(a) == pc = "dispatch" => a < actor \/ (a = actor /\ inside)

SeenPrefix ==
  \A a \in Actors :
    /\ Len(seen[a]) = IF Reached(a) THEN Taken ELSE Taken - 1
    /\ \A i \in 1..Len(seen[a]) : seen[a][i] = log[i]

IInv == TypeOK /\ Pushed /\ Queued /\ Dispatching /\ SeenPrefix

(***************************************************************************)
(* Facts                                                                   *)
(***************************************************************************)
LEMMA Constants ==
  /\ NoEnv \notin Envelopes
  /\ N \in Nat /\ N >= 1 /\ Cap \in Nat /\ MaxSent \in Nat
  /\ \A p \in Producers, n \in 1..MaxSent : [src |-> p, n |-> n] \in Envelopes
  /\ \A e \in Envelopes : e.src \in Producers /\ e.n \in 1..MaxSent
BY EventBusAssumption DEF NoEnv, Envelopes, Producers

LEMMA InitIInv == Init => IInv
<1> SUFFICES ASSUME Init PROVE IInv
  OBVIOUS
<1>1. TypeOK
  <2>1. <<>> \in Seq(Envelopes) /\ Len(<<>>) = 0
    OBVIOUS
  <2>2. seen \in [Actors -> Seq(Envelopes)]
    BY <2>1 DEF Init
  <2>3. queue \in Seq(Envelopes) /\ Len(queue) <= Cap /\ log \in Seq(Envelopes)
    BY <2>1, Constants DEF Init
  <2>4. made \in [Producers -> 0..MaxSent] /\ actor \in Actors
    BY Constants DEF Init, Actors
  <2> QED
    BY <2>2, <2>3, <2>4 DEF Init, TypeOK
<1>2. Pushed
  BY DEF Init, Pushed, Waiters, Made, Ordered
<1>3. Queued /\ Dispatching /\ SeenPrefix
  BY DEF Init, Queued, Dispatching, SeenPrefix, Taken, Reached
<1> QED
  BY <1>1, <1>2, <1>3 DEF IInv

\* A step that leaves the log, the queue and the producers alone
LEMMA SamePushed ==
  ASSUME Pushed, UNCHANGED <<log, made, waiting>>
  PROVE  Pushed'
BY DEF Pushed, Waiters, Made, Ordered

(***************************************************************************)
(* EventBus::push                                                          *)
(***************************************************************************)
LEMMA Enqueued ==
  ASSUME TypeOK, Queued, Room, NEW e \in Envelopes, Enqueue(e)
  PROVE  /\ log' \in Seq(Envelopes) /\ Len(log') = Len(log) + 1
         /\ \A i \in 1..Len(log) : log'[i] = log[i]
         /\ log'[Len(log) + 1] = e
         /\ queue' \in Seq(Envelopes) /\ Len(queue') = Len(queue) + 1
         /\ Len(queue') <= Cap
         /\ Taken' = Taken /\ Taken \in Nat /\ Taken <= Len(log)
         /\ Queued'
<1>1. log \in Seq(Envelopes) /\ queue \in Seq(Envelopes)
  BY DEF TypeOK
<1>2. Len(log) \in Nat /\ Len(queue) \in Nat
  BY <1>1, LenProperties
<1>3. /\ log' \in Seq(Envelopes) /\ Len(log') = Len(log) + 1
      /\ \A i \in 1..Len(log) : log'[i] = log[i]
      /\ log'[Len(log) + 1] = e
  BY <1>1, AppendProperties DEF Enqueue
<1>4. /\ queue' \in Seq(Envelopes) /\ Len(queue') = Len(queue) + 1
      /\ \A i \in 1..Len(queue) : queue'[i] = queue[i]
      /\ queue'[Len(queue) + 1] = e
  BY <1>1, AppendProperties DEF Enqueue
<1>5. Taken' = Taken /\ Taken \in Nat /\ Taken <= Len(log)
  BY <1>2, <1>3, <1>4 DEF Taken, Queued
<1>6. Queued'
  <2>1. Len(queue') <= Len(log')
    BY <1>2, <1>3, <1>4 DEF Queued
  <2>2. ASSUME NEW i \in 1..Len(queue') PROVE queue'[i] = log'[Taken' + i]
    <3>1. CASE i = Len(queue) + 1
      BY <3>1, <1>2, <1>3, <1>4, <1>5 DEF Taken
    <3>2. CASE i \in 1..Len(queue)
      <4>1. Taken + i \in 1..Len(log)
        BY <3>2, <1>2, <1>5 DEF Taken
      <4> QED
        BY <3>2, <4>1, <1>3, <1>4, <1>5 DEF Queued
    <3> QED
      BY <3>1, <3>2, <1>2, <1>4
  <2> QED
    BY <2>1, <2>2 DEF Queued
<1>7. Len(queue') <= Cap
  BY <1>2, <1>4, Constants DEF Room
<1> QED
  BY <1>3, <1>4, <1>5, <1>6, <1>7

\* A longer log and an unchanged loop
LEMMA LoopUnmoved ==
  ASSUME IInv, Room, NEW e \in Envelopes, Enqueue(e), UNCHANGED loopVars
  PROVE  Queued' /\ Dispatching' /\ SeenPrefix'
<1> USE DEF IInv, loopVars
<1>1. /\ Queued' /\ Taken' = Taken /\ Taken \in Nat /\ Taken <= Len(log)
      /\ Len(log') = Len(log) + 1
      /\ \A i \in 1..Len(log) : log'[i] = log[i]
  BY Enqueued
<1>2. Len(log) \in Nat
  BY LenProperties DEF TypeOK
<1>3. Dispatching'
  BY <1>1, <1>2 DEF Dispatching
<1>4. SeenPrefix'
  <2> SUFFICES ASSUME NEW a \in Actors
               PROVE  /\ Len(seen'[a]) = IF Reached(a)' THEN Taken' ELSE Taken' - 1
                      /\ \A i \in 1..Len(seen'[a]) : seen'[a][i] = log'[i]
    BY DEF SeenPrefix
  <2>1. Reached(a)' <=> Reached(a)
    BY DEF Reached
  <2>2. Len(seen[a]) = IF Reached(a) THEN Taken ELSE Taken - 1
    BY DEF SeenPrefix
  <2>3. \A i \in 1..Len(seen[a]) : i \in 1..Len(log)
    BY <2>2, <1>1, <1>2
  <2> QED
    BY <2>1, <2>2, <2>3, <1>1 DEF SeenPrefix
<1> QED
  BY <1>1, <1>3, <1>4

\* What a push adds to the log is later than everything of its producer
LEMMA LaterPushed ==
  ASSUME IInv, NEW p \in Producers, NEW e \in Envelopes, Room, Enqueue(e),
         e.src = p,
         \A i \in 1..Len(log) : log[i].src = p => log[i].n < e.n,
         made' \in [Producers -> 0..MaxSent], made'[p] = e.n,
         \A q \in Producers \ {p} : made'[q] = made[q],
         waiting'[p] = NoEnv,
         \A q \in Producers \ {p} : waiting'[q] = waiting[q]
  PROVE  Pushed'
<1> USE DEF IInv
<1>1. /\ log' \in Seq(Envelopes) /\ Len(log') = Len(log) + 1
      /\ \A i \in 1..Len(log) : log'[i] = log[i]
      /\ log'[Len(log) + 1] = e
  BY Enqueued
<1>2. Len(log) \in Nat /\ \A i \in 1..Len(log) : log[i] \in Envelopes
  BY LenProperties, ElementOfSeq DEF TypeOK
<1>3. Waiters'
  BY DEF Pushed, Waiters
<1>4. Made'
  <2> SUFFICES ASSUME NEW i \in 1..Len(log')
               PROVE  /\ log'[i].n <= made'[log'[i].src]
                      /\ waiting'[log'[i].src] # NoEnv => log'[i].n < made'[log'[i].src]
    BY DEF Made
  <2>1. CASE i = Len(log) + 1
    BY <2>1, <1>1, Constants
  <2>2. CASE i \in 1..Len(log)
    <3>1. log'[i] = log[i] /\ log[i] \in Envelopes
      BY <2>2, <1>1, <1>2
    <3>2. log[i].src \in Producers /\ log[i].n \in Nat /\ e.n \in Nat
      BY <3>1, Constants
    <3>3. CASE log[i].src = p
      BY <3>1, <3>2, <3>3, <2>2
    <3>4. CASE log[i].src # p
      BY <3>1, <3>2, <3>4, <2>2 DEF Pushed, Made
    <3> QED
      BY <3>3, <3>4
  <2> QED
    BY <2>1, <2>2, <1>1, <1>2
<1>5. Ordered'
  <2> SUFFICES ASSUME NEW i \in 1..Len(log'), NEW j \in 1..Len(log'),
                      i < j, log'[i].src = log'[j].src
               PROVE  log'[i].n < log'[j].n
    BY DEF Ordered
  <2>1. i \in 1..Len(log) /\ log'[i] = log[i]
    BY <1>1, <1>2
  <2>2. CASE j = Len(log) + 1
    BY <2>1, <2>2, <1>1
  <2>3. CASE j \in 1..Len(log)
    BY <2>1, <2>3, <1>1 DEF Pushed, Ordered
  <2> QED
    BY <2>2, <2>3, <1>1, <1>2
<1> QED
  BY <1>3, <1>4, <1>5 DEF Pushed

LEMMA PushBeginIInv ==
  ASSUME IInv, NEW p \in Producers, PushBegin(p)
  PROVE  IInv'
<1> USE DEF IInv
<1> DEFINE e == [src |-> p, n |-> made[p] + 1]
<1>1. /\ waiting[p] = NoEnv /\ made[p] \in Nat /\ made[p] < MaxSent
      /\ e \in Envelopes /\ e.src = p /\ e.n = made[p] + 1
  BY Constants DEF PushBegin, TypeOK
<1>2. /\ made' \in [Producers -> 0..MaxSent] /\ made'[p] = e.n
      /\ \A q \in Producers \ {p} : made'[q] = made[q]
  BY <1>1, Constants DEF PushBegin, TypeOK
<1>3. \A i \in 1..Len(log) : log[i] \in Envelopes
  BY ElementOfSeq DEF TypeOK
<1>4. \A i \in 1..Len(log) : log[i].src = p => log[i].n < e.n
  <2> TAKE i \in 1..Len(log)
  <2>1. log[i].n \in Nat /\ log[i].n <= made[log[i].src]
    BY <1>3, Constants DEF Pushed, Made
  <2> QED
    BY <2>1, <1>1
<1>5. UNCHANGED <<loopVars, freed>>
  BY DEF PushBegin
<1>6. CASE Room
  <2>1. Enqueue(e) /\ waiting' = waiting
    BY <1>6 DEF PushBegin
  <2> HIDE DEF e
  <2>2. Pushed'
    BY <2>1, <1>1, <1>2, <1>4, <1>6, LaterPushed
  <2>3. Queued' /\ Dispatching' /\ SeenPrefix'
    BY <2>1, <1>1, <1>5, <1>6, LoopUnmoved
  <2>4. TypeOK'
    BY <2>1, <1>1, <1>2, <1>5, <1>6, Enqueued DEF TypeOK, loopVars
  <2> QED
    BY <2>2, <2>3, <2>4
<1>7. CASE ~Room
  <2>1. waiting' = [waiting EXCEPT ![p] = e] /\ UNCHANGED <<queue, log>>
    BY <1>7 DEF PushBegin
  <2> HIDE DEF e
  <2>2. TypeOK'
    BY <2>1, <1>1, <1>2, <1>5 DEF TypeOK, loopVars
  <2>3. e = [src |-> p, n |-> made'[p]]
    BY <1>2 DEF e
  <2>4. Waiters'
    BY <2>1, <2>3, <1>1, <1>2 DEF TypeOK, Pushed, Waiters
  <2>5. Made'
    <3> SUFFICES ASSUME NEW i \in 1..Len(log)
                 PROVE  /\ log[i].n <= made'[log[i].src]
                        /\ waiting'[log[i].src] # NoEnv => log[i].n < made'[log[i].src]
      BY <2>1 DEF Made
    <3>1. log[i].src \in Producers /\ log[i].n \in Nat /\ e.n \in Nat
      BY <1>1, <1>3, Constants
    <3>2. CASE log[i].src = p
      BY <3>1, <3>2, <1>2, <1>4
    <3>3. CASE log[i].src # p
      BY <3>1, <3>3, <1>2, <2>1 DEF Pushed, Made, TypeOK
    <3> QED
      BY <3>2, <3>3
  <2>6. Ordered'
    BY <2>1 DEF Pushed, Ordered
  <2>7. Queued' /\ Dispatching' /\ SeenPrefix'
    BY <2>1, <1>5 DEF loopVars, Queued, Dispatching, SeenPrefix, Taken, Reached
  <2> QED
    BY <2>2, <2>4, <2>5, <2>6, <2>7 DEF Pushed
<1> QED
  BY <1>6, <1>7

LEMMA PushResumesIInv ==
  ASSUME IInv, NEW p \in Producers, PushResumes(p)
  PROVE  IInv'
<1> USE DEF IInv
<1>1. PICK e \in Envelopes : e = waiting[p]
  BY DEF PushResumes, TypeOK
<1>2. e = [src |-> p, n |-> made[p]] /\ Room /\ Enqueue(e) /\ waiting[p] # NoEnv
  BY <1>1 DEF PushResumes, Pushed, Waiters
<1>3. /\ made' = made /\ UNCHANGED <<loopVars, freed>>
      /\ waiting' = [waiting EXCEPT ![p] = NoEnv]
  BY DEF PushResumes
<1>4. e.src = p /\ e.n = made[p]
  BY <1>2
<1>5. \A i \in 1..Len(log) : log[i].src = p => log[i].n < e.n
  BY <1>2, <1>4 DEF Pushed, Made
<1>6. /\ made' \in [Producers -> 0..MaxSent] /\ made'[p] = e.n
      /\ \A q \in Producers \ {p} : made'[q] = made[q]
      /\ waiting'[p] = NoEnv
      /\ \A q \in Producers \ {p} : waiting'[q] = waiting[q]
  BY <1>3, <1>4 DEF TypeOK
<1>7. Pushed'
  BY <1>2, <1>4, <1>5, <1>6, LaterPushed
<1>8. Queued' /\ Dispatching' /\ SeenPrefix'
  BY <1>2, <1>3, LoopUnmoved
<1>9. TypeOK'
  BY <1>2, <1>3, Enqueued DEF TypeOK, loopVars
<1> QED
  BY <1>7, <1>8, <1>9

LEMMA PushDropsIInv ==
  ASSUME IInv, NEW p \in Producers, PushDrops(p)
  PROVE  IInv'
<1> USE DEF IInv, PushDrops, loopVars
<1>1. TypeOK'
  BY DEF TypeOK
<1>2. Pushed'
  BY DEF TypeOK, Pushed, Waiters, Made, Ordered
<1>3. Queued' /\ Dispatching' /\ SeenPrefix'
  BY DEF Queued, Dispatching, SeenPrefix, Taken, Reached
<1> QED
  BY <1>1, <1>2, <1>3

(***************************************************************************)
(* EventBus::loop                                                          *)
(***************************************************************************)

LEMMA Advances ==
  ASSUME actor \in Actors, NEW then, NextActor(then)
  PROVE  actor' \in Actors /\ (pc' = pc \/ (pc' = then /\ actor' = 1))
<1>1. N \in Nat /\ N >= 1 /\ actor \in 1..N
  BY Constants DEF Actors
<1>2. CASE actor < N
  BY <1>1, <1>2 DEF NextActor, Actors
<1>3. CASE ~(actor < N)
  BY <1>1, <1>3 DEF NextActor, Actors
<1> QED
  BY <1>2, <1>3

\* Callbacks of on_start and of the timers move the loop but not the log
LEMMA CallbackIInv ==
  ASSUME IInv, StartActor \/ ActorStarted \/ ReceiveTimeout \/ RunTimers \/ TimersRun
  PROVE  IInv'
<1> USE DEF IInv
<1>1. /\ UNCHANGED <<queue, current, waiting, made, freed, log, seen>>
      /\ pc # "dispatch" /\ pc' # "dispatch"
      /\ pc' = "receive" => actor' = 1 /\ ~inside'
      /\ actor' \in Actors /\ inside' \in BOOLEAN /\ started' \subseteq Actors
      /\ pc' \in {"start", "receive", "timers"}
  <2>1. CASE StartActor
    BY <2>1 DEF StartActor, Enter, TypeOK
  <2>2. CASE ActorStarted
    <3>1. pc = "start" /\ inside' = FALSE /\ started' = started \cup {actor}
      BY <2>2 DEF ActorStarted, Leave
    <3>2. actor' \in Actors /\ (pc' = "start" \/ (pc' = "receive" /\ actor' = 1))
      BY <2>2, <3>1, Advances DEF ActorStarted, TypeOK
    <3> QED
      BY <2>2, <3>1, <3>2 DEF ActorStarted, TypeOK
  <2>3. CASE ReceiveTimeout
    BY <2>3 DEF ReceiveTimeout, TypeOK
  <2>4. CASE RunTimers
    BY <2>4 DEF RunTimers, Enter, TypeOK
  <2>5. CASE TimersRun
    <3>1. pc = "timers" /\ inside' = FALSE
      BY <2>5 DEF TimersRun, Leave
    <3>2. actor' \in Actors /\ (pc' = "timers" \/ (pc' = "receive" /\ actor' = 1))
      BY <2>5, <3>1, Advances DEF TimersRun, TypeOK
    <3> QED
      BY <2>5, <3>1, <3>2 DEF TimersRun, TypeOK
  <2> QED
    BY <2>1, <2>2, <2>3, <2>4, <2>5
<1>2. TypeOK'
  BY <1>1 DEF TypeOK
<1>3. Pushed'
  BY <1>1, SamePushed
<1>4. Queued' /\ Dispatching' /\ SeenPrefix'
  BY <1>1 DEF Queued, Dispatching, SeenPrefix, Taken, Reached
<1> QED
  BY <1>2, <1>3, <1>4

\* The head of the queue is the log's next entry
LEMMA ReceiveIInv == IInv /\ Receive => IInv'
<1> SUFFICES ASSUME IInv, Receive PROVE IInv'
  OBVIOUS
<1> USE DEF IInv
<1>1. /\ queue # <<>> /\ queue \in Seq(Envelopes) /\ log \in Seq(Envelopes)
      /\ current' = Head(queue) /\ queue' = Tail(queue)
      /\ pc = "receive" /\ pc' = "dispatch"
      /\ UNCHANGED <<actor, inside, waiting, made, freed, started, log, seen>>
  BY DEF Receive, TypeOK
<1>2. Len(queue) \in Nat /\ Len(log) \in Nat /\ Len(queue) # 0
  BY <1>1, LenProperties, EmptySeq
<1>3. /\ current' \in Envelopes /\ queue' \in Seq(Envelopes)
      /\ Len(queue') = Len(queue) - 1
      /\ \A i \in 1..Len(queue') : queue'[i] = queue[i + 1]
  BY <1>1, HeadTailProperties
<1>4. current' = queue[1]
  BY <1>1
<1>5. Taken \in Nat /\ Taken' = Taken + 1
  BY <1>1, <1>2, <1>3 DEF Taken, Queued
<1>6. TypeOK'
  BY <1>1, <1>2, <1>3, Constants DEF TypeOK
<1>7. Pushed'
  BY <1>1, SamePushed
<1>8. Queued'
  <2>1. Len(queue') <= Len(log')
    BY <1>1, <1>2, <1>3 DEF Queued
  <2>2. ASSUME NEW i \in 1..Len(queue') PROVE queue'[i] = log'[Taken' + i]
    <3>1. i + 1 \in 1..Len(queue) /\ Taken + (i + 1) = Taken' + i
      BY <1>2, <1>3, <1>5
    <3>2. queue[i + 1] = log[Taken + (i + 1)]
      BY <3>1 DEF Queued
    <3> QED
      BY <3>1, <3>2, <1>1, <1>3
  <2> QED
    BY <2>1, <2>2 DEF Queued
<1>9. Dispatching'
  <2>1. queue[1] = log[Taken + 1]
    BY <1>2 DEF Queued
  <2> QED
    BY <2>1, <1>1, <1>3, <1>4, <1>5 DEF Dispatching
<1>10. SeenPrefix'
  <2>1. actor = 1 /\ ~inside
    BY <1>1 DEF Dispatching
  <2>2. ASSUME NEW a \in Actors PROVE Reached(a) /\ ~Reached(a)'
    BY <2>1, <1>1, Constants DEF Reached, Actors
  <2> QED
    BY <2>2, <1>1, <1>5 DEF SeenPrefix
<1> QED
  BY <1>6, <1>7, <1>8, <1>9, <1>10

\* One actor is given the entry after those it has seen
LEMMA Given ==
  ASSUME IInv, OnMessage
  PROVE  /\ actor \in Actors /\ current \in Envelopes
         /\ seen[actor] \in Seq(Envelopes)
         /\ Len(seen[actor]) = Taken - 1 /\ Taken \in 1..Len(log)
         /\ seen' = [seen EXCEPT ![actor] = Append(@, log[Len(seen[actor]) + 1])]
         /\ current = log[Taken]
<1> USE DEF IInv
<1>1. pc = "dispatch" /\ ~inside /\ actor \in Actors
  BY DEF OnMessage, Enter, TypeOK
<1>2. current \in Envelopes /\ current = log[Taken] /\ Taken >= 1
  BY <1>1 DEF Dispatching
<1>3. Len(queue) \in Nat /\ Len(log) \in Nat
  BY LenProperties DEF TypeOK
<1>4. Taken \in 1..Len(log)
  BY <1>2, <1>3 DEF Taken, Queued
<1>5. ~Reached(actor)
  BY <1>1, Constants DEF Reached, Actors
<1>6. Len(seen[actor]) = Taken - 1 /\ seen[actor] \in Seq(Envelopes)
  BY <1>1, <1>5 DEF SeenPrefix, TypeOK
<1>7. Len(seen[actor]) + 1 = Taken
  BY <1>4, <1>6, <1>3
<1> QED
  BY <1>1, <1>2, <1>4, <1>6, <1>7 DEF OnMessage

LEMMA OnMessageIInv == IInv /\ OnMessage => IInv'
<1> SUFFICES ASSUME IInv, OnMessage PROVE IInv'
  OBVIOUS
<1> USE DEF IInv
<1>1. /\ actor \in Actors /\ current \in Envelopes
      /\ seen[actor] \in Seq(Envelopes)
      /\ Len(seen[actor]) = Taken - 1 /\ Taken \in 1..Len(log)
      /\ current = log[Taken]
  BY Given
<1>2. /\ pc = "dispatch" /\ ~inside /\ inside' = TRUE
      /\ seen' = [seen EXCEPT ![actor] = Append(@, current)]
      /\ UNCHANGED <<queue, pc, actor, current, waiting, made, freed, started, log>>
  BY DEF OnMessage, Enter
<1>3. /\ Append(seen[actor], current) \in Seq(Envelopes)
      /\ Len(Append(seen[actor], current)) = Len(seen[actor]) + 1
      /\ \A i \in 1..Len(seen[actor]) : Append(seen[actor], current)[i] = seen[actor][i]
      /\ Append(seen[actor], current)[Len(seen[actor]) + 1] = current
  BY <1>1, AppendProperties
<1>4. seen \in [Actors -> Seq(Envelopes)]
  BY DEF TypeOK
<1>5. /\ seen'[actor] = Append(seen[actor], current)
      /\ \A a \in Actors \ {actor} : seen'[a] = seen[a]
  BY <1>1, <1>2, <1>4
<1>6. TypeOK'
  <2>1. seen' \in [Actors -> Seq(Envelopes)]
    BY <1>1, <1>2, <1>3, <1>4
  <2> QED
    BY <2>1, <1>2 DEF TypeOK
<1>7. Pushed'
  BY <1>2, SamePushed
<1>8. Queued' /\ Dispatching' /\ Taken' = Taken
  BY <1>2 DEF Queued, Dispatching, Taken
<1>9. SeenPrefix'
  <2> SUFFICES ASSUME NEW a \in Actors
               PROVE  /\ Len(seen'[a]) = IF Reached(a)' THEN Taken ELSE Taken - 1
                      /\ \A i \in 1..Len(seen'[a]) : seen'[a][i] = log[i]
    BY <1>2, <1>8 DEF SeenPrefix
  <2>1. CASE a = actor
    <3> DEFINE r == Append(seen[actor], current)
    <3>1. Reached(a)'
      BY <2>1, <1>2 DEF Reached
    <3>2. /\ Len(r) = Len(seen[actor]) + 1
          /\ \A i \in 1..Len(seen[actor]) : r[i] = seen[actor][i]
          /\ r[Len(seen[actor]) + 1] = current
          /\ seen'[a] = r
      BY <1>3, <1>5, <2>1
    <3> HIDE DEF r
    <3>3. Len(r) = Taken
      BY <3>2, <1>1
    <3>4. ASSUME NEW i \in 1..Len(r) PROVE r[i] = log[i]
      <4>1. CASE i = Taken
        BY <4>1, <3>2, <3>3, <1>1
      <4>2. CASE i \in 1..Len(seen[actor])
        BY <4>2, <3>2, <1>1 DEF SeenPrefix
      <4> QED
        BY <4>1, <4>2, <3>3, <1>1
    <3> QED
      BY <3>1, <3>2, <3>3, <3>4
  <2>2. CASE a # actor
    <3>1. Reached(a)' <=> Reached(a)
      BY <2>2, <1>2 DEF Reached
    <3> QED
      BY <2>2, <3>1, <1>5 DEF SeenPrefix
  <2> QED
    BY <2>1, <2>2
<1> QED
  BY <1>6, <1>7, <1>8, <1>9

LEMMA MessageHandledIInv == IInv /\ MessageHandled => IInv'
<1> SUFFICES ASSUME IInv, MessageHandled PROVE IInv'
  OBVIOUS
<1> USE Constants DEF IInv
<1>1. /\ pc = "dispatch" /\ inside /\ inside' = FALSE
      /\ actor \in 1..N /\ NextActor("timers")
      /\ UNCHANGED <<queue, waiting, made, started, log, seen>>
      /\ current \in Envelopes
  BY DEF MessageHandled, Leave, TypeOK, Actors, Dispatching
<1>2. /\ actor < N => UNCHANGED <<pc, freed, current>> /\ actor' = actor + 1
      /\ actor = N => /\ pc' = "timers" /\ actor' = 1
                      /\ freed' = freed \cup {current} /\ current' = NoEnv
  BY <1>1 DEF MessageHandled, NextActor
<1>3. actor < N \/ actor = N
  BY <1>1
<1>4. TypeOK'
  <2>1. actor' \in Actors
    BY <1>1, Advances DEF TypeOK
  <2>2. pc' \in {"dispatch", "timers"}
    BY <1>1, <1>2, <1>3
  <2>3. current' \in Envelopes \cup {NoEnv} /\ freed' \subseteq Envelopes
    BY <1>1, <1>2, <1>3 DEF TypeOK
  <2> QED
    BY <2>1, <2>2, <2>3, <1>1 DEF TypeOK
<1>5. Pushed'
  BY <1>1, SamePushed
<1>6. Queued' /\ Taken' = Taken
  BY <1>1 DEF Queued, Taken
<1>7. Dispatching'
  BY <1>1, <1>2, <1>3, <1>6 DEF Dispatching
<1>8. ASSUME NEW a \in Actors PROVE Reached(a)' <=> Reached(a)
  BY <1>1, <1>2, <1>3 DEF Reached, Actors
<1>9. SeenPrefix'
  BY <1>1, <1>6, <1>8 DEF SeenPrefix
<1> QED
  BY <1>4, <1>5, <1>6, <1>7, <1>9

(***************************************************************************)
(* The specification                                                       *)
(***************************************************************************)
LEMMA NextIInv == IInv /\ [Next]_vars => IInv'
<1> SUFFICES ASSUME IInv, [Next]_vars PROVE IInv'
  OBVIOUS
<1>1. CASE UNCHANGED vars
  BY <1>1 DEF vars, IInv, TypeOK, Pushed, Waiters, Made, Ordered, Queued, Dispatching,
              SeenPrefix, Taken, Reached
<1>2. ASSUME NEW t \in Tasks, TaskPush(t) PROVE IInv'
  BY <1>2, PushBeginIInv DEF TaskPush, Producers
<1>3. CASE LoopPush
  BY <1>3, PushBeginIInv DEF LoopPush, Producers
<1>4. ASSUME NEW p \in Producers, PushResumes(p) \/ PushDrops(p) PROVE IInv'
  BY <1>4, PushResumesIInv, PushDropsIInv
<1>5. CASE LoopStep
  BY <1>5, CallbackIInv, ReceiveIInv, OnMessageIInv, MessageHandledIInv DEF LoopStep
<1> QED
  BY <1>1, <1>2, <1>3, <1>4, <1>5 DEF Next

LEMMA Invariance == Spec => []IInv
BY InitIInv, NextIInv, PTL DEF Spec

\* The queue never exceeds its depth and every variable keeps its type, for
\* any number of actors, tasks and envelopes.
THEOREM TypeCorrect == Spec => []TypeOK
<1>1. IInv => TypeOK
  BY DEF IInv
<1> QED
  BY <1>1, Invariance, PTL

\* Every actor sees the envelopes of one producer in the order of their
\* making: it sees a prefix of the log, and the log has them in that order.
THEOREM SourcesInOrder == Spec => []SourceOrder
<1>1. IInv => SourceOrder
  <2> SUFFICES ASSUME IInv, NEW a \in Actors,
                      NEW i \in 1..Len(seen[a]), NEW j \in 1..Len(seen[a]),
                      i < j, seen[a][i].src = seen[a][j].src
               PROVE  seen[a][i].n < seen[a][j].n
    BY DEF SourceOrder
  <2> USE DEF IInv
  <2>1. Len(log) \in Nat /\ Len(queue) \in Nat /\ Len(seen[a]) \in Nat
    BY LenProperties DEF TypeOK
  <2>2. Len(seen[a]) <= Len(log)
    BY <2>1 DEF SeenPrefix, Taken
  <2>3. i \in 1..Len(log) /\ j \in 1..Len(log)
    BY <2>1, <2>2
  <2>4. seen[a][i] = log[i] /\ seen[a][j] = log[j]
    BY DEF SeenPrefix
  <2> QED
    BY <2>3, <2>4 DEF Pushed, Ordered
<1> QED
  BY <1>1, Invariance, PTL

\* The actors see one history: two of them agree on every envelope both were
\* given, and none is ever more than one envelope ahead of another, because the
\* loop gives an envelope to every actor before it receives the next.
THEOREM OneHistory ==
  Spec => [](\A a, b \in Actors :
               /\ Len(seen[a]) <= Len(seen[b]) + 1
               /\ \A i \in 1..Len(seen[a]) : i <= Len(seen[b]) => seen[a][i] = seen[b][i])
<1>1. IInv => \A a, b \in Actors :
                /\ Len(seen[a]) <= Len(seen[b]) + 1
                /\ \A i \in 1..Len(seen[a]) : i <= Len(seen[b]) => seen[a][i] = seen[b][i]
  <2> SUFFICES ASSUME IInv, NEW a \in Actors, NEW b \in Actors
               PROVE  /\ Len(seen[a]) <= Len(seen[b]) + 1
                      /\ \A i \in 1..Len(seen[a]) : i <= Len(seen[b]) => seen[a][i] = seen[b][i]
    OBVIOUS
  <2>1. seen \in [Actors -> Seq(Envelopes)] /\ log \in Seq(Envelopes) /\ queue \in Seq(Envelopes)
    BY DEF IInv, TypeOK
  <2>2. Len(log) \in Nat /\ Len(queue) \in Nat /\ Len(seen[a]) \in Nat /\ Len(seen[b]) \in Nat
    BY <2>1, LenProperties
  <2>3. /\ Len(seen[a]) = IF Reached(a) THEN Taken ELSE Taken - 1
        /\ Len(seen[b]) = IF Reached(b) THEN Taken ELSE Taken - 1
        /\ \A i \in 1..Len(seen[a]) : seen[a][i] = log[i]
        /\ \A i \in 1..Len(seen[b]) : seen[b][i] = log[i]
    BY DEF IInv, SeenPrefix
  <2>4. Len(seen[a]) <= Len(seen[b]) + 1
    BY <2>2, <2>3 DEF Taken
  <2>5. \A i \in 1..Len(seen[a]) : i <= Len(seen[b]) => seen[a][i] = seen[b][i]
    BY <2>2, <2>3
  <2> QED
    BY <2>4, <2>5
<1> QED
  BY <1>1, Invariance, PTL

(***************************************************************************)
(* The bus implements Broadcast                                            *)
(***************************************************************************)
LEMMA Publishes ==
  ASSUME IInv, NEW e \in Envelopes, Enqueue(e), UNCHANGED loopVars,
         \A i \in 1..Len(log) : log[i] # e
  PROVE  BC!Next
BY DEF Enqueue, loopVars, BC!Next, BC!Publish

LEMMA NextBroadcasts == IInv /\ [Next]_vars => [BC!Next]_(BC!vars)
<1> SUFFICES ASSUME IInv, [Next]_vars PROVE [BC!Next]_(BC!vars)
  OBVIOUS
<1>1. ASSUME UNCHANGED <<log, seen>> PROVE [BC!Next]_(BC!vars)
  BY <1>1 DEF BC!vars
<1>2. \A i \in 1..Len(log) : log[i].n \in Nat
  BY ElementOfSeq, Constants DEF IInv, TypeOK
<1>3. ASSUME NEW p \in Producers, PushBegin(p) PROVE [BC!Next]_(BC!vars)
  <2> DEFINE e == [src |-> p, n |-> made[p] + 1]
  <2>1. e \in Envelopes /\ e.src = p /\ e.n = made[p] + 1 /\ made[p] \in Nat
    BY <1>3, Constants DEF PushBegin, IInv, TypeOK
  <2>2. \A i \in 1..Len(log) : log[i] # e
    BY <2>1, <1>2 DEF IInv, Pushed, Made
  <2>3. Enqueue(e) \/ UNCHANGED log
    BY <1>3 DEF PushBegin
  <2>4. UNCHANGED loopVars
    BY <1>3 DEF PushBegin
  <2> HIDE DEF e
  <2> QED
    BY <2>1, <2>2, <2>3, <2>4, <1>1, Publishes DEF loopVars
<1>4. ASSUME NEW p \in Producers, PushResumes(p) PROVE [BC!Next]_(BC!vars)
  <2>1. PICK e \in Envelopes : e = waiting[p]
    BY <1>4 DEF PushResumes, IInv, TypeOK
  <2>2. e = [src |-> p, n |-> made[p]] /\ waiting[p] # NoEnv
    BY <1>4, <2>1 DEF PushResumes, IInv, Pushed, Waiters
  <2>3. e.src = p /\ e.n = made[p] /\ made[p] \in Nat
    BY <2>2 DEF IInv, TypeOK
  <2>4. \A i \in 1..Len(log) : log[i] # e
    BY <2>2, <2>3, <1>2 DEF IInv, Pushed, Made
  <2>5. Enqueue(e) /\ UNCHANGED loopVars
    BY <1>4, <2>1 DEF PushResumes
  <2> QED
    BY <2>4, <2>5, Publishes
<1>5. CASE OnMessage
  <2>1. /\ actor \in Actors
        /\ seen' = [seen EXCEPT ![actor] = Append(@, log[Len(seen[actor]) + 1])]
        /\ Len(seen[actor]) = Taken - 1 /\ Taken \in 1..Len(log)
    BY <1>5, Given
  <2>2. Len(log) \in Nat
    BY LenProperties DEF IInv, TypeOK
  <2>3. Len(seen[actor]) < Len(log) /\ log' = log
    BY <1>5, <2>1, <2>2 DEF OnMessage
  <2>4. BC!Deliver(actor)
    BY <2>1, <2>3 DEF BC!Deliver
  <2> QED
    BY <2>1, <2>4 DEF BC!Next
<1>6. CASE LoopStep
  BY <1>1, <1>5, <1>6 DEF LoopStep, StartActor, ActorStarted, Receive, ReceiveTimeout,
                          MessageHandled, RunTimers, TimersRun
<1>7. CASE UNCHANGED vars
  BY <1>1, <1>7 DEF vars
<1>8. ASSUME NEW p \in Producers, PushDrops(p) PROVE [BC!Next]_(BC!vars)
  BY <1>1, <1>8 DEF PushDrops, loopVars
<1> QED
  BY <1>3, <1>4, <1>6, <1>7, <1>8 DEF Next, TaskPush, LoopPush, Producers

\* With its bounded queue, its waiting and dropping producers and its loop
\* that re-enters push, the bus is a broadcast log.
THEOREM Refinement == Spec => Broadcasts
<1>1. Init => BC!Init
  BY DEF Init, BC!Init
<1> QED
  BY <1>1, InitIInv, NextIInv, NextBroadcasts, PTL DEF Spec, Broadcasts, BC!Spec

(***************************************************************************)
(* Ownership                                                               *)
(*                                                                         *)
(* The entries of the log are freed from its front.  Live is the first     *)
(* that is not: the entry being dispatched, or else the head of the queue. *)
(* An envelope that was made is freed, waits with its producer, or is in   *)
(* the log from Live on, and never two of these.                           *)
(***************************************************************************)
Live == IF pc = "dispatch" THEN Taken ELSE Taken + 1
InLog(e) == \E i \in 1..Len(log) : i >= Live /\ log[i] = e

Idle == pc # "dispatch" => current = NoEnv
FreedOnce ==
  \A e \in freed : e.n <= made[e.src] /\ e # waiting[e.src] /\ ~InLog(e)
NoneLost ==
  \A e \in Envelopes :
    e.n <= made[e.src] => e \in freed \/ e = waiting[e.src] \/ InLog(e)

Owned == Idle /\ FreedOnce /\ NoneLost

Starting ==
  IF pc = "start" THEN started = 1..(actor - 1) /\ Taken = 0 ELSE started = Actors

(***************************************************************************)
(* The start of the actors                                                 *)
(***************************************************************************)
LEMMA Lengths == ASSUME IInv PROVE Len(log) \in Nat /\ Len(queue) \in Nat /\ Taken \in Nat
BY LenProperties DEF IInv, TypeOK, Queued, Taken

LEMMA TakenUnmoved ==
  ASSUME IInv, \/ \E p \in Producers : PushBegin(p) \/ PushResumes(p)
               \/ UNCHANGED <<log, queue>>
  PROVE  Taken' = Taken
<1>1. log \in Seq(Envelopes) /\ queue \in Seq(Envelopes)
  BY DEF IInv, TypeOK
<1>2. ASSUME NEW e, e \in Envelopes, Enqueue(e) PROVE Taken' = Taken
  <2>1. Len(log') = Len(log) + 1 /\ Len(queue') = Len(queue) + 1
    BY <1>1, <1>2, AppendProperties DEF Enqueue
  <2> QED
    BY <2>1, Lengths DEF Taken
<1>3. ASSUME UNCHANGED <<log, queue>> PROVE Taken' = Taken
  BY <1>3 DEF Taken
<1>4. ASSUME NEW p \in Producers, PushBegin(p) PROVE Taken' = Taken
  <2> DEFINE e == [src |-> p, n |-> made[p] + 1]
  <2>1. made[p] + 1 \in 1..MaxSent
    BY <1>4, Constants DEF PushBegin, IInv, TypeOK
  <2>2. e \in Envelopes
    BY <2>1, Constants
  <2>3. Enqueue(e) \/ UNCHANGED <<log, queue>>
    BY <1>4 DEF PushBegin
  <2> HIDE DEF e
  <2> QED
    BY <2>2, <2>3, <1>2, <1>3
<1>5. ASSUME NEW p \in Producers, PushResumes(p) PROVE Taken' = Taken
  <2>1. waiting[p] \in Envelopes
    BY <1>5 DEF PushResumes, IInv, TypeOK
  <2> QED
    BY <2>1, <1>2, <1>5 DEF PushResumes
<1> QED
  BY <1>3, <1>4, <1>5

LEMMA InitStarting == Init => Starting
BY DEF Init, Starting, Taken

LEMMA StartingStep == IInv /\ Starting /\ [Next]_vars => Starting'
<1> SUFFICES ASSUME IInv, Starting, [Next]_vars PROVE Starting'
  OBVIOUS
<1>1. ASSUME UNCHANGED loopVars, Taken' = Taken PROVE Starting'
  BY <1>1 DEF loopVars, Starting
<1>2. CASE UNCHANGED vars
  BY <1>1, <1>2, TakenUnmoved DEF vars, loopVars
<1>3. ASSUME NEW p \in Producers, PushBegin(p) \/ PushResumes(p) \/ PushDrops(p)
      PROVE  Starting'
  BY <1>1, <1>3, TakenUnmoved DEF PushBegin, PushResumes, PushDrops
<1>4. CASE StartActor \/ OnMessage \/ RunTimers
  BY <1>4, TakenUnmoved DEF StartActor, OnMessage, RunTimers, Starting
<1>5. CASE ActorStarted
  <2>1. /\ pc = "start" /\ started' = started \cup {actor} /\ NextActor("receive")
        /\ UNCHANGED <<log, queue>>
    BY <1>5 DEF ActorStarted, Leave
  <2>2. actor \in 1..N /\ started = 1..(actor - 1) /\ Taken' = Taken /\ Taken = 0
    BY <2>1, TakenUnmoved DEF IInv, TypeOK, Actors, Starting
  <2>3. started' = 1..actor
    BY <2>1, <2>2, Constants
  <2>4. CASE actor < N
    BY <2>1, <2>2, <2>3, <2>4, Constants DEF NextActor, Starting
  <2>5. CASE actor = N
    BY <2>1, <2>2, <2>3, <2>5, Constants DEF NextActor, Starting, Actors
  <2> QED
    BY <2>2, <2>4, <2>5, Constants
<1>6. CASE Receive \/ ReceiveTimeout
  BY <1>6 DEF Receive, ReceiveTimeout, Starting
<1>7. CASE MessageHandled \/ TimersRun
  BY <1>7 DEF MessageHandled, TimersRun, Leave, NextActor, Starting
<1> QED
  BY <1>2, <1>3, <1>4, <1>5, <1>6, <1>7
  DEF Next, TaskPush, LoopPush, LoopStep, Producers

\* No actor is given an envelope before every actor has started: until then
\* nothing is taken from the queue, however full it is.
THEOREM StartsFirst == Spec => []StartedBeforeMessages
<1>1. IInv /\ Starting => StartedBeforeMessages
  <2> SUFFICES ASSUME IInv, Starting, NEW a \in Actors, seen[a] # <<>>
               PROVE  started = Actors
    BY DEF StartedBeforeMessages
  <2>1. CASE pc = "start"
    <3>1. Len(seen[a]) = 0
      BY <2>1 DEF IInv, SeenPrefix, Reached, Starting
    <3>2. seen[a] \in Seq(Envelopes)
      BY DEF IInv, TypeOK
    <3> QED
      BY <3>1, <3>2, EmptySeq
  <2> QED
    BY <2>1 DEF Starting
<1> QED
  BY <1>1, InitIInv, NextIInv, InitStarting, StartingStep, PTL DEF Spec

(***************************************************************************)
(* The owners of an envelope                                               *)
(***************************************************************************)
LEMMA LiveLog ==
  ASSUME IInv
  PROVE  /\ Live \in Nat /\ Live <= Len(log) + 1
         /\ \A i \in 1..Len(log) : log[i] \in Envelopes /\ log[i].src \in Producers
BY Lengths, ElementOfSeq, Constants DEF Live, Taken, IInv, TypeOK

LEMMA InitOwned == Init => Owned
<1> SUFFICES ASSUME Init PROVE Owned
  OBVIOUS
<1>1. Idle /\ FreedOnce
  BY DEF Init, Idle, FreedOnce
<1>2. NoneLost
  BY Constants DEF Init, NoneLost
<1> QED
  BY <1>1, <1>2 DEF Owned

\* Neither the freed envelopes nor what is live of the log changes
LEMMA SameOwned ==
  ASSUME Owned, IInv, UNCHANGED <<log, made, waiting, freed>>, Idle', Live' = Live
  PROVE  Owned'
BY DEF Owned, FreedOnce, NoneLost, InLog

\* An entry is added behind the live ones
LEMMA LongerLog ==
  ASSUME IInv, NEW e \in Envelopes, Enqueue(e), UNCHANGED loopVars, Taken' = Taken
  PROVE  \A x : InLog(x)' <=> InLog(x) \/ x = e
<1>1. log \in Seq(Envelopes) /\ Len(log) \in Nat
  BY Lengths DEF IInv, TypeOK
<1>2. /\ Len(log') = Len(log) + 1
      /\ \A i \in 1..Len(log) : log'[i] = log[i]
      /\ log'[Len(log) + 1] = e
  BY <1>1, AppendProperties DEF Enqueue
<1>3. Live' = Live /\ Live <= Len(log) + 1
  BY LiveLog DEF Live, loopVars
<1> SUFFICES ASSUME NEW x PROVE InLog(x)' <=> InLog(x) \/ x = e
  OBVIOUS
<1>4. InLog(x) => InLog(x)'
  BY <1>1, <1>2, <1>3 DEF InLog
<1>5. x = e => InLog(x)'
  <2>1. Len(log) + 1 \in 1..Len(log') /\ Len(log) + 1 >= Live'
    BY <1>1, <1>2, <1>3, LiveLog
  <2> QED
    BY <2>1, <1>2 DEF InLog
<1>6. ASSUME InLog(x)' PROVE InLog(x) \/ x = e
  <2>1. PICK i \in 1..Len(log') : i >= Live' /\ log'[i] = x
    BY <1>6 DEF InLog
  <2>2. i \in 1..Len(log) \/ i = Len(log) + 1
    BY <1>1, <1>2
  <2> QED
    BY <2>1, <2>2, <1>2, <1>3 DEF InLog
<1> QED
  BY <1>4, <1>5, <1>6

\* push makes an envelope that nobody had
LEMMA PushBeginOwned ==
  ASSUME IInv, Owned, NEW p \in Producers, PushBegin(p)
  PROVE  Owned'
<1> DEFINE e == [src |-> p, n |-> made[p] + 1]
<1>1. made[p] \in Nat /\ made[p] + 1 \in 1..MaxSent
  BY Constants DEF PushBegin, IInv, TypeOK
<1>2. e \in Envelopes /\ e.src = p /\ e.n = made[p] + 1 /\ e # NoEnv
  BY <1>1, Constants
<1>3. \A x \in Envelopes : x.src = p /\ x.n = made[p] + 1 => x = e
  BY DEF Envelopes
<1>4. /\ waiting[p] = NoEnv /\ made' = [made EXCEPT ![p] = @ + 1]
      /\ UNCHANGED loopVars /\ UNCHANGED freed
      /\ \/ Enqueue(e) /\ UNCHANGED waiting
         \/ waiting' = [waiting EXCEPT ![p] = e] /\ UNCHANGED <<queue, log>>
  BY DEF PushBegin
<1>5. /\ made \in [Producers -> 0..MaxSent] /\ freed \subseteq Envelopes
      /\ waiting \in [Producers -> Envelopes \cup {NoEnv}]
  BY DEF IInv, TypeOK
<1> HIDE DEF e
<1>6. /\ made'[p] = made[p] + 1
      /\ \A q \in Producers \ {p} : made'[q] = made[q]
  BY <1>4, <1>5
<1>7. Taken' = Taken /\ Live' = Live
  BY <1>4, TakenUnmoved DEF Live, loopVars
<1>8. Idle'
  BY <1>4 DEF Owned, Idle, loopVars
<1>9. \A x \in Envelopes : x.n <= made'[x.src] <=> x.n <= made[x.src] \/ x = e
  <2> SUFFICES ASSUME NEW x \in Envelopes
               PROVE  x.n <= made'[x.src] <=> x.n <= made[x.src] \/ x = e
    OBVIOUS
  <2>1. x.src \in Producers /\ x.n \in Nat
    BY Constants
  <2> QED
    BY <2>1, <1>1, <1>2, <1>3, <1>6
<1>10. e \notin freed /\ ~InLog(e)
  <2>1. \A i \in 1..Len(log) : log[i] # e
    <3> SUFFICES ASSUME NEW i \in 1..Len(log), log[i] = e PROVE FALSE
      OBVIOUS
    <3>1. e.n <= made[e.src]
      BY DEF IInv, Pushed, Made
    <3> QED
      BY <3>1, <1>1, <1>2
  <2>2. ASSUME e \in freed PROVE FALSE
    <3>1. e.n <= made[e.src]
      BY <2>2 DEF Owned, FreedOnce
    <3> QED
      BY <3>1, <1>1, <1>2
  <2> QED
    BY <2>1, <2>2 DEF InLog
<1>11. CASE Enqueue(e) /\ UNCHANGED waiting
  <2>1. \A x : InLog(x)' <=> InLog(x) \/ x = e
    BY <1>2, <1>4, <1>7, <1>11, LongerLog
  <2>2. FreedOnce'
    BY <2>1, <1>4, <1>5, <1>9, <1>10, <1>11 DEF Owned, FreedOnce
  <2>3. NoneLost'
    BY <2>1, <1>4, <1>9, <1>11 DEF Owned, NoneLost
  <2> QED
    BY <2>2, <2>3, <1>8 DEF Owned
<1>12. CASE waiting' = [waiting EXCEPT ![p] = e] /\ UNCHANGED <<queue, log>>
  <2>1. \A x : InLog(x)' <=> InLog(x)
    BY <1>7, <1>12 DEF InLog
  <2>2. waiting'[p] = e /\ \A q \in Producers \ {p} : waiting'[q] = waiting[q]
    BY <1>5, <1>12
  <2>3. FreedOnce'
    BY <2>1, <2>2, <1>4, <1>5, <1>9, <1>10, Constants DEF Owned, FreedOnce
  <2>4. NoneLost'
    <3> SUFFICES ASSUME NEW x \in Envelopes, x.n <= made'[x.src]
                 PROVE  x \in freed' \/ x = waiting'[x.src] \/ InLog(x)'
      BY DEF NoneLost
    <3>1. x = e \/ x \in freed \/ x = waiting[x.src] \/ InLog(x)
      BY <1>9 DEF Owned, NoneLost
    <3>2. x # NoEnv /\ x.src \in Producers
      BY Constants
    <3> QED
      BY <3>1, <3>2, <2>1, <2>2, <1>2, <1>4
  <2> QED
    BY <2>3, <2>4, <1>8 DEF Owned
<1> QED
  BY <1>4, <1>11, <1>12

\* A waiting envelope is its producer's last, so it is not in the log
LEMMA Waits ==
  ASSUME IInv, NEW p \in Producers, waiting[p] # NoEnv
  PROVE  /\ waiting[p] \in Envelopes
         /\ waiting[p].src = p /\ waiting[p].n = made[p] /\ made[p] \in Nat
         /\ \A i \in 1..Len(log) : log[i] # waiting[p]
<1>1. waiting[p] \in Envelopes
  BY DEF IInv, TypeOK
<1>2. waiting[p].src = p /\ waiting[p].n = made[p] /\ made[p] \in Nat
  BY DEF IInv, Pushed, Waiters, TypeOK
<1>3. ASSUME NEW i \in 1..Len(log), log[i] = waiting[p] PROVE FALSE
  <2>1. log[i].n < made[log[i].src]
    BY <1>2, <1>3 DEF IInv, Pushed, Made
  <2> QED
    BY <2>1, <1>2, <1>3
<1> QED
  BY <1>1, <1>2, <1>3

\* and no other producer waits with it
LEMMA WaitsAlone ==
  ASSUME IInv, NEW p \in Producers, waiting[p] # NoEnv,
         waiting' = [waiting EXCEPT ![p] = NoEnv],
         NEW x \in Envelopes
  PROVE  /\ x = waiting'[x.src] => x = waiting[x.src]
         /\ x = waiting[x.src] => x = waiting[p] \/ x = waiting'[x.src]
         /\ waiting[p] # waiting'[waiting[p].src]
<1>1. waiting \in [Producers -> Envelopes \cup {NoEnv}]
  BY DEF IInv, TypeOK
<1>2. waiting'[p] = NoEnv /\ \A q \in Producers \ {p} : waiting'[q] = waiting[q]
  BY <1>1
<1>3. x # NoEnv /\ x.src \in Producers
  BY Constants
<1>4. waiting[p].src = p
  BY Waits
<1> QED
  BY <1>2, <1>3, <1>4

LEMMA PushResumesOwned ==
  ASSUME IInv, Owned, NEW p \in Producers, PushResumes(p)
  PROVE  Owned'
<1>1. /\ waiting[p] # NoEnv /\ Enqueue(waiting[p])
      /\ waiting' = [waiting EXCEPT ![p] = NoEnv]
      /\ UNCHANGED loopVars /\ UNCHANGED <<made, freed>>
  BY DEF PushResumes
<1>2. /\ waiting[p] \in Envelopes /\ waiting[p].src = p /\ freed \subseteq Envelopes
  BY <1>1, Waits DEF IInv, TypeOK
<1>3. Taken' = Taken
  BY TakenUnmoved
<1>4. \A x : InLog(x)' <=> InLog(x) \/ x = waiting[p]
  BY <1>1, <1>2, <1>3, LongerLog
<1>5. Idle'
  BY <1>1 DEF Owned, Idle, loopVars
<1>6. FreedOnce'
  <2> SUFFICES ASSUME NEW x \in freed
               PROVE  x.n <= made[x.src] /\ x # waiting'[x.src] /\ ~InLog(x)'
    BY <1>1 DEF FreedOnce
  <2>1. x.n <= made[x.src] /\ x # waiting[x.src] /\ ~InLog(x) /\ x \in Envelopes
    BY <1>2 DEF Owned, FreedOnce
  <2>2. x # waiting'[x.src]
    BY <2>1, <1>1, WaitsAlone
  <2>3. x # waiting[p]
    BY <2>1, <1>2
  <2> QED
    BY <2>1, <2>2, <2>3, <1>4
<1>7. NoneLost'
  BY <1>1, <1>4, WaitsAlone DEF Owned, NoneLost
<1> QED
  BY <1>5, <1>6, <1>7 DEF Owned

LEMMA PushDropsOwned ==
  ASSUME IInv, Owned, NEW p \in Producers, PushDrops(p)
  PROVE  Owned'
<1>1. /\ waiting[p] # NoEnv /\ freed' = freed \cup {waiting[p]}
      /\ waiting' = [waiting EXCEPT ![p] = NoEnv]
      /\ UNCHANGED loopVars /\ UNCHANGED <<queue, made, log>>
  BY DEF PushDrops
<1>2. /\ waiting[p] \in Envelopes /\ waiting[p].src = p /\ waiting[p].n = made[p]
      /\ made[p] \in Nat /\ ~InLog(waiting[p]) /\ freed \subseteq Envelopes
  BY <1>1, Waits DEF IInv, TypeOK, InLog
<1>3. \A x : InLog(x)' <=> InLog(x)
  BY <1>1 DEF InLog, Live, Taken, loopVars
<1>4. Idle'
  BY <1>1 DEF Owned, Idle, loopVars
<1>5. FreedOnce'
  <2> SUFFICES ASSUME NEW x \in freed \cup {waiting[p]}
               PROVE  x.n <= made[x.src] /\ x # waiting'[x.src] /\ ~InLog(x)
    BY <1>1, <1>3 DEF FreedOnce
  <2>1. CASE x \in freed
    <3>1. x.n <= made[x.src] /\ x # waiting[x.src] /\ ~InLog(x) /\ x \in Envelopes
      BY <2>1, <1>2 DEF Owned, FreedOnce
    <3> QED
      BY <3>1, <1>1, WaitsAlone
  <2>2. CASE x = waiting[p]
    <3>1. x.n <= made[x.src] /\ ~InLog(x) /\ x.src = p
      BY <2>2, <1>2
    <3>2. waiting'[p] = NoEnv
      BY <1>1 DEF IInv, TypeOK
    <3> QED
      BY <3>1, <3>2, <2>2, <1>1
  <2> QED
    BY <2>1, <2>2
<1>6. NoneLost'
  BY <1>1, <1>3, WaitsAlone DEF Owned, NoneLost
<1> QED
  BY <1>4, <1>5, <1>6 DEF Owned

\* The head of the queue becomes the envelope that is dispatched
LEMMA ReceiveOwned == ASSUME IInv, IInv', Owned, Receive PROVE Owned'
<1>1. /\ pc = "receive" /\ pc' = "dispatch" /\ queue # <<>> /\ queue' = Tail(queue)
      /\ UNCHANGED <<log, made, waiting, freed>>
  BY DEF Receive
<1>2. queue \in Seq(Envelopes)
  BY DEF IInv, TypeOK
<1>3. Len(queue') = Len(queue) - 1
  BY <1>1, <1>2, HeadTailProperties
<1>4. Live' = Live
  BY <1>1, <1>3, Lengths DEF Live, Taken
<1>5. Idle'
  BY <1>1 DEF Idle
<1> QED
  BY <1>1, <1>4, <1>5, SameOwned

\* and is deleted when the last actor has handled it
LEMMA MessageHandledOwned == ASSUME IInv, Owned, MessageHandled PROVE Owned'
<1>1. /\ pc = "dispatch" /\ actor \in 1..N
      /\ UNCHANGED <<queue, waiting, made, log>>
      /\ actor < N => UNCHANGED <<pc, freed, current>>
      /\ actor = N => pc' = "timers" /\ freed' = freed \cup {current} /\ current' = NoEnv
  BY Constants DEF MessageHandled, Leave, NextActor, IInv, TypeOK, Actors
<1>2. CASE actor < N
  BY <1>1, <1>2, SameOwned DEF Owned, Idle, Live, Taken
<1>3. CASE actor = N
  <2>1. /\ Taken \in 1..Len(log) /\ current = log[Taken] /\ current \in Envelopes
        /\ Live = Taken /\ Live' = Taken + 1
    BY <1>1, <1>3, Lengths DEF IInv, Dispatching, Live, Taken
  <2> PICK c \in Envelopes : c = current
    BY <2>1
  <2>2. \A x : InLog(x) <=> InLog(x)' \/ x = c
    <3> SUFFICES ASSUME NEW x PROVE InLog(x) <=> InLog(x)' \/ x = c
      OBVIOUS
    <3>1. InLog(x)' => InLog(x)
      BY <1>1, <2>1 DEF InLog
    <3>2. x = c => InLog(x)
      BY <2>1 DEF InLog
    <3>3. InLog(x) => InLog(x)' \/ x = c
      <4> SUFFICES ASSUME NEW i \in 1..Len(log), i >= Live, log[i] = x
                   PROVE  InLog(x)' \/ x = c
        BY DEF InLog
      <4>1. i = Taken \/ i >= Taken + 1
        BY <2>1, Lengths
      <4> QED
        BY <4>1, <1>1, <2>1 DEF InLog
    <3> QED
      BY <3>1, <3>2, <3>3
  <2>3. ~InLog(c)'
    <3> SUFFICES ASSUME NEW i \in 1..Len(log), i >= Taken + 1, log[i] = log[Taken]
                 PROVE  FALSE
      BY <1>1, <2>1 DEF InLog
    <3>1. Taken < i
      BY Lengths
    <3>2. log[Taken].n < log[i].n
      BY <2>1, <3>1 DEF IInv, Pushed, Ordered
    <3>3. log[i].n \in Nat
      BY LiveLog, Constants
    <3> QED
      BY <3>2, <3>3
  <2>4. c.n <= made[c.src] /\ c # waiting[c.src]
    <3>1. c.src \in Producers /\ c # NoEnv
      BY Constants
    <3>2. c.n <= made[c.src]
      BY <2>1 DEF IInv, Pushed, Made
    <3>3. ASSUME c = waiting[c.src] PROVE FALSE
      BY <3>1, <3>3, <2>1, Waits
    <3> QED
      BY <3>2, <3>3
  <2>5. FreedOnce'
    <3>1. freed' = freed \cup {c}
      BY <1>1, <1>3
    <3>2. ASSUME NEW x \in freed' PROVE x.n <= made[x.src] /\ x # waiting[x.src] /\ ~InLog(x)'
      BY <3>1, <2>2, <2>3, <2>4 DEF Owned, FreedOnce
    <3> QED
      BY <3>2, <1>1 DEF FreedOnce
  <2>6. NoneLost'
    BY <1>1, <1>3, <2>2 DEF Owned, NoneLost
  <2> QED
    BY <1>1, <1>3, <2>5, <2>6 DEF Owned, Idle
<1>4. actor < N \/ actor = N
  BY <1>1, Constants
<1> QED
  BY <1>2, <1>3, <1>4

LEMMA OwnedStep == IInv /\ IInv' /\ Owned /\ [Next]_vars => Owned'
<1> SUFFICES ASSUME IInv, IInv', Owned, [Next]_vars PROVE Owned'
  OBVIOUS
<1>1. CASE UNCHANGED vars
  BY <1>1, SameOwned DEF vars, Owned, Idle, Live, Taken
<1>2. ASSUME NEW p \in Producers, PushBegin(p) \/ PushResumes(p) \/ PushDrops(p)
      PROVE  Owned'
  BY <1>2, PushBeginOwned, PushResumesOwned, PushDropsOwned
<1>3. CASE StartActor \/ RunTimers \/ OnMessage
  BY <1>3, SameOwned DEF StartActor, RunTimers, OnMessage, Owned, Idle, Live, Taken
<1>4. CASE ActorStarted \/ TimersRun
  BY <1>4, SameOwned
  DEF ActorStarted, TimersRun, Leave, NextActor, Owned, Idle, Live, Taken
<1>5. CASE ReceiveTimeout
  BY <1>5, SameOwned DEF ReceiveTimeout, Owned, Idle, Live, Taken
<1> QED
  BY <1>1, <1>2, <1>3, <1>4, <1>5, ReceiveOwned, MessageHandledOwned
  DEF Next, TaskPush, LoopPush, LoopStep, Producers

\* The queue holds no envelope twice
LEMMA SlotsDiffer == ASSUME IInv PROVE Cardinality(InQueue) = Len(queue)
<1>1. queue \in Seq(Envelopes) /\ Len(queue) \in Nat
  BY Lengths DEF IInv, TypeOK
<1>2. ASSUME NEW i \in 1..Len(queue), NEW j \in 1..Len(queue), i < j
      PROVE  queue[i] # queue[j]
  <2>1. queue[i] = log[Taken + i] /\ queue[j] = log[Taken + j]
    BY DEF IInv, Queued
  <2>2. Taken + i \in 1..Len(log) /\ Taken + j \in 1..Len(log) /\ Taken + i < Taken + j
    BY Lengths, <1>2 DEF Taken
  <2>3. log[Taken + i].src = log[Taken + j].src
          => log[Taken + i].n < log[Taken + j].n
    BY <2>2 DEF IInv, Pushed, Ordered
  <2>4. log[Taken + i].n \in Nat
    BY <2>2, LiveLog, Constants
  <2> QED
    BY <2>1, <2>3, <2>4
<1>3. \A i, j \in 1..Len(queue) : queue[i] = queue[j] => i = j
  <2> SUFFICES ASSUME NEW i \in 1..Len(queue), NEW j \in 1..Len(queue), queue[i] = queue[j]
               PROVE  i = j
    OBVIOUS
  <2>1. i < j \/ j < i \/ i = j
    OBVIOUS
  <2> QED
    BY <2>1, <1>2
<1>4. queue \in [1..Len(queue) -> InQueue]
  BY <1>1 DEF InQueue
<1>5. \A e \in InQueue : \E i \in 1..Len(queue) : queue[i] = e
  BY DEF InQueue
<1>6. ExistsBijection(1..Len(queue), InQueue)
  BY <1>3, <1>4, <1>5 DEF ExistsBijection, Bijection, Injection, IsInjective, Surjection
<1>7. IsFiniteSet(1..Len(queue)) /\ Cardinality(1..Len(queue)) = Len(queue)
  BY SMTT(30), <1>1, FS_Interval
<1> QED
  BY <1>6, <1>7, FS_Bijection

\* Every envelope that was created and not deleted has one owner: a producer
\* that waits, one slot of the queue, or the loop; none is deleted twice and
\* none is lost.
THEOREM OneOwnerAlways == Spec => []OneOwner
<1>1. IInv /\ Owned => OneOwner
  <2> SUFFICES ASSUME IInv, Owned PROVE OneOwner
    OBVIOUS
  <2>0. /\ freed \subseteq Envelopes
        /\ waiting \in [Producers -> Envelopes \cup {NoEnv}]
    BY DEF IInv, TypeOK
  <2>1. \A e : e \in InQueue <=> \E i \in 1..Len(log) : i >= Taken + 1 /\ log[i] = e
    <3> SUFFICES ASSUME NEW e
                 PROVE  e \in InQueue <=> \E i \in 1..Len(log) : i >= Taken + 1 /\ log[i] = e
      OBVIOUS
    <3>1. \A i \in 1..Len(queue) : queue[i] = log[Taken + i] /\ Taken + i \in 1..Len(log)
      BY Lengths DEF IInv, Queued, Taken
    <3>2. \A i \in 1..Len(log) : i >= Taken + 1 =>
            i - Taken \in 1..Len(queue) /\ queue[i - Taken] = log[i]
      <4> SUFFICES ASSUME NEW i \in 1..Len(log), i >= Taken + 1
                   PROVE  i - Taken \in 1..Len(queue) /\ queue[i - Taken] = log[i]
        OBVIOUS
      <4>1. i - Taken \in 1..Len(queue) /\ Taken + (i - Taken) = i
        BY Lengths DEF Taken
      <4> QED
        BY <4>1, <3>1
    <3>3. ASSUME NEW i \in 1..Len(queue)
          PROVE  Taken + i \in 1..Len(log) /\ Taken + i >= Taken + 1
      BY <3>1, Lengths
    <3>4. e \in InQueue => \E i \in 1..Len(log) : i >= Taken + 1 /\ log[i] = e
      BY <3>1, <3>3, Zenon DEF InQueue
    <3>5. (\E i \in 1..Len(log) : i >= Taken + 1 /\ log[i] = e) => e \in InQueue
      BY <3>2, Zenon DEF InQueue
    <3> QED
      BY <3>4, <3>5
  <2>2. \A e \in Envelopes : InLog(e) <=> e \in InQueue \/ e = current
    <3>1. CASE pc = "dispatch"
      <4>1. Taken \in 1..Len(log) /\ current = log[Taken] /\ Live = Taken
        BY <3>1, Lengths DEF IInv, Dispatching, Taken, Live
      <4> QED
        BY <4>1, <2>1, Lengths DEF InLog
    <3>2. CASE pc # "dispatch"
      <4>1. current = NoEnv /\ Live = Taken + 1
        BY <3>2 DEF Owned, Idle, Live
      <4> QED
        BY <4>1, <2>1, Constants DEF InLog
    <3> QED
      BY <3>1, <3>2
  <2>3. \A p \in Producers : waiting[p] # NoEnv =>
          waiting[p] \in Envelopes /\ waiting[p].src = p /\ ~InLog(waiting[p])
    BY Waits DEF InLog
  <2>4. InQueue \subseteq Envelopes
    BY <2>1, LiveLog
  <2>5. current \notin InQueue
    <3>1. CASE pc = "dispatch"
      <4>1. /\ Taken \in 1..Len(log) /\ current = log[Taken]
        BY <3>1, Lengths DEF IInv, Dispatching, Taken
      <4> SUFFICES ASSUME NEW i \in 1..Len(log), i >= Taken + 1, log[i] = log[Taken]
                   PROVE  FALSE
        BY <4>1, <2>1
      <4>2. log[Taken].n < log[i].n
        BY <4>1, Lengths DEF IInv, Pushed, Ordered
      <4>3. log[i].n \in Nat
        BY LiveLog, Constants
      <4> QED
        BY <4>2, <4>3
    <3>2. CASE pc # "dispatch"
      BY <3>2, <2>4, Constants DEF Owned, Idle
    <3> QED
      BY <3>1, <3>2
  <2>6. freed \cap (InQueue \cup {current} \cup {waiting[p] : p \in Producers}) = {}
    BY <2>0, <2>2, <2>3, Constants DEF Owned, FreedOnce
  <2>7. InQueue \cap ({current} \cup {waiting[p] : p \in Producers}) = {}
    BY <2>2, <2>3, <2>4, <2>5, Constants
  <2>8. {e \in Envelopes : e.n <= made[e.src]}
          = freed \cup InQueue
            \cup (({current} \cup {waiting[p] : p \in Producers}) \ {NoEnv})
    <3>1. ASSUME NEW e \in Envelopes, e.n <= made[e.src]
          PROVE  e \in freed \/ e \in InQueue \/ e = current \/ e = waiting[e.src]
      BY <3>1, <2>2 DEF Owned, NoneLost
    <3>2. ASSUME NEW e \in Envelopes, InLog(e) PROVE e.n <= made[e.src]
      BY <3>2 DEF InLog, IInv, Pushed, Made
    <3>3. ASSUME NEW p \in Producers, waiting[p] # NoEnv
          PROVE  waiting[p] \in Envelopes /\ waiting[p].n <= made[waiting[p].src]
      BY <3>3, Waits
    <3>4. current \in Envelopes \cup {NoEnv}
      BY DEF IInv, TypeOK
    <3> QED
      BY <3>1, <3>2, <3>3, <3>4, <2>0, <2>2, <2>4, Constants DEF Owned, FreedOnce
  <2> QED
    BY <2>6, <2>7, <2>8, SlotsDiffer DEF OneOwner
<1> QED
  BY <1>1, InitIInv, NextIInv, InitOwned, OwnedStep, PTL DEF Spec
=============================================================================
