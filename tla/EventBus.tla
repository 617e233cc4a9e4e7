------------------------------ MODULE EventBus ------------------------------
(***************************************************************************)
(* The actor event bus of the ESP32 firmware: a bounded FreeRTOS queue of  *)
(* envelope pointers, filled by every task of the firmware and drained by  *)
(* the one task that runs EventBus::loop.  The loop starts the actors,     *)
(* gives each envelope to all of them in registration order, frees it,     *)
(* and runs their expired timers.                                          *)
(*                                                                         *)
(* Actor callbacks run inside the loop's task and may push themselves: on  *)
(* a full queue the loop then waits for room that only the loop can make.  *)
(* A push that finds no room within its timeout deletes the envelope.      *)
(***************************************************************************)
EXTENDS Naturals, Sequences, FiniteSets

CONSTANTS
  N,        \* actors, in registration order
  Tasks,    \* other tasks that push (Wi-Fi events, UART, UDP listeners)
  Cap,      \* queue depth (200 in the code)
  MaxSent,  \* bound: envelopes each producer creates
  None

ASSUME EventBusAssumption ==
  /\ N \in Nat \ {0}
  /\ Cap \in Nat \ {0}
  /\ MaxSent \in Nat
  /\ None \notin Tasks \cup {"loop"}

Actors    == 1..N
Producers == Tasks \cup {"loop"}
Envelopes == [src : Producers, n : 1..MaxSent]
NoEnv     == [src |-> None, n |-> 0]

VARIABLES
  queue,    \* the FreeRTOS queue
  pc,       \* what EventBus::loop is doing
  actor,    \* the actor it is calling
  inside,   \* whether that actor's callback is running
  current,  \* the envelope being dispatched
  waiting,  \* per producer, the envelope it waits to push
  made,     \* per producer, how many envelopes it created
  freed,    \* envelopes deleted
  started,  \* actors whose on_start has returned
  log,      \* history: envelopes in the order the queue took them
  seen      \* history: envelopes each actor was given

vars == <<queue, pc, actor, inside, current, waiting, made, freed, started, log, seen>>
loopVars == <<pc, actor, inside, current, started, seen>>

Init ==
  /\ queue = <<>>
  /\ pc = "start"
  /\ actor = 1
  /\ inside = FALSE
  /\ current = NoEnv
  /\ waiting = [p \in Producers |-> NoEnv]
  /\ made = [p \in Producers |-> 0]
  /\ freed = {}
  /\ started = {}
  /\ log = <<>>
  /\ seen = [a \in Actors |-> <<>>]

----------------------------------------------------------------------------
\* EventBus::push, from any task

RoomOffByOne == Len(queue) <= Cap
Room == Len(queue) < Cap

EnqueueFront(e) == queue' = <<e>> \o queue /\ log' = Append(log, e)
Enqueue(e) == queue' = Append(queue, e) /\ log' = Append(log, e)

\* xQueueSend succeeds at once or the producer waits
PushBegin(p) ==
  /\ waiting[p] = NoEnv
  /\ made[p] < MaxSent
  /\ made' = [made EXCEPT ![p] = @ + 1]
  /\ LET e == [src |-> p, n |-> made[p] + 1] IN
       IF Room THEN Enqueue(e) /\ UNCHANGED waiting
               ELSE waiting' = [waiting EXCEPT ![p] = e] /\ UNCHANGED <<queue, log>>
  /\ UNCHANGED <<loopVars, freed>>

TaskPush(t) == t \in Tasks /\ PushBegin(t)
LoopPush    == inside /\ PushBegin("loop")

PushResumes(p) ==
  /\ waiting[p] # NoEnv
  /\ Room
  /\ Enqueue(waiting[p])
  /\ waiting' = [waiting EXCEPT ![p] = NoEnv]
  /\ UNCHANGED <<loopVars, made, freed>>

PushLeaks(p) ==
  /\ waiting[p] # NoEnv
  /\ ~Room
  /\ waiting' = [waiting EXCEPT ![p] = NoEnv]
  /\ UNCHANGED <<loopVars, queue, made, freed, log>>
PushRetries(p) ==
  /\ waiting[p] # NoEnv
  /\ ~Room
  /\ UNCHANGED vars

\* 100 ticks without room: the envelope is deleted
PushDrops(p) ==
  /\ waiting[p] # NoEnv
  /\ ~Room
  /\ freed' = freed \cup {waiting[p]}
  /\ waiting' = [waiting EXCEPT ![p] = NoEnv]
  /\ UNCHANGED <<loopVars, queue, made, log>>

----------------------------------------------------------------------------
\* EventBus::loop.  A callback is a step in and a step out; between them the
\* actor may push.

Enter(at) == pc = at /\ ~inside /\ inside' = TRUE

Leave(at) == pc = at /\ inside /\ waiting["loop"] = NoEnv /\ inside' = FALSE

NextActorButLast(then) ==
  IF actor < N - 1 THEN actor' = actor + 1 /\ UNCHANGED pc
                   ELSE actor' = 1 /\ pc' = then
NextActor(then) ==
  IF actor < N THEN actor' = actor + 1 /\ UNCHANGED pc
               ELSE actor' = 1 /\ pc' = then

StartActor ==
  /\ Enter("start")
  /\ UNCHANGED <<queue, pc, actor, current, waiting, made, freed, started, log, seen>>

ActorStartedAlone ==
  /\ Leave("start")
  /\ actor' = 1 /\ pc' = "receive"
  /\ started' = started \cup {actor}
  /\ UNCHANGED <<queue, current, waiting, made, freed, log, seen>>
ActorStarted ==
  /\ Leave("start")
  /\ NextActor("receive")
  /\ started' = started \cup {actor}
  /\ UNCHANGED <<queue, current, waiting, made, freed, log, seen>>

Receive ==
  /\ pc = "receive"
  /\ queue # <<>>
  /\ pc' = "dispatch"
  /\ current' = Head(queue)
  /\ queue' = Tail(queue)
  /\ UNCHANGED <<actor, inside, waiting, made, freed, started, log, seen>>

ReceiveTimeout ==
  /\ pc = "receive"
  /\ queue = <<>>
  /\ pc' = "timers"
  /\ UNCHANGED <<queue, actor, inside, current, waiting, made, freed, started, log, seen>>

OnMessage ==
  /\ Enter("dispatch")
  /\ seen' = [seen EXCEPT ![actor] = Append(@, current)]
  /\ UNCHANGED <<queue, pc, actor, current, waiting, made, freed, started, log>>

MessageHandled ==
  /\ Leave("dispatch")
  /\ NextActor("timers")
  /\ IF actor = N THEN freed' = freed \cup {current} /\ current' = NoEnv
                  ELSE UNCHANGED <<freed, current>>
  /\ UNCHANGED <<queue, waiting, made, started, log, seen>>

\* the actor's expired timers, none or some
RunTimers ==
  /\ Enter("timers")
  /\ UNCHANGED <<queue, pc, actor, current, waiting, made, freed, started, log, seen>>

TimersRun ==
  /\ Leave("timers")
  /\ NextActor("receive")
  /\ UNCHANGED <<queue, current, waiting, made, freed, started, log, seen>>

LoopStep == \/ StartActor \/ ActorStarted
            \/ Receive \/ ReceiveTimeout
            \/ OnMessage \/ MessageHandled
            \/ RunTimers \/ TimersRun

Next ==
  \/ \E t \in Tasks : TaskPush(t)
  \/ LoopPush
  \/ \E p \in Producers : PushResumes(p) \/ PushDrops(p)
  \/ LoopStep

Spec == Init /\ [][Next]_vars

\* FreeRTOS runs the loop's task, and a timed wait for the queue ends.
Fairness ==
  /\ WF_vars(LoopStep)
  /\ \A p \in Producers : WF_vars(PushResumes(p) \/ PushDrops(p))

LiveSpec == Spec /\ Fairness

----------------------------------------------------------------------------
\* Properties

InQueue == {queue[i] : i \in 1..Len(queue)}

TypeOK ==
  /\ queue \in Seq(Envelopes) /\ Len(queue) <= Cap
  /\ pc \in {"start", "receive", "dispatch", "timers"}
  /\ actor \in Actors
  /\ inside \in BOOLEAN
  /\ current \in Envelopes \cup {NoEnv}
  /\ waiting \in [Producers -> Envelopes \cup {NoEnv}]
  /\ made \in [Producers -> 0..MaxSent]
  /\ freed \subseteq Envelopes
  /\ started \subseteq Actors
  /\ log \in Seq(Envelopes)
  /\ seen \in [Actors -> Seq(Envelopes)]

\* Every envelope that was created and not deleted has one owner: a producer
\* that waits, one slot of the queue, or the loop.  No pointer is used after
\* its delete, none is deleted twice, none is lost.
OneOwner ==
  /\ freed \cap (InQueue \cup {current} \cup {waiting[p] : p \in Producers}) = {}
  /\ Cardinality(InQueue) = Len(queue)
  /\ InQueue \cap ({current} \cup {waiting[p] : p \in Producers}) = {}
  /\ {e \in Envelopes : e.n <= made[e.src]}
       = freed \cup InQueue
         \cup (({current} \cup {waiting[p] : p \in Producers}) \ {NoEnv})

\* The bus is a broadcast: all actors see the accepted envelopes, each once,
\* in the same order, however many tasks push and whatever is dropped.
BC == INSTANCE Broadcast
Broadcasts == BC!Spec

\* Every actor sees what one producer pushed in the order it was pushed,
\* whichever pushes had to wait and whichever were dropped.
SourceOrder ==
  \A a \in Actors : \A i, j \in 1..Len(seen[a]) :
    i < j /\ seen[a][i].src = seen[a][j].src => seen[a][i].n < seen[a][j].n

\* No actor is given an envelope before every actor has started.
StartedBeforeMessages == (\E a \in Actors : seen[a] # <<>>) => started = Actors

\* Every envelope the queue accepts reaches every actor and is deleted.
Delivered(e) == e \in freed /\ \A a \in Actors : \E i \in 1..Len(seen[a]) : seen[a][i] = e
AcceptedIsDelivered == \A e \in Envelopes : e \in InQueue ~> Delivered(e)

\* A push never blocks its task for ever, not even the loop's own push into a
\* full queue.
PushEnds == \A p \in Producers : waiting[p] # NoEnv ~> waiting[p] = NoEnv
=============================================================================
