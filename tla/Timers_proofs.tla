--------------------------- MODULE Timers_proofs ---------------------------
(***************************************************************************)
(* The timers' promises for any periods, any durations asked of the LED    *)
(* and any length of a pass: a pulse is as long as asked for, the wheels   *)
(* get a command in time, and a spent timer does nothing to an LED that    *)
(* does not blink.                                                         *)
(*                                                                         *)
(* The invariant follows a timer through the loop.  At each step of a pass *)
(* it says how late the timer can be: the wait ended no later than the     *)
(* timer asked, or the pass before it took up to Lag ticks.                *)
(***************************************************************************)
EXTENDS Timers, TLAPS

\* The hoverboard's timer: it is never stopped, and what is left of it and the
\* time the wheels have waited make up a period.
Paced ==
  /\ timer["hb"].active /\ timer["hb"].reload = HbPeriod
  /\ timer["hb"].left # Overdue => quiet + timer["hb"].left <= HbPeriod + Lag
  /\ loop.pc = "receive" => loop.at = "led" /\ quiet + loop.wait <= HbPeriod + 2 * Lag
  /\ loop.pc # "receive" => quiet <= HbPeriod + 2 * Lag + pass
  /\ loop.at = "hb" /\ loop.pc = "refresh" => quiet <= pass
  /\ loop.at = "hb" /\ loop.pc = "sleep" => quiet <= HbPeriod + Lag + pass

\* A pulse that is lit: the LED's timer runs for it.
Pulsing ==
  /\ timer["led"].active /\ timer["led"].left = pulse
  /\ loop.at = "hb" \/ loop.pc = "receive" => pulse >= loop.wait - pass
  /\ loop.at = "led" /\ loop.pc \in {"scan", "deliver"} => pulse >= -Lag - pass
  /\ loop.at = "led" /\ loop.pc = "sleep" => pulse >= -pass
  /\ loop.at = "led" => loop.pc # "refresh"

Lit ==
  /\ loop.pc = "deliver" => timer[loop.at].left <= 0
  /\ led.state = "off" => ~led.pin
  /\ led.state = "on" => led.pin
  /\ led.state = "pulse" => IF led.pin THEN Pulsing ELSE pulse <= 0

IInv == TypeOK /\ Paced /\ Lit

(***************************************************************************)
(* Types                                                                   *)
(***************************************************************************)
TimerType == [active : BOOLEAN, reload : {0, LedPeriod, HbPeriod}, left : Int]
LoopType == [pc : {"receive", "scan", "deliver", "refresh", "sleep"},
             at : Actors, wait : 0..MaxSleep]
LedType == [state : {"on", "off", "blink", "pulse"}, on : BOOLEAN, pin : BOOLEAN]

LEMMA Numbers ==
  /\ LedPeriod \in Nat /\ LedPeriod >= 1 /\ HbPeriod \in Nat /\ HbPeriod >= 1
  /\ MaxSleep \in Nat /\ MaxSleep >= 1 /\ Lag \in Nat
  /\ Delays \subseteq Nat /\ Zero \in Values
  /\ Overdue \in Int /\ Overdue = -(2 * Lag + 1) /\ Overdue < 0
BY TimersAssumption DEF TimersAssumption, Overdue

LEMMA Types ==
  ASSUME TypeOK
  PROVE  /\ timer \in [Actors -> TimerType] /\ loop \in LoopType /\ led \in LedType
         /\ \A a \in Actors : timer[a] \in TimerType /\ timer[a].left \in Int
         /\ loop.at \in Actors /\ loop.wait \in 0..MaxSleep /\ loop.wait \in Nat
         /\ pass \in Nat /\ pass <= Lag /\ pulse \in Int /\ quiet \in Nat
BY Numbers DEF TypeOK, TimerType, LoopType, LedType

LEMMA Clamped ==
  ASSUME NEW n \in Int
  PROVE  /\ Sooner(n) \in Int /\ Sooner(n) >= n - 1 /\ Sooner(n) >= Overdue
         /\ Sooner(n) # Overdue => Sooner(n) = n - 1
         /\ n <= 0 => Sooner(n) <= 0
         /\ Sooner(n) <= n \/ n < Overdue
BY Numbers DEF Sooner, Higher

LEMMA InitIInv == Init => IInv
<1> SUFFICES ASSUME Init PROVE IInv
  OBVIOUS
<1> USE Numbers
<1>1. /\ timer["hb"].active = TRUE /\ timer["hb"].reload = HbPeriod
      /\ timer["hb"].left \in {Overdue, HbPeriod}
      /\ timer \in [Actors -> TimerType]
  <2>1. PICK late \in SUBSET Actors :
          timer = [a \in Actors |-> [active |-> TRUE, reload |-> Period(a),
                                    left |-> IF a \in late THEN Overdue ELSE Period(a)]]
    BY DEF Init
  <2>2. "hb" \in Actors /\ Period("hb") = HbPeriod
        /\ \A a \in Actors : Period(a) \in {LedPeriod, HbPeriod}
    BY DEF Actors, Period
  <2>3. timer["hb"] = [active |-> TRUE, reload |-> HbPeriod,
                       left |-> IF "hb" \in late THEN Overdue ELSE HbPeriod]
    BY <2>1, <2>2
  <2>4. timer \in [Actors -> TimerType]
    BY <2>1, <2>2 DEF TimerType
  <2> QED
    BY <2>3, <2>4
<1>2. /\ loop.pc = "receive" /\ loop.at = "led" /\ loop.wait = 1
      /\ led.state = "blink" /\ pass = 0 /\ pulse = 0 /\ quiet = 0
  BY DEF Init
<1>3. TypeOK
  BY <1>1, <1>2 DEF Init, TypeOK, TimerType, Actors
<1>4. Paced
  BY <1>1, <1>2 DEF Paced
<1>5. Lit
  BY <1>2 DEF Lit
<1> QED
  BY <1>3, <1>4, <1>5 DEF IInv

(***************************************************************************)
(* Time                                                                    *)
(***************************************************************************)
LEMMA TickTimers ==
  ASSUME TypeOK, Tick
  PROVE  /\ timer' \in [Actors -> TimerType]
         /\ \A a \in Actors : /\ timer'[a].active = timer[a].active
                              /\ timer'[a].reload = timer[a].reload
                              /\ timer'[a].left = Sooner(timer[a].left)
<1>1. timer' = [a \in Actors |-> [timer[a] EXCEPT !.left = Sooner(@)]]
  BY DEF Tick
<1>2. \A a \in Actors : timer[a] \in TimerType /\ Sooner(timer[a].left) \in Int
  BY Types, Clamped
<1> QED
  BY <1>1, <1>2 DEF TimerType

LEMMA TickLoop ==
  ASSUME TypeOK, Tick
  PROVE  /\ loop' \in LoopType /\ loop'.pc = loop.pc /\ loop'.at = loop.at
         /\ pass' \in 0..Lag
         /\ loop.pc = "receive" => loop'.wait = loop.wait - 1 /\ pass' = pass
         /\ loop.pc # "receive" => loop'.wait = loop.wait /\ pass' = pass + 1
<1>1. loop \in LoopType /\ loop.wait \in 0..MaxSleep /\ pass \in 0..Lag
  BY Types DEF TypeOK
<1>2. CASE loop.pc = "receive"
  <2>1. loop.wait > 0 /\ loop' = [loop EXCEPT !.wait = @ - 1] /\ pass' = pass
    BY <1>2 DEF Tick
  <2> QED
    BY <1>1, <1>2, <2>1, Numbers DEF LoopType
<1>3. CASE loop.pc # "receive"
  <2>1. pass < Lag /\ pass' = pass + 1 /\ loop' = loop
    BY <1>3 DEF Tick
  <2> QED
    BY <1>1, <1>3, <2>1, Numbers
<1> QED
  BY <1>2, <1>3

LEMMA TickIInv == IInv /\ Tick => IInv'
<1> SUFFICES ASSUME IInv, Tick PROVE IInv'
  OBVIOUS
<1> USE Numbers DEF IInv
<1>1. /\ timer' \in [Actors -> TimerType]
      /\ \A a \in Actors : /\ timer'[a].active = timer[a].active
                           /\ timer'[a].reload = timer[a].reload
                           /\ timer'[a].left = Sooner(timer[a].left)
                           /\ timer[a].left \in Int
  BY TickTimers, Types
<1>2. /\ loop' \in LoopType /\ loop'.pc = loop.pc /\ loop'.at = loop.at
      /\ pass' \in 0..Lag
      /\ loop.pc = "receive" => loop'.wait = loop.wait - 1 /\ pass' = pass
      /\ loop.pc # "receive" => loop'.wait = loop.wait /\ pass' = pass + 1
  BY TickLoop
<1>3. /\ pulse' = IF led.state = "pulse" THEN Sooner(pulse) ELSE 0
      /\ quiet' = Lower(quiet + 1, HbPeriod + 3 * Lag + 1)
      /\ UNCHANGED <<led, cmd, wheels>>
  BY DEF Tick
<1>4. pulse \in Int /\ quiet \in Nat /\ pass \in Nat /\ loop.wait \in Nat /\ loop.at \in Actors
  BY Types
<1>5. quiet' \in Nat /\ quiet' <= quiet + 1
  BY <1>3, <1>4 DEF Lower
<1>6. TypeOK'
  <2>1. pulse' \in Int
    BY <1>3, <1>4, Clamped
  <2> QED
    BY <2>1, <1>1, <1>2, <1>3, <1>5 DEF TypeOK, TimerType, LoopType
<1>7. Paced'
  <2> DEFINE n == timer["hb"].left
             m == timer'["hb"].left
  <2>1. /\ n \in Int /\ m \in Int /\ m = Sooner(n) /\ "hb" \in Actors
        /\ timer'["hb"].active = timer["hb"].active
        /\ timer'["hb"].reload = timer["hb"].reload
    BY <1>1, Clamped DEF Actors
  <2>2. timer'["hb"].active /\ timer'["hb"].reload = HbPeriod
    BY <2>1 DEF Paced
  <2>3. m # Overdue => quiet' + m <= HbPeriod + Lag
    <3>1. n # Overdue => quiet + n <= HbPeriod + Lag
      BY DEF Paced
    <3>2. m # Overdue => m = n - 1 /\ n # Overdue
      BY <2>1 DEF Sooner, Higher
    <3>3. quiet \in Nat /\ quiet' \in Nat /\ quiet' <= quiet + 1
      BY <1>4, <1>5
    <3>4. n \in Int /\ m \in Int
      BY <2>1
    <3>5. \A q, r \in Nat, i, j \in Int :
            r <= q + 1 /\ j = i - 1 /\ q + i <= HbPeriod + Lag => r + j <= HbPeriod + Lag
      OBVIOUS
    <3> HIDE DEF n, m
    <3> QED
      BY <3>1, <3>2, <3>3, <3>4, <3>5
  <2>4. /\ loop.pc = "receive" => loop.at = "led" /\ quiet + loop.wait <= HbPeriod + 2 * Lag
        /\ loop.pc # "receive" => quiet <= HbPeriod + 2 * Lag + pass
        /\ loop.at = "hb" /\ loop.pc = "refresh" => quiet <= pass
        /\ loop.at = "hb" /\ loop.pc = "sleep" => quiet <= HbPeriod + Lag + pass
    BY DEF Paced
  <2>5. /\ loop'.pc = "receive" => loop'.at = "led" /\ quiet' + loop'.wait <= HbPeriod + 2 * Lag
        /\ loop'.pc # "receive" => quiet' <= HbPeriod + 2 * Lag + pass'
        /\ loop'.at = "hb" /\ loop'.pc = "refresh" => quiet' <= pass'
        /\ loop'.at = "hb" /\ loop'.pc = "sleep" => quiet' <= HbPeriod + Lag + pass'
    <3>1. quiet' \in Nat /\ quiet' <= quiet + 1 /\ quiet \in Nat /\ loop.wait \in Nat
          /\ pass \in Nat
      BY <1>4, <1>5
    <3>2. CASE loop.pc = "receive"
      BY <3>1, <3>2, <2>4, <1>2
    <3>3. CASE loop.pc # "receive"
      BY <3>1, <3>3, <2>4, <1>2
    <3> QED
      BY <3>2, <3>3
  <2> QED
    BY <2>2, <2>3, <2>5 DEF Paced
<1>8. Lit'
  <2>1. loop'.pc = "deliver" => timer'[loop'.at].left <= 0
    BY <1>1, <1>2, <1>4, Clamped DEF Lit
  <2>2. led.state = "pulse" /\ led.pin => Pulsing'
    <3> SUFFICES ASSUME led.state = "pulse", led.pin PROVE Pulsing'
      OBVIOUS
    <3>1. Pulsing
      BY DEF Lit
    <3>2. "led" \in Actors /\ pulse' = Sooner(pulse)
      BY <1>3 DEF Actors
    <3>3. timer'["led"].active /\ timer'["led"].left = pulse'
      BY <3>1, <3>2, <1>1 DEF Pulsing
    <3>4. pulse' \in Int /\ pulse' >= pulse - 1
      BY <3>2, <1>4, Clamped
    <3>5. CASE loop.pc = "receive"
      BY <3>1, <3>3, <3>4, <3>5, <1>2, <1>4 DEF Pulsing
    <3>6. CASE loop.pc # "receive"
      BY <3>1, <3>3, <3>4, <3>6, <1>2, <1>4 DEF Pulsing
    <3> QED
      BY <3>5, <3>6
  <2>3. led.state = "pulse" /\ ~led.pin => pulse' <= 0
    BY <1>3, <1>4, Clamped DEF Lit
  <2> QED
    BY <2>1, <2>2, <2>3, <1>3 DEF Lit
<1> QED
  BY <1>6, <1>7, <1>8

(***************************************************************************)
(* Messages                                                                *)
(***************************************************************************)

\* receive ends: the timeout that follows is MaxSleep, and this pass has
\* taken no time yet
LEMMA Returned ==
  ASSUME IInv, Return
  PROVE  /\ loop' \in LoopType /\ loop'.pc = "scan" /\ loop'.at = "led"
         /\ pass' = 0 /\ quiet <= HbPeriod + 2 * Lag
         /\ (led.state = "pulse" /\ led.pin) => pulse >= -Lag
<1>1. loop \in LoopType /\ loop.wait \in Nat /\ quiet \in Nat /\ pass \in Nat /\ pass <= Lag
      /\ pulse \in Int
  BY Types DEF IInv
<1>2. loop.pc = "receive" /\ loop' = [loop EXCEPT !.pc = "scan", !.at = "led", !.wait = MaxSleep]
      /\ pass' = 0
  BY DEF Return, Received
<1>3. loop' \in LoopType /\ loop'.pc = "scan" /\ loop'.at = "led"
  <2>1. loop' = [pc |-> "scan", at |-> "led", wait |-> MaxSleep]
    BY <1>1, <1>2 DEF LoopType
  <2> QED
    BY <2>1, Numbers DEF LoopType, Actors
<1>4. quiet + loop.wait <= HbPeriod + 2 * Lag
  BY <1>2 DEF IInv, Paced
<1>5. (led.state = "pulse" /\ led.pin) => pulse >= loop.wait - pass
  BY <1>2 DEF IInv, Lit, Pulsing
<1> QED
  BY <1>1, <1>2, <1>3, <1>4, <1>5, Numbers

LEMMA ReturnPaced ==
  ASSUME IInv, Return, timer'["hb"] = timer["hb"], quiet' = quiet
  PROVE  Paced'
<1>1. /\ loop'.pc = "scan" /\ loop'.at = "led" /\ pass' = 0
      /\ quiet <= HbPeriod + 2 * Lag /\ quiet \in Nat
  BY Returned, Types DEF IInv
<1>2. /\ timer'["hb"].active /\ timer'["hb"].reload = HbPeriod
      /\ timer'["hb"].left # Overdue => quiet' + timer'["hb"].left <= HbPeriod + Lag
  BY DEF IInv, Paced, Overdue
<1> QED
  BY <1>1, <1>2, Numbers DEF Paced

\* A message that leaves the LED and its timer alone
LEMMA ReturnLit ==
  ASSUME IInv, Return, UNCHANGED <<timer, led, pulse>>
  PROVE  Lit'
<1>1. /\ loop'.pc = "scan" /\ loop'.at = "led" /\ pass' = 0
      /\ (led.state = "pulse" /\ led.pin) => pulse >= -Lag
      /\ pulse \in Int
  BY Returned, Types DEF IInv
<1>2. ASSUME led.state = "pulse", led.pin PROVE Pulsing'
  BY <1>1, <1>2, Numbers DEF IInv, Lit, Pulsing
<1>3. ASSUME led.state = "pulse", ~led.pin PROVE pulse' <= 0
  BY <1>3 DEF IInv, Lit
<1> QED
  BY <1>1, <1>2, <1>3 DEF IInv, Lit

LEMMA OtherIInv ==
  ASSUME IInv, \/ Timeout \/ OtherMessage
               \/ \E given \in SUBSET Fields, value \in Values : HoverboardCmd(given, value)
  PROVE  IInv'
<1>1. Return /\ UNCHANGED <<timer, led, wheels, quiet, pulse>>
  BY DEF Timeout, OtherMessage, HoverboardCmd, hbVars
<1>2. cmd' \in [Fields -> Values]
  BY DEF Timeout, OtherMessage, HoverboardCmd, hbVars, IInv, TypeOK
<1>3. loop' \in LoopType /\ pass' = 0
  BY <1>1, Returned
<1>4. TypeOK'
  BY <1>1, <1>2, <1>3, Numbers DEF IInv, TypeOK, LoopType
<1> QED
  BY <1>1, <1>4, ReturnPaced, ReturnLit DEF IInv

LEMMA LedMessageIInv ==
  ASSUME IInv, \/ LedOn \/ LedOff
               \/ \E d \in Delays : LedPulse(d) \/ LedBlink(d)
  PROVE  IInv'
<1> USE Numbers
<1>1. /\ timer \in [Actors -> TimerType] /\ led \in LedType
      /\ Actors = {"led", "hb"}
  BY Types DEF IInv, Actors
<1>2. Return /\ UNCHANGED hbVars
  BY DEF LedOn, LedOff, LedPulse, LedBlink
<1>3. loop' \in LoopType /\ loop'.pc = "scan" /\ loop'.at = "led" /\ pass' = 0
  BY <1>2, Returned
<1>4. ASSUME led' \in LedType, timer' \in [Actors -> TimerType],
             timer'["hb"] = timer["hb"], pulse' \in Int, Lit'
      PROVE  IInv'
  <2>1. TypeOK'
    BY <1>2, <1>3, <1>4 DEF IInv, TypeOK, LoopType, LedType, TimerType, hbVars
  <2>2. Paced'
    BY <1>2, <1>4, ReturnPaced DEF hbVars
  <2> QED
    BY <2>1, <2>2, <1>4 DEF IInv
<1>5. CASE LedOn \/ LedOff
  <2>1. timer' = timer /\ pulse' = 0
    BY <1>5 DEF LedOn, LedOff
  <2>2. led' \in LedType
    <3>1. CASE LedOn
      BY <1>1, <3>1 DEF LedOn, LedType
    <3>2. CASE LedOff
      BY <1>1, <3>2 DEF LedOff, LedType
    <3> QED
      BY <1>5, <3>1, <3>2
  <2>3. Lit'
    BY <1>1, <1>3, <1>5 DEF LedOn, LedOff, Lit, LedType
  <2> QED
    BY <2>1, <2>2, <2>3, <1>1, <1>4
<1>6. ASSUME NEW d \in Delays, LedPulse(d) \/ LedBlink(d) PROVE IInv'
  <2>1. /\ timer' = [timer EXCEPT !["led"] = Fire(d)] /\ d \in Nat
        /\ pulse' \in {0, d}
    BY <1>6 DEF LedPulse, LedBlink
  <2>2. Fire(d) \in TimerType /\ Fire(d).active /\ Fire(d).left = d
    BY <2>1 DEF Fire, TimerType
  <2>3. timer' \in [Actors -> TimerType] /\ timer'["hb"] = timer["hb"] /\ timer'["led"] = Fire(d)
    BY <1>1, <2>1, <2>2
  <2>4. led' \in LedType
    <3>1. CASE LedPulse(d)
      BY <3>1, Zenon DEF LedPulse, LedType
    <3>2. CASE LedBlink(d)
      BY <3>2, Zenon DEF LedBlink, LedType
    <3> QED
      BY <3>1, <3>2, <1>6
  <2>5. Lit'
    <3>1. CASE LedPulse(d)
      <4>1. led'.state = "pulse" /\ led'.pin /\ pulse' = d
        BY <3>1 DEF LedPulse
      <4>2. Pulsing'
        BY <4>1, <2>1, <2>2, <2>3, <1>3 DEF Pulsing
      <4> QED
        BY <4>1, <4>2, <1>3 DEF Lit
    <3>2. CASE LedBlink(d)
      BY <3>2, <1>3 DEF LedBlink, Lit
    <3> QED
      BY <3>1, <3>2, <1>6
  <2> QED
    BY <2>1, <2>3, <2>4, <2>5, <1>4
<1> QED
  BY <1>5, <1>6

(***************************************************************************)
(* A pass over the timers                                                  *)
(***************************************************************************)
LEMMA PassTypes ==
  ASSUME TypeOK, \/ Scan \/ LedOnTimer \/ HbOnTimer \/ RefreshTimer
  PROVE  /\ loop' \in LoopType /\ loop'.at = loop.at /\ loop'.wait = loop.wait
         /\ pass' = pass /\ pulse' = pulse
         /\ loop'.pc = IF Scan
                       THEN IF IsExpired(timer[loop.at]) THEN "deliver" ELSE "sleep"
                       ELSE IF RefreshTimer THEN "sleep" ELSE "refresh"
<1>1. loop \in LoopType
  BY Types
<1>2. CASE Scan
  <2>1. PICK to \in {"deliver", "sleep"} :
          /\ loop' = [loop EXCEPT !.pc = to]
          /\ to = IF IsExpired(timer[loop.at]) THEN "deliver" ELSE "sleep"
    BY <1>2 DEF Scan
  <2> QED
    BY <2>1, <1>1, <1>2 DEF LoopType, Scan
<1>3. CASE LedOnTimer \/ HbOnTimer
  BY <1>1, <1>3 DEF LoopType, LedOnTimer, HbOnTimer, Scan, RefreshTimer
<1>4. CASE RefreshTimer
  BY <1>1, <1>4 DEF LoopType, RefreshTimer, Scan
<1> QED
  BY <1>2, <1>3, <1>4

LEMMA ScanIInv == ASSUME IInv, Scan PROVE IInv'
<1> USE Numbers DEF IInv
<1>1. /\ loop.pc = "scan" /\ loop' \in LoopType /\ loop'.at = loop.at
      /\ loop'.wait = loop.wait
      /\ loop'.pc = IF timer[loop.at].left <= 0 THEN "deliver" ELSE "sleep"
      /\ UNCHANGED <<timer, led, cmd, wheels, quiet, pass, pulse>>
  BY PassTypes DEF Scan, IsExpired, hbVars
<1>2. /\ loop.at \in {"led", "hb"} /\ \A a \in {"led", "hb"} : timer[a].left \in Int
      /\ pass \in Nat /\ pulse \in Int /\ quiet \in Nat
  BY Types DEF Actors
<1>3. TypeOK'
  BY <1>1 DEF TypeOK, LoopType
<1>4. Paced'
  <2>1. CASE loop.at = "hb" /\ loop'.pc = "sleep"
    <3>1. timer["hb"].left > 0 /\ timer["hb"].left \in Int
      BY <2>1, <1>1, <1>2
    <3>2. quiet <= HbPeriod + Lag + pass
      BY <3>1, <1>2 DEF Paced
    <3> QED
      BY <2>1, <3>2, <1>1 DEF Paced, Overdue
  <2>2. CASE ~(loop.at = "hb" /\ loop'.pc = "sleep")
    BY <2>2, <1>1 DEF Paced, Overdue
  <2> QED
    BY <2>1, <2>2
<1>5. Lit'
  <2>1. ASSUME Pulsing PROVE Pulsing'
    BY <2>1, <1>1, <1>2 DEF Pulsing
  <2> QED
    BY <2>1, <1>1 DEF Lit
<1> QED
  BY <1>3, <1>4, <1>5

LEMMA HbOnTimerIInv == ASSUME IInv, HbOnTimer PROVE IInv'
<1> USE Numbers DEF IInv
<1>1. /\ loop.pc = "deliver" /\ loop.at = "hb" /\ loop' \in LoopType /\ loop'.at = "hb"
      /\ loop'.wait = loop.wait /\ loop'.pc = "refresh"
      /\ quiet' = 0 /\ wheels' = cmd
      /\ UNCHANGED <<timer, led, cmd, pass, pulse>>
  BY PassTypes DEF HbOnTimer, Scan, RefreshTimer
<1>2. /\ pass \in Nat /\ quiet \in Nat /\ timer["hb"].left \in Int
  BY Types DEF Actors
<1>3. TypeOK'
  BY <1>1 DEF TypeOK, LoopType
<1>4. Paced'
  BY <1>1, <1>2 DEF Paced, Overdue
<1>5. Lit'
  BY <1>1 DEF Lit, Pulsing
<1> QED
  BY <1>3, <1>4, <1>5

\* The LED's timer is stopped or left as it is
LEMMA Stopped ==
  ASSUME TypeOK, LedOnTimer
  PROVE  /\ timer' \in [Actors -> TimerType] /\ timer'["hb"] = timer["hb"]
<1>1. timer \in [Actors -> TimerType] /\ Actors = {"led", "hb"}
  BY Types DEF Actors
<1>2. Stop(timer["led"]) \in TimerType
  BY <1>1, Zenon DEF Stop, TimerType
<1>3. timer' = timer \/ timer' = [timer EXCEPT !["led"] = Stop(timer["led"])]
  BY DEF LedOnTimer
<1> HIDE DEF TimerType
<1> QED
  BY <1>1, <1>2, <1>3

LEMMA Switched ==
  ASSUME TypeOK, LedOnTimer
  PROVE  /\ led' \in LedType /\ led'.state = led.state
         /\ led.state = "off" => ~led'.pin
         /\ led.state = "on" => led'.pin
         /\ led.state = "pulse" => ~led'.pin
<1>1. led \in LedType
  BY Types
<1>2. CASE led.state = "off"
  BY <1>1, <1>2 DEF LedOnTimer, LedType
<1>3. CASE led.state = "on"
  BY <1>1, <1>3 DEF LedOnTimer, LedType
<1>4. CASE led.state = "blink"
  BY <1>1, <1>4 DEF LedOnTimer, LedType
<1>5. CASE led.state = "pulse"
  BY <1>1, <1>5 DEF LedOnTimer, LedType
<1> QED
  BY <1>1, <1>2, <1>3, <1>4, <1>5 DEF LedType

LEMMA LedOnTimerIInv == ASSUME IInv, LedOnTimer PROVE IInv'
<1> USE Numbers DEF IInv
<1>1. /\ loop.pc = "deliver" /\ loop.at = "led" /\ loop' \in LoopType /\ loop'.at = "led"
      /\ loop'.wait = loop.wait /\ loop'.pc = "refresh"
      /\ UNCHANGED <<cmd, wheels, quiet, pass, pulse>>
  BY PassTypes DEF LedOnTimer, Scan, RefreshTimer, hbVars
<1>2. /\ timer' \in [Actors -> TimerType] /\ timer'["hb"] = timer["hb"]
      /\ led' \in LedType
  BY Stopped, Switched
<1>3. TypeOK'
  BY <1>1, <1>2 DEF TypeOK, LoopType, TimerType, LedType
<1>4. Paced'
  BY <1>1, <1>2 DEF Paced, Overdue
<1>5. Lit'
  <2>1. led.state = "pulse" => pulse <= 0
    BY <1>1 DEF Lit, Pulsing
  <2> QED
    BY <2>1, <1>1, Switched DEF Lit
<1> QED
  BY <1>3, <1>4, <1>5

LEMMA RefreshIInv == ASSUME IInv, RefreshTimer PROVE IInv'
<1> USE Numbers DEF IInv
<1>1. /\ loop.pc = "refresh" /\ loop' \in LoopType /\ loop'.at = loop.at
      /\ loop'.wait = loop.wait /\ loop'.pc = "sleep"
      /\ timer' = [timer EXCEPT ![loop.at] = Refresh(timer[loop.at])]
      /\ UNCHANGED <<led, cmd, wheels, quiet, pass, pulse>>
  BY PassTypes DEF RefreshTimer, Scan, hbVars
<1>2. /\ timer \in [Actors -> TimerType] /\ loop.at \in Actors /\ Actors = {"led", "hb"}
      /\ pass \in Nat /\ quiet \in Nat /\ pulse \in Int /\ loop.wait \in Nat
  BY Types DEF Actors
<1>3. Refresh(timer[loop.at]) \in TimerType
  <2> SUFFICES ASSUME NEW t \in TimerType PROVE Refresh(t) \in TimerType
    BY <1>2
  <2>1. CASE t.active /\ t.reload > 0
    BY <2>1 DEF Refresh, TimerType
  <2>2. CASE ~(t.active /\ t.reload > 0)
    <3>1. Refresh(t) = [t EXCEPT !.active = t.active /\ t.left >= 0]
      BY <2>2, Zenon DEF Refresh
    <3>2. (t.active /\ t.left >= 0) \in BOOLEAN
      OBVIOUS
    <3> QED
      BY <3>1, <3>2, Zenon DEF TimerType
  <2> QED
    BY <2>1, <2>2
<1>4. timer' \in [Actors -> TimerType]
  BY <1>1, <1>2, <1>3
<1>5. TypeOK'
  BY <1>1, <1>4 DEF TypeOK, LoopType, TimerType
<1>6. Paced'
  <2>1. CASE loop.at = "hb"
    <3>1. timer'["hb"] = Refresh(timer["hb"])
      BY <2>1, <1>1, <1>2
    <3>2. timer["hb"].active /\ timer["hb"].reload = HbPeriod /\ timer["hb"] \in TimerType
      BY <1>2 DEF Paced
    <3>3. timer'["hb"].active /\ timer'["hb"].reload = HbPeriod /\ timer'["hb"].left = HbPeriod
      BY <3>1, <3>2 DEF Refresh, TimerType
    <3>4. quiet <= pass /\ pass <= Lag
      BY <2>1, <1>1 DEF Paced, TypeOK
    <3> QED
      BY <2>1, <3>3, <3>4, <1>1, <1>2 DEF Paced
  <2>2. CASE loop.at = "led"
    <3>1. timer'["hb"] = timer["hb"]
      BY <2>2, <1>1, <1>2
    <3> QED
      BY <2>2, <3>1, <1>1 DEF Paced, Overdue
  <2> QED
    BY <2>1, <2>2, <1>2
<1>7. Lit'
  <2>1. ASSUME Pulsing PROVE Pulsing'
    <3>1. loop.at = "hb"
      BY <2>1, <1>1, <1>2 DEF Pulsing
    <3>2. timer'["led"] = timer["led"]
      BY <3>1, <1>1, <1>2
    <3> QED
      BY <2>1, <3>1, <3>2, <1>1 DEF Pulsing
  <2> QED
    BY <2>1, <1>1 DEF Lit
<1> QED
  BY <1>5, <1>6, <1>7

LEMMA SleepIInv == ASSUME IInv, TakeSleepTime PROVE IInv'
<1> USE Numbers DEF IInv
<1> DEFINE z == SleepTime(timer[loop.at])
<1>1. /\ timer \in [Actors -> TimerType] /\ loop \in LoopType /\ loop.at \in Actors
      /\ Actors = {"led", "hb"} /\ loop.wait \in 0..MaxSleep
      /\ pass \in Nat /\ pass <= Lag /\ quiet \in Nat /\ pulse \in Int
      /\ \A a \in Actors : timer[a].left \in Int
  BY Types DEF Actors
<1>2. /\ z \in Nat
      /\ timer[loop.at].active => z = Higher(timer[loop.at].left, 0)
  BY <1>1 DEF SleepTime, Higher
<1>3. /\ loop.pc = "sleep"
      /\ loop' = [pc   |-> IF loop.at = "hb" THEN "receive" ELSE "scan",
                  at   |-> IF loop.at = "led" THEN "hb" ELSE "led",
                  wait |-> Lower(loop.wait, z)]
      /\ UNCHANGED <<timer, led, cmd, wheels, quiet, pass, pulse>>
  BY DEF TakeSleepTime, hbVars
<1> HIDE DEF z
<1>4. /\ loop'.wait \in 0..MaxSleep /\ loop'.wait <= loop.wait /\ loop'.wait <= z
      /\ loop' \in LoopType
      /\ loop.at = "hb" => loop'.pc = "receive" /\ loop'.at = "led"
      /\ loop.at = "led" => loop'.pc = "scan" /\ loop'.at = "hb"
  BY <1>1, <1>2, <1>3 DEF Lower, LoopType
<1>5. TypeOK'
  BY <1>3, <1>4 DEF TypeOK, LoopType
<1>6. Paced'
  <2>1. CASE loop.at = "hb"
    <3>1. quiet <= HbPeriod + Lag + pass /\ z = Higher(timer["hb"].left, 0)
      BY <2>1, <1>2, <1>3 DEF Paced
    <3>2. timer["hb"].left > 0 => quiet + timer["hb"].left <= HbPeriod + Lag
      BY DEF Paced
    <3>3. quiet + loop'.wait <= HbPeriod + 2 * Lag
      <4>1. CASE timer["hb"].left > 0
        BY <4>1, <3>1, <3>2, <1>1, <1>4 DEF Higher
      <4>2. CASE timer["hb"].left <= 0
        BY <4>2, <3>1, <1>1, <1>4 DEF Higher
      <4> QED
        BY <4>1, <4>2, <1>1
    <3> QED
      BY <2>1, <3>3, <1>3, <1>4 DEF Paced, Overdue
  <2>2. CASE loop.at = "led"
    BY <2>2, <1>3, <1>4 DEF Paced, Overdue
  <2> QED
    BY <2>1, <2>2, <1>1
<1>7. Lit'
  <2>1. ASSUME Pulsing PROVE Pulsing'
    <3>1. pulse >= loop'.wait - pass
      <4>1. CASE loop.at = "hb"
        BY <2>1, <4>1, <1>1, <1>4 DEF Pulsing
      <4>2. CASE loop.at = "led"
        <5>1. z = Higher(pulse, 0) /\ pulse >= -pass
          BY <2>1, <4>2, <1>2, <1>3 DEF Pulsing
        <5> QED
          BY <5>1, <1>1, <1>4 DEF Higher
      <4> QED
        BY <4>1, <4>2, <1>1
    <3> QED
      BY <2>1, <3>1, <1>1, <1>3, <1>4 DEF Pulsing
  <2> QED
    BY <2>1, <1>1, <1>3, <1>4 DEF Lit
<1> QED
  BY <1>5, <1>6, <1>7

(***************************************************************************)
(* The specification                                                       *)
(***************************************************************************)
LEMMA NextIInv == IInv /\ [Next]_vars => IInv'
<1> SUFFICES ASSUME IInv, [Next]_vars PROVE IInv'
  OBVIOUS
<1>1. CASE UNCHANGED vars
  BY <1>1 DEF vars, hbVars, IInv, TypeOK, Paced, Lit, Pulsing
<1>2. CASE Next
  BY <1>2, TickIInv, OtherIInv, LedMessageIInv, ScanIInv, LedOnTimerIInv, HbOnTimerIInv,
     RefreshIInv, SleepIInv DEF Next, Message, PassStep
<1> QED
  BY <1>1, <1>2

LEMMA Invariance == Spec => []IInv
BY InitIInv, NextIInv, PTL DEF Spec

\* Every variable keeps its type: no step of the loop waits longer than
\* MaxSleep, or a negative time.
THEOREM TypeCorrect == Spec => []TypeOK
<1>1. IInv => TypeOK
  BY DEF IInv
<1> QED
  BY <1>1, Invariance, PTL

\* A pulse is as long as asked for, and at most two passes of the loop longer.
THEOREM PulseIsLong == Spec => []PulseLength
<1>1. IInv => PulseLength
  <2> SUFFICES ASSUME IInv, led.state = "pulse"
               PROVE  IF led.pin THEN pulse >= -2 * Lag ELSE pulse <= 0
    BY DEF PulseLength
  <2>1. /\ pulse \in Int /\ pass \in Nat /\ pass <= Lag /\ loop.wait \in Nat
        /\ loop \in LoopType
    BY Types DEF IInv
  <2>2. CASE ~led.pin
    BY <2>2 DEF IInv, Lit
  <2>3. CASE led.pin
    <3>1. Pulsing
      BY <2>3 DEF IInv, Lit
    <3>2. pulse >= -pass \/ pulse >= -Lag - pass
      BY <3>1, <2>1, Numbers DEF Pulsing, LoopType, Actors
    <3> QED
      BY <2>3, <3>2, <2>1, Numbers
  <2> QED
    BY <2>2, <2>3
<1> QED
  BY <1>1, Invariance, PTL

\* The wheels get a command within a period and three passes of the loop.
THEOREM WheelsInTime == Spec => []CommandPace
<1>1. IInv => CommandPace
  BY Types, Numbers DEF IInv, Paced, CommandPace
<1> QED
  BY <1>1, Invariance, PTL

\* A stopped timer is delivered again and again, and changes nothing unless
\* the LED blinks.
THEOREM SpentIsHarmless == Spec => SpentTimerIsHarmless
<1>1. IInv /\ [Next]_vars =>
        [loop.pc = "deliver" /\ ~timer[loop.at].active /\ led.state # "blink"
           => led'.pin = led.pin]_vars
  <2> SUFFICES ASSUME IInv, Next, loop.pc = "deliver", ~timer[loop.at].active,
                      led.state # "blink"
               PROVE  led'.pin = led.pin
    OBVIOUS
  <2>1. led' = led \/ LedOnTimer
    BY DEF Next, Tick, Timeout, Message, PassStep, OtherMessage, LedOn, LedOff, LedPulse,
           LedBlink, HoverboardCmd, Return, Scan, HbOnTimer, RefreshTimer, TakeSleepTime
  <2>2. CASE LedOnTimer
    <3>1. led \in LedType /\ led' \in LedType /\ loop.at = "led"
      BY <2>2, Types, Switched DEF IInv, LedOnTimer
    <3>2. CASE led.state = "off"
      BY <2>2, <3>1, <3>2, Switched, Zenon DEF IInv, Lit, LedType
    <3>3. CASE led.state = "on"
      BY <2>2, <3>1, <3>3, Switched DEF IInv, Lit, LedType
    <3>4. CASE led.state = "pulse"
      BY <2>2, <3>1, <3>4, Switched DEF IInv, Lit, Pulsing, LedType
    <3> QED
      BY <3>1, <3>2, <3>3, <3>4 DEF LedType
  <2> QED
    BY <2>1, <2>2
<1> QED
  BY <1>1, Invariance, PTL DEF Spec, SpentTimerIsHarmless
=============================================================================
