------------------------------- MODULE Timers -------------------------------
(***************************************************************************)
(* The timers of the firmware's actors and the part of EventBus::loop that *)
(* serves them, with the two actors whose behaviour is their timer: the    *)
(* LED, and the hoverboard that repeats its last command to the wheels.    *)
(*                                                                         *)
(* Time is relative: a timer knows how many ticks are left to its expiry,  *)
(* negative once it is overdue.  The clock is read anew at every step of a *)
(* pass, and up to Lag ticks go by between two waits of the loop; a wait   *)
(* ends when its timeout has run down or a message arrives.                *)
(***************************************************************************)
EXTENDS Integers

CONSTANTS
  LedPeriod,  \* the LED's first, repetitive timer, 100 ms
  HbPeriod,   \* the hoverboard's repetitive timer, 100 ms
  Delays,     \* durations and intervals in the messages to the LED
  Values,     \* speeds and steers
  Zero,       \* the initial speed and steer
  MaxSleep,   \* the loop's longest timeout, 1000 ms
  Lag         \* bound: ticks that one pass of the loop can take

ASSUME TimersAssumption ==
  /\ LedPeriod \in Nat \ {0} /\ HbPeriod \in Nat \ {0}
  /\ Delays \subseteq Nat
  /\ Zero \in Values
  /\ MaxSleep \in Nat \ {0}
  /\ Lag \in Nat

Actors == {"led", "hb"}
Fields == {"speed", "steer"}

VARIABLES
  timer,  \* the Timer of each actor: active, its reload period or 0, ticks left
  loop,   \* EventBus::loop: its step, the actor it is at, the timeout
  led,    \* LedActor: its state, _led_is_on, and the level of the pin
  cmd,    \* HoverboardActor: _speed and _steer
  wheels, \* the command last written to the wheels
  pass,   \* ticks gone by since the loop last waited
  pulse,  \* history: what is left of the pulse last asked for
  quiet   \* history: ticks since the wheels got a command

vars == <<timer, loop, led, cmd, wheels, pass, pulse, quiet>>
hbVars == <<cmd, wheels, quiet>>

\* Ticks are counted down to here: the latest a timer can be, and one more
Overdue == -(2 * Lag + 1)

\* The hoverboard's other timer, of 5 s, does nothing: it ends waits, as
\* OtherMessage does.
Period(a) == IF a = "led" THEN LedPeriod ELSE HbPeriod

\* The Wi-Fi actor's on_start comes between the constructors and the loop: a
\* timer may be long overdue by then.
Init ==
  /\ \E late \in SUBSET Actors :
       timer = [a \in Actors |-> [active |-> TRUE, reload |-> Period(a),
                                 left |-> IF a \in late THEN Overdue ELSE Period(a)]]
  /\ loop = [pc |-> "receive", at |-> "led", wait |-> 1]
  /\ led = [state |-> "blink", on |-> FALSE, pin |-> FALSE]
  /\ cmd = [f \in Fields |-> Zero]
  /\ wheels = cmd
  /\ pass = 0 /\ pulse = 0 /\ quiet = 0

----------------------------------------------------------------------------
\* Timer and Timers

Lower(a, b) == IF a < b THEN a ELSE b
Higher(a, b) == IF a > b THEN a ELSE b

Fire(d) == [active |-> TRUE, reload |-> 0, left |-> d]
Stop(t) == [t EXCEPT !.active = FALSE]

\* Mutant: only an active timer expires
IsExpiredActive(t) == t.active /\ t.left <= 0
\* _active makes no difference: a stopped timer goes on expiring
IsExpired(t) == t.left <= 0

Refresh(t) ==
  IF t.active /\ t.reload > 0 THEN [t EXCEPT !.left = t.reload]
                              ELSE [t EXCEPT !.active = @ /\ t.left >= 0]

\* Mutants: no look at the clock before the subtraction; a fixed timeout
SleepTimeUnguarded(t) == IF t.active THEN t.left ELSE MaxSleep
SleepTimeFixed(t) == MaxSleep
SleepTime(t) == IF t.active THEN Higher(t.left, 0) ELSE MaxSleep

----------------------------------------------------------------------------
\* Time

Sooner(n) == Higher(n - 1, Overdue)

Tick ==
  /\ IF loop.pc = "receive"
     THEN loop.wait > 0 /\ loop' = [loop EXCEPT !.wait = @ - 1] /\ pass' = pass
     ELSE pass < Lag /\ pass' = pass + 1 /\ loop' = loop
  /\ timer' = [a \in Actors |-> [timer[a] EXCEPT !.left = Sooner(@)]]
  /\ pulse' = IF led.state = "pulse" THEN Sooner(pulse) ELSE 0
  /\ quiet' = Lower(quiet + 1, HbPeriod + 3 * Lag + 1)
  /\ UNCHANGED <<led, cmd, wheels>>

----------------------------------------------------------------------------
\* The loop: receive, on_message, then every actor's expired timers

Received == [loop EXCEPT !.pc = "scan", !.at = "led", !.wait = MaxSleep]

Return ==
  /\ loop.pc = "receive"
  /\ loop' = Received
  /\ pass' = 0

Timeout ==
  /\ Return
  /\ loop.wait = 0
  /\ UNCHANGED <<timer, led, hbVars, pulse>>

\* a message for neither of the two actors
OtherMessage ==
  /\ Return
  /\ UNCHANGED <<timer, led, hbVars, pulse>>

LedOn ==
  /\ Return
  /\ led' = [led EXCEPT !.state = "on", !.pin = TRUE]
  /\ pulse' = 0
  /\ UNCHANGED <<timer, hbVars>>

\* Mutant: the timer is left to switch the pin off
LedOffLater ==
  /\ Return
  /\ led' = [led EXCEPT !.state = "off"]
  /\ pulse' = 0
  /\ UNCHANGED <<timer, hbVars>>
LedOff ==
  /\ Return
  /\ led' = [led EXCEPT !.state = "off", !.pin = FALSE]
  /\ pulse' = 0
  /\ UNCHANGED <<timer, hbVars>>

\* Mutant: the pulse runs on the timer as it is
LedPulseUnarmed(d) ==
  /\ Return
  /\ led' = [state |-> "pulse", on |-> TRUE, pin |-> TRUE]
  /\ pulse' = d
  /\ UNCHANGED <<timer, hbVars>>

\* LedPulse, and PublishTxd with 10 ms
LedPulse(d) ==
  /\ Return
  /\ led' = [state |-> "pulse", on |-> TRUE, pin |-> TRUE]
  /\ timer' = [timer EXCEPT !["led"] = Fire(d)]
  /\ pulse' = d
  /\ UNCHANGED hbVars

LedBlink(d) ==
  /\ Return
  /\ led' = [state |-> "blink", on |-> TRUE, pin |-> TRUE]
  /\ timer' = [timer EXCEPT !["led"] = Fire(d)]
  /\ pulse' = 0
  /\ UNCHANGED hbVars

\* HoverboardCmd carries a speed, a steer, or both
HoverboardCmd(given, value) ==
  /\ Return
  /\ cmd' = [f \in Fields |-> IF f \in given THEN value ELSE cmd[f]]
  /\ UNCHANGED <<timer, led, wheels, quiet, pulse>>

\* get_expired_timers of the actor the loop is at
Scan ==
  /\ loop.pc = "scan"
  /\ loop' = [loop EXCEPT !.pc = IF IsExpired(timer[loop.at]) THEN "deliver" ELSE "sleep"]
  /\ UNCHANGED <<timer, led, hbVars, pass, pulse>>

LedOnTimer ==
  /\ loop.pc = "deliver" /\ loop.at = "led"
  /\ loop' = [loop EXCEPT !.pc = "refresh"]
  /\ led' = CASE led.state = "off"   -> [led EXCEPT !.pin = FALSE]
              [] led.state = "on"    -> [led EXCEPT !.pin = TRUE]
              [] led.state = "blink" -> [led EXCEPT !.on = ~led.on, !.pin = ~led.on]
              [] led.state = "pulse" -> [led EXCEPT !.on = FALSE, !.pin = FALSE]
  /\ timer' = IF led.state = "blink" THEN timer
              ELSE [timer EXCEPT !["led"] = Stop(timer["led"])]
  /\ UNCHANGED <<hbVars, pass, pulse>>

\* on_timer writes the last command to the wheels, changed or not
HbOnTimer ==
  /\ loop.pc = "deliver" /\ loop.at = "hb"
  /\ loop' = [loop EXCEPT !.pc = "refresh"]
  /\ wheels' = cmd
  /\ quiet' = 0
  /\ UNCHANGED <<timer, led, cmd, pass, pulse>>

RefreshTimer ==
  /\ loop.pc = "refresh"
  /\ loop' = [loop EXCEPT !.pc = "sleep"]
  /\ timer' = [timer EXCEPT ![loop.at] = Refresh(timer[loop.at])]
  /\ UNCHANGED <<led, hbVars, pass, pulse>>

\* Mutant: a pass ends at the first actor whose timer is due again
TakeSleepTimeShort ==
  /\ loop.pc = "sleep"
  /\ LET last == loop.at = "hb" \/ SleepTime(timer[loop.at]) = 0
     IN loop' = [pc   |-> IF last THEN "receive" ELSE "scan",
                 at   |-> IF last THEN "led" ELSE "hb",
                 wait |-> Lower(loop.wait, SleepTime(timer[loop.at]))]
  /\ UNCHANGED <<timer, led, hbVars, pass, pulse>>
\* the timeout takes this actor's sleep_time in; after the last actor, receive
TakeSleepTime ==
  /\ loop.pc = "sleep"
  /\ loop' = [pc   |-> IF loop.at = "hb" THEN "receive" ELSE "scan",
              at   |-> IF loop.at = "led" THEN "hb" ELSE "led",
              wait |-> Lower(loop.wait, SleepTime(timer[loop.at]))]
  /\ UNCHANGED <<timer, led, hbVars, pass, pulse>>

PassStep == Scan \/ LedOnTimer \/ HbOnTimer \/ RefreshTimer \/ TakeSleepTime

Message ==
  \/ OtherMessage \/ LedOn \/ LedOff
  \/ \E d \in Delays : LedPulse(d) \/ LedBlink(d)
  \/ \E given \in SUBSET Fields, value \in Values : HoverboardCmd(given, value)

Next == Tick \/ Timeout \/ Message \/ PassStep

Spec == Init /\ [][Next]_vars

\* The loop's task runs and time passes; no message need ever come.
LiveSpec == Spec /\ WF_vars(PassStep \/ Timeout) /\ SF_vars(Tick)

----------------------------------------------------------------------------
\* Properties

TypeOK ==
  /\ timer \in [Actors -> [active : BOOLEAN, reload : {0, LedPeriod, HbPeriod}, left : Int]]
  /\ loop \in [pc : {"receive", "scan", "deliver", "refresh", "sleep"},
               at : Actors, wait : 0..MaxSleep]
  /\ led \in [state : {"on", "off", "blink", "pulse"}, on : BOOLEAN, pin : BOOLEAN]
  /\ cmd \in [Fields -> Values] /\ wheels \in [Fields -> Values]
  /\ pass \in 0..Lag /\ pulse \in Int /\ quiet \in Nat

\* A pulse is neither cut short, whatever the timer was doing when it was asked
\* for, nor longer than asked for by more than two passes of the loop.
PulseLength ==
  led.state = "pulse" => IF led.pin THEN pulse >= -2 * Lag ELSE pulse <= 0

\* The wheels are given a command again within a period and three passes of the
\* loop, whatever the messages do to the loop's waits.
CommandPace == quiet <= HbPeriod + 3 * Lag

\* The timer of an LED that does not blink goes on being delivered after it was
\* stopped, and changes nothing then.
SpentTimerIsHarmless ==
  [][loop.pc = "deliver" /\ ~timer[loop.at].active /\ led.state # "blink"
       => led'.pin = led.pin]_vars

\* A blinking LED never stays on and never stays off, unless LedBlink comes again
\* and again, although LedBlink makes its timer a one-shot: the spent timer is
\* what goes on toggling the pin.
BlinkGoesOn ==
  \A level \in BOOLEAN :
    <>[][~\E d \in Delays : LedBlink(d)]_vars
      => (led.state = "blink" ~> led.pin = level \/ led.state # "blink")

\* A speed or steer that is taken in reaches the wheels, or a newer one does.
CommandReachesWheels ==
  \A f \in Fields, v \in Values : cmd[f] = v ~> wheels[f] = v \/ cmd[f] # v
=============================================================================
