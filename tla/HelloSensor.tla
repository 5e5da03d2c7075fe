----------------------------- MODULE HelloSensor -----------------------------
(***************************************************************************)
(* Practica 1: a sampling process, a callback timer and a button process   *)
(* that share the LEDs (practicas/p1-hello-sensor/hello-sensor.c).         *)
(*                                                                         *)
(* Time passes in ticks.  A timer that is due is attended to within Late   *)
(* ticks: processes are not preemptive, so a handler may have to wait for  *)
(* others.  Temperatures are multiples of the smallest step.               *)
(***************************************************************************)
EXTENDS Integers

CONSTANTS
  SAMPLE_INTERVAL,   \* ticks between samples
  LED_PULSE,         \* ticks a pulse lasts
  Late,              \* ticks a due timer may wait for its handler
  Lowest, Highest,   \* limits of the simulated temperature
  Step,              \* largest change of it between samples
  ALARM_THRESHOLD

ASSUME SensorAssumption ==
  /\ SAMPLE_INTERVAL \in Nat
  /\ LED_PULSE \in Nat
  /\ Late \in Nat
  /\ Lowest \in Int /\ Highest \in Int
  /\ Lowest <= Highest
  /\ Step \in Nat
  /\ ALARM_THRESHOLD \in Int

\* The times of the program: 5 s, 1/4 s, and handlers that take far less.
ASSUME TimesAssumption == 2 * Late + LED_PULSE < SAMPLE_INTERVAL

VARIABLES
  temp,
  periodic_timer,  \* ticks until the etimer is due, negative when it waits
  led_timer,       \* the same for the ctimer; Idle when it is not set
  leds,            \* the LEDs that are lit
  phase            \* history: time since the start, less SAMPLE_INTERVAL for
                   \* every sample taken

vars == <<temp, periodic_timer, led_timer, leds, phase>>

LEDS_ALL == {"green", "yellow", "red"}

Idle == LED_PULSE + 1

TypeOK ==
  /\ temp \in Lowest .. Highest
  /\ periodic_timer \in -Late .. SAMPLE_INTERVAL
  /\ led_timer \in -Late .. Idle
  /\ leds \subseteq LEDS_ALL
  /\ phase \in Int

Init ==
  /\ temp \in Lowest .. Highest
  /\ periodic_timer = SAMPLE_INTERVAL
  /\ led_timer = Idle
  /\ leds = {}
  /\ phase = 0

-----------------------------------------------------------------------------

\* Time passes, unless a timer has waited for its handler as long as it may.
Tick ==
  /\ periodic_timer > -Late
  /\ led_timer > -Late
  /\ periodic_timer' = periodic_timer - 1
  /\ led_timer' = IF led_timer = Idle THEN Idle ELSE led_timer - 1
  /\ phase' = phase + 1
  /\ UNCHANGED <<temp, leds>>

read_temperature ==
  \E change \in -Step .. Step :
    temp' = IF temp + change < Lowest THEN Lowest
            ELSE IF temp + change > Highest THEN Highest
            ELSE temp + change

\* A plausible slip: etimer_set in the place of etimer_reset, counting the
\* interval from now.
SampleDrifts ==
  /\ periodic_timer <= 0
  /\ read_temperature
  /\ leds' = leds \cup IF temp' > ALARM_THRESHOLD THEN {"red"} ELSE {"green"}
  /\ led_timer' = LED_PULSE
  /\ periodic_timer' = SAMPLE_INTERVAL
  /\ phase' = phase - SAMPLE_INTERVAL

\* A plausible slip: the pulse is set to end for normal samples only.
SampleAlarmStays ==
  /\ periodic_timer <= 0
  /\ read_temperature
  /\ leds' = leds \cup IF temp' > ALARM_THRESHOLD THEN {"red"} ELSE {"green"}
  /\ led_timer' = IF temp' > ALARM_THRESHOLD THEN led_timer ELSE LED_PULSE
  /\ periodic_timer' = periodic_timer + SAMPLE_INTERVAL
  /\ phase' = phase - SAMPLE_INTERVAL

\* sensor_process: a sample is taken and a pulse begins.  etimer_reset counts
\* the interval from when the timer was due.
Sample ==
  /\ periodic_timer <= 0
  /\ read_temperature
  /\ leds' = leds \cup IF temp' > ALARM_THRESHOLD THEN {"red"} ELSE {"green"}
  /\ led_timer' = LED_PULSE
  /\ periodic_timer' = periodic_timer + SAMPLE_INTERVAL
  /\ phase' = phase - SAMPLE_INTERVAL

\* A plausible slip: the colour of a normal sample is the one turned off.
led_off_callbackGreen ==
  /\ led_timer <= 0
  /\ leds' = leds \ {"green"}
  /\ led_timer' = Idle
  /\ UNCHANGED <<temp, periodic_timer, phase>>

\* The pulse ends: every LED goes off, the button's too.
led_off_callback ==
  /\ led_timer <= 0
  /\ leds' = leds \ LEDS_ALL
  /\ led_timer' = Idle
  /\ UNCHANGED <<temp, periodic_timer, phase>>

\* button_process: the button was pressed.
Button ==
  /\ leds' = IF "yellow" \in leds THEN leds \ {"yellow"} ELSE leds \cup {"yellow"}
  /\ UNCHANGED <<temp, periodic_timer, led_timer, phase>>

Next == Tick \/ Sample \/ led_off_callback \/ Button

Spec == Init /\ [][Next]_vars

\* Time passes, and handlers run; the button need not be pressed.
FairSpec ==
  Spec /\ WF_vars(Tick) /\ WF_vars(Sample) /\ WF_vars(led_off_callback)

-----------------------------------------------------------------------------

\* A sample shows green or red, never both: the pulse of one sample is over
\* before the next begins, although both may be attended to late.
OneColour == ~({"green", "red"} \subseteq leds)

\* An LED the sensor turned on has a timer that will turn it off.
PulseWillEnd == leds \cap {"green", "red"} # {} => led_timer # Idle

\* Lateness does not add up: the n-th sample is taken in time, whatever the
\* samples before it had to wait.
OnSchedule == phase \in 0 .. SAMPLE_INTERVAL + Late

\* No LED stays lit, the button's included: what the button turns on, the end
\* of the next sample's pulse turns off.
NoLedStays == \A c \in LEDS_ALL : c \in leds ~> c \notin leds
=============================================================================
