-------------------------- MODULE TimedNodesProofs --------------------------
(***************************************************************************)
(* Proofs about the three nodes that live by their timers: the Wi-Fi node, *)
(* for any clock, interval and number of failures of the network; the      *)
(* sampling node, for all intervals, pulses and delays that leave room for *)
(* a pulse between samples (TimesAssumption); and the energy node, for     *)
(* every set of nodes, length of the event queue and duration.             *)
(***************************************************************************)
EXTENDS HelloSensor, EnergyNode, WifiMqttNode, TLAPS

-----------------------------------------------------------------------------
(* The Wi-Fi node.                                                         *)

\* Unsigned arithmetic: the next reading of the clock, and a difference of two.
LEMMA NextReading ==
  ASSUME NEW n \in Nat \ {0}, NEW a \in 0 .. n - 1
  PROVE  (a + 1) % n = IF a + 1 = n THEN 0 ELSE a + 1
OBVIOUS

LEMMA Difference ==
  ASSUME NEW n \in Nat \ {0}, NEW a \in 0 .. n - 1, NEW b \in 0 .. n - 1
  PROVE  (a - b) % n = IF a >= b THEN a - b ELSE a - b + n
<1>1. a - b \in Int /\ -n < a - b /\ a - b < n
  OBVIOUS
<1>2. QED
  BY <1>1

\* A session in use has its subscription; a dead one has none.
SessionInv ==
  /\ connected /\ alive /\ pc # "subscribe" => subscribed
  /\ subscribed => alive

\* Until an interval has gone by the program's difference is the time since the
\* last publication, and it publishes only when one has.
PaceInv ==
  /\ elapsed < PUB_INTERVAL_MS => (millis - lastPub) % ClockMod = elapsed
  /\ pc = "publish" => elapsed = PUB_INTERVAL_MS

WifiInv == WifiTypeOK /\ SessionInv /\ PaceInv

LEMMA WifiConstants ==
  /\ PUB_INTERVAL_MS \in Nat \ {0} /\ ClockMod \in Nat \ {0}
  /\ PUB_INTERVAL_MS < ClockMod
  /\ StepTicks \in Nat \ {0} /\ SeqMod \in Nat \ {0} /\ MaxFaults \in Nat
BY WifiAssumption, LoopAssumption

LEMMA WifiInvInit == WifiInit => WifiInv
<1> SUFFICES ASSUME WifiInit PROVE WifiInv
  OBVIOUS
<1>1. WifiTypeOK /\ SessionInv
  <2>1. /\ 0 \in 0 .. ClockMod - 1 /\ 0 \in 0 .. SeqMod - 1 /\ 0 \in 0 .. StepTicks
        /\ 0 \in 0 .. PUB_INTERVAL_MS /\ 0 \in 0 .. MaxFaults
    BY WifiConstants
  <2>2. QED
    BY <2>1, Zenon DEF WifiInit, WifiTypeOK, SessionInv
<1>2. (0 - 0) % ClockMod = 0
  BY WifiConstants, Difference
<1>3. PaceInv
  BY <1>2, WifiConstants DEF WifiInit, PaceInv
<1>4. QED
  BY <1>1, <1>3 DEF WifiInv

LEMMA TickInv == ASSUME WifiInv, WifiTick PROVE WifiInv'
<1> USE DEF program, session
<1>1. /\ millis \in 0 .. ClockMod - 1 /\ lastPub \in 0 .. ClockMod - 1
      /\ elapsed \in 0 .. PUB_INTERVAL_MS
  BY DEF WifiInv, WifiTypeOK
<1>2. millis' = IF millis + 1 = ClockMod THEN 0 ELSE millis + 1
  BY <1>1, WifiConstants, NextReading DEF WifiTick
<1>3. WifiTypeOK'
  <2>1. pace' \in 0 .. StepTicks
    BY WifiConstants DEF WifiTick, WifiInv, WifiTypeOK
  <2>2. elapsed' \in 0 .. PUB_INTERVAL_MS /\ millis' \in 0 .. ClockMod - 1
    BY <1>1, <1>2, WifiConstants DEF WifiTick
  <2>3. QED
    BY <2>1, <2>2 DEF WifiTick, WifiInv, WifiTypeOK
<1>4. ASSUME elapsed' < PUB_INTERVAL_MS PROVE (millis' - lastPub) % ClockMod = elapsed'
  <2>1. elapsed' = elapsed + 1 /\ elapsed < PUB_INTERVAL_MS
    BY <1>1, <1>4 DEF WifiTick
  <2>2. elapsed = IF millis >= lastPub THEN millis - lastPub ELSE millis - lastPub + ClockMod
    BY <1>1, <2>1, WifiConstants, Difference DEF WifiInv, PaceInv
  <2>3. millis' \in 0 .. ClockMod - 1
    BY <1>1, <1>2, WifiConstants
  <2>4. (millis' - lastPub) % ClockMod
          = IF millis' >= lastPub THEN millis' - lastPub ELSE millis' - lastPub + ClockMod
    BY <1>1, <2>3, WifiConstants, Difference
  <2>5. QED
    BY <1>1, <1>2, <1>4, <2>1, <2>2, <2>4, WifiConstants
<1>5. QED
  BY <1>3, <1>4 DEF WifiTick, WifiInv, SessionInv, PaceInv, WifiTypeOK

LEMMA NetworkInv ==
  ASSUME WifiInv, WiFiFails \/ SessionFails \/ WiFiReturns \/ SessionFound
  PROVE  WifiInv'
<1> USE DEF program, session
<1>1. UNCHANGED <<pc, lastPub, millis, elapsed, seq, led, pace>>
  BY DEF WiFiFails, SessionFails, WiFiReturns, SessionFound
<1>2. WifiTypeOK'
  <2>1. faults' \in 0 .. MaxFaults
    BY WifiConstants DEF WiFiFails, SessionFails, WiFiReturns, SessionFound, Fault,
                     WifiInv, WifiTypeOK
  <2>2. /\ wifi' \in BOOLEAN /\ connected' \in BOOLEAN
        /\ alive' \in BOOLEAN /\ subscribed' \in BOOLEAN
    BY DEF WiFiFails, SessionFails, WiFiReturns, SessionFound, WifiInv, WifiTypeOK
  <2>3. QED
    BY <1>1, <2>1, <2>2 DEF WifiInv, WifiTypeOK
<1>3. SessionInv'
  BY DEF WiFiFails, SessionFails, WiFiReturns, SessionFound, WifiInv, SessionInv
<1>4. QED
  BY <1>1, <1>2, <1>3 DEF WifiInv, PaceInv

LEMMA ProgramInv == ASSUME WifiInv, Program PROVE WifiInv'
<1> USE DEF session, Goto
<1>1. CASE Publish
  <2>1. seq' \in 0 .. SeqMod - 1
    BY <1>1, WifiConstants DEF Publish, WifiInv, WifiTypeOK
  <2>2. WifiTypeOK'
    BY <1>1, <2>1, WifiConstants DEF Publish, WifiInv, WifiTypeOK
  <2>3. (millis - millis) % ClockMod = 0
    BY WifiConstants, Difference DEF WifiInv, WifiTypeOK
  <2>4. PaceInv'
    BY <1>1, <2>3 DEF Publish, PaceInv
  <2>5. QED
    BY <1>1, <2>2, <2>4 DEF Publish, WifiInv, SessionInv
<1>2. CASE Check
  <2>1. WifiTypeOK'
    BY <1>2, WifiConstants DEF Check, WifiInv, WifiTypeOK
  <2>2. Due => elapsed = PUB_INTERVAL_MS
    BY WifiConstants DEF Due, WifiInv, PaceInv, WifiTypeOK
  <2>3. QED
    BY <1>2, <2>1, <2>2 DEF Check, WifiInv, SessionInv, PaceInv
<1>3. CASE connectWiFi \/ beginWiFi \/ StillConnected \/ Connect \/ Subscribe \/ Serve
  <2>1. WifiTypeOK'
    <3>1. UNCHANGED <<lastPub, seq, millis, wifi, elapsed, faults>> /\ pace' = 0
      BY <1>3 DEF connectWiFi, beginWiFi, StillConnected, Connect, Subscribe, Serve
    <3>2. pc' \in {"beginWiFi", "connectMQTT", "subscribe", "serve", "check"}
      BY <1>3 DEF connectWiFi, beginWiFi, StillConnected, Connect, Subscribe, Serve
    <3>3. /\ connected' \in BOOLEAN /\ alive' \in BOOLEAN
          /\ subscribed' \in BOOLEAN /\ led' \in BOOLEAN
      BY <1>3 DEF connectWiFi, beginWiFi, StillConnected, Connect, Subscribe, Serve,
                  WifiInv, WifiTypeOK
    <3>4. QED
      BY <3>1, <3>2, <3>3, WifiConstants DEF WifiInv, WifiTypeOK
  <2>2. SessionInv'
    BY <1>3 DEF connectWiFi, beginWiFi, StillConnected, Connect, Subscribe,
                Serve, WifiInv, SessionInv
  <2>3. UNCHANGED <<lastPub, millis, elapsed>> /\ pc' # "publish"
    BY <1>3 DEF connectWiFi, beginWiFi, StillConnected, Connect, Subscribe, Serve
  <2>4. QED
    BY <2>1, <2>2, <2>3 DEF WifiInv, PaceInv
<1>4. QED
  BY <1>1, <1>2, <1>3 DEF Program

LEMMA WifiInvStep == WifiInv /\ [WifiNext]_wifiVars => WifiInv'
<1> SUFFICES ASSUME WifiInv, [WifiNext]_wifiVars PROVE WifiInv'
  OBVIOUS
<1>1. CASE UNCHANGED wifiVars
  BY <1>1 DEF wifiVars, program, session, history, WifiInv, WifiTypeOK, SessionInv, PaceInv
<1>2. QED
  BY <1>1, TickInv, NetworkInv, ProgramInv DEF WifiNext

LEMMA WifiAlways == WifiSpec => []WifiInv
BY WifiInvInit, WifiInvStep, PTL DEF WifiSpec

\* Every variable keeps its type, also where the clock and the numbers wrap.
THEOREM WifiTypeCorrect == WifiSpec => []WifiTypeOK
<1>1. WifiInv => WifiTypeOK
  BY DEF WifiInv
<1>2. QED
  BY <1>1, WifiAlways, PTL

\* Whenever sessions die, a session that loop() serves has its subscription.
THEOREM Subscribed == WifiSpec => []ServedMeansSubscribed
<1>1. WifiInv => ServedMeansSubscribed
  BY DEF WifiInv, SessionInv, ServedMeansSubscribed
<1>2. QED
  BY <1>1, WifiAlways, PTL

\* Publications are an interval apart, for any interval and clock.
THEOREM Spaced == WifiSpec => PublicationsPaced
<1>1. WifiInv /\ [WifiNext]_wifiVars => [seq' # seq => elapsed = PUB_INTERVAL_MS]_wifiVars
  <2> SUFFICES ASSUME WifiInv, WifiNext, seq' # seq PROVE elapsed = PUB_INTERVAL_MS
    OBVIOUS
  <2>1. Publish
    BY DEF WifiNext, WifiTick, WiFiFails, SessionFails, WiFiReturns, SessionFound, Program,
           connectWiFi, beginWiFi, StillConnected, Connect, Subscribe, Serve, Check,
           program, session
  <2>2. QED
    BY <2>1 DEF Publish, WifiInv, PaceInv
<1>2. QED
  BY <1>1, WifiAlways, PTL DEF WifiSpec, PublicationsPaced

-----------------------------------------------------------------------------
(* The sampling node.                                                      *)

USE SensorAssumption, TimesAssumption

\* A pulse under way began when the sample's timer was last set: the two run
\* down together, and the pulse is ahead by more than a handler may be late.
PulseAhead ==
  led_timer # Idle =>
    periodic_timer - led_timer >= SAMPLE_INTERVAL - Late - LED_PULSE

\* The timer of the samples runs on the schedule's own clock.
ClockKept == phase + periodic_timer = SAMPLE_INTERVAL

IInv == TypeOK /\ PulseWillEnd /\ PulseAhead /\ ClockKept /\ OneColour

-----------------------------------------------------------------------------

\* The walk stays between its limits.
LEMMA WalkInLimits ==
  ASSUME temp \in Lowest .. Highest, read_temperature
  PROVE  temp' \in Lowest .. Highest
  BY SMT DEF read_temperature

LEMMA InitIInv == Init => IInv
  BY SMT DEF Init, IInv, TypeOK, PulseWillEnd, PulseAhead, ClockKept, OneColour,
             Idle, LEDS_ALL

LEMMA TickIInv ==
  ASSUME IInv, Tick
  PROVE  IInv'
<1> USE DEF IInv, Tick
<1>1. periodic_timer' \in -Late .. SAMPLE_INTERVAL /\ led_timer' \in -Late .. Idle
  BY SMT DEF TypeOK, Idle
<1>2. (led_timer' = Idle) <=> (led_timer = Idle)
  BY SMT DEF TypeOK, Idle
<1>3. TypeOK'
  BY <1>1, SMT DEF TypeOK
<1>4. PulseWillEnd' /\ OneColour'
  BY <1>2 DEF PulseWillEnd, OneColour, Idle
<1>5. PulseAhead'
  BY <1>2, SMT DEF TypeOK, PulseAhead, Idle
<1>6. ClockKept'
  BY SMT DEF TypeOK, ClockKept
<1> QED
  BY <1>3, <1>4, <1>5, <1>6

\* When a sample is due the pulse of the one before is over, so its colour is
\* the only one lit.
LEMMA SampleIInv ==
  ASSUME IInv, Sample
  PROVE  IInv'
<1> USE DEF IInv
<1>1. led_timer = Idle
  BY SMT DEF TypeOK, PulseAhead, Sample
<1>2. leds \cap {"green", "red"} = {}
  BY <1>1 DEF PulseWillEnd
<1>3. temp' \in Lowest .. Highest
  BY WalkInLimits DEF TypeOK, Sample
<1>4. leds' \subseteq LEDS_ALL
  BY DEF TypeOK, Sample, LEDS_ALL
<1>5. /\ periodic_timer' \in SAMPLE_INTERVAL - Late .. SAMPLE_INTERVAL
      /\ led_timer' \in -Late .. Idle
      /\ led_timer' # Idle
      /\ phase' \in Int
  BY SMT DEF TypeOK, Sample, Idle
<1>6. TypeOK'
  BY <1>3, <1>4, <1>5, SMT DEF TypeOK
<1>7. OneColour'
  BY <1>2 DEF OneColour, Sample
<1>8. PulseWillEnd' /\ PulseAhead'
  BY <1>5, SMT DEF PulseWillEnd, PulseAhead, Sample, Idle
<1>9. ClockKept'
  BY SMT DEF TypeOK, ClockKept, Sample
<1> QED
  BY <1>6, <1>7, <1>8, <1>9

LEMMA LedOffIInv ==
  ASSUME IInv, led_off_callback
  PROVE  IInv'
<1> USE DEF IInv, led_off_callback
<1>1. leds' = {}
  BY DEF TypeOK
<1>2. TypeOK'
  BY <1>1, SMT DEF TypeOK, Idle
<1>3. PulseWillEnd' /\ OneColour'
  BY <1>1 DEF PulseWillEnd, OneColour
<1>4. PulseAhead' /\ ClockKept'
  BY SMT DEF PulseAhead, ClockKept, Idle
<1> QED
  BY <1>2, <1>3, <1>4

\* The button's colour is none of the sensor's.
LEMMA ButtonIInv ==
  ASSUME IInv, Button
  PROVE  IInv'
<1> USE DEF IInv, Button
<1>1. /\ leds' \subseteq LEDS_ALL
      /\ leds' \cap {"green", "red"} = leds \cap {"green", "red"}
  BY DEF TypeOK, LEDS_ALL
<1>2. TypeOK'
  BY <1>1 DEF TypeOK, Idle
<1>3. PulseWillEnd' /\ OneColour'
  BY <1>1 DEF PulseWillEnd, OneColour, Idle
<1>4. PulseAhead' /\ ClockKept'
  BY DEF PulseAhead, ClockKept, Idle
<1> QED
  BY <1>2, <1>3, <1>4

\* The inductive invariant holds of every behaviour.
THEOREM Invariance == Spec => []IInv
<1>1. IInv /\ [Next]_vars => IInv'
  <2> SUFFICES ASSUME IInv, [Next]_vars PROVE IInv'
    OBVIOUS
  <2>1. CASE Tick
    BY <2>1, TickIInv
  <2>2. CASE Sample
    BY <2>2, SampleIInv
  <2>3. CASE led_off_callback
    BY <2>3, LedOffIInv
  <2>4. CASE Button
    BY <2>4, ButtonIInv
  <2>5. CASE UNCHANGED vars
    BY <2>5 DEF vars, IInv, TypeOK, PulseWillEnd, PulseAhead, ClockKept,
                OneColour, Idle
  <2> QED
    BY <2>1, <2>2, <2>3, <2>4, <2>5 DEF Next
<1> QED
  BY <1>1, InitIInv, PTL DEF Spec

\* Type correctness, the limits of temperature and timers included.
THEOREM TypeCorrect == Spec => []TypeOK
<1>1. IInv => TypeOK
  BY DEF IInv
<1> QED
  BY <1>1, Invariance, PTL

\* Green and red are never lit together, and what is lit will be turned off,
\* for every pulse and delay that fit between two samples.
THEOREM PulsesApart == Spec => [](OneColour /\ PulseWillEnd)
<1>1. IInv => OneColour /\ PulseWillEnd
  BY DEF IInv
<1> QED
  BY <1>1, Invariance, PTL

\* Samples never drift from their schedule by more than one delay.
THEOREM NoDrift == Spec => []OnSchedule
<1>1. IInv => OnSchedule
  BY SMT DEF IInv, TypeOK, ClockKept, OnSchedule
<1> QED
  BY <1>1, Invariance, PTL

-----------------------------------------------------------------------------
(* The energy node.                                                        *)

USE EnergyAssumption

\* Together with the types, NoExpiryUnattended is inductive: the one step that
\* takes an event away, HandleEvent, leaves both timers running.
EnergyInv == EnergyTypeOK /\ NoExpiryUnattended

-----------------------------------------------------------------------------

\* Whatever a function of the radio states tells, a record of its three
\* values tells, too.
LEMMA RecordOfTimes ==
  ASSUME NEW t \in Times
  PROVE  [tx |-> t["tx"], rx |-> t["rx"], off |-> t["off"]] = t
  BY DEF Times, RadioStates

\* What tx and rx leave of the total is the time the radio was off.
LEMMA OffIsTheRest ==
  ASSUME NEW t \in Times
  PROVE  Total(t) - t["tx"] - t["rx"] = t["off"]
<1>1. t["tx"] \in Nat /\ t["rx"] \in Nat /\ t["off"] \in Nat
  BY DEF Times, RadioStates
<1> QED
  BY <1>1, SMT DEF Total

\* A report is the time spent.
LEMMA ReportIsSpent ==
  ASSUME EnergyTypeOK, print_energest
  PROVE  line' = spent /\ energest' = spent
<1>1. spent \in Times
  BY DEF EnergyTypeOK
<1>2. energest' = spent
  BY DEF print_energest, energest_flush
<1>3. line' = [tx |-> spent["tx"], rx |-> spent["rx"], off |-> spent["off"]]
  BY <1>1, <1>2, OffIsTheRest DEF print_energest
<1> QED
  BY <1>1, <1>2, <1>3, RecordOfTimes

LEMMA EnergyInvInit == EnergyInit => EnergyInv
  BY SMT DEF EnergyInit, EnergyInv, EnergyTypeOK, NoExpiryUnattended, Times, TimerStates, RadioStates

\* The counter of a node is kept in its bits, and the timer is set again.
LEMMA CheckSendTypes ==
  ASSUME EnergyTypeOK, CheckSend
  PROVE  energySeq' \in 0 .. EnergySeqMod - 1 /\ send_timer' = "running"
<1>1. energySeq \in Nat /\ EnergySeqMod \in Nat \ {0}
  BY SMT DEF EnergyTypeOK
<1>2. (energySeq + 1) % EnergySeqMod \in 0 .. EnergySeqMod - 1
  BY <1>1, SMT
<1>3. send_timer' = "running"
  BY DEF EnergyTypeOK, CheckSend, TimerStates
<1> QED
  BY <1>2, <1>3 DEF EnergyTypeOK, CheckSend

LEMMA HandleEventInv ==
  ASSUME EnergyInv, HandleEvent
  PROVE  EnergyInv'
<1> USE DEF EnergyInv
<1>1. send_timer' = "running" /\ energySeq' \in 0 .. EnergySeqMod - 1
  BY CheckSendTypes DEF HandleEvent
<1>2. report_timer' = "running"
  BY DEF EnergyTypeOK, TimerStates, HandleEvent, CheckReport
<1>3. line' \in Times /\ energest' \in Times
  <2>1. CASE report_timer = "expired"
    BY <2>1, ReportIsSpent DEF EnergyTypeOK, HandleEvent, CheckReport
  <2>2. CASE report_timer # "expired"
    BY <2>2 DEF EnergyTypeOK, HandleEvent, CheckReport
  <2> QED
    BY <2>1, <2>2
<1>4. events' \in 0 .. MaxEvents
  BY SMT DEF EnergyTypeOK, HandleEvent
<1>5. EnergyTypeOK'
  BY <1>1, <1>2, <1>3, <1>4
     DEF EnergyTypeOK, HandleEvent, radioVars, TimerStates
<1>6. NoExpiryUnattended'
  BY <1>1, <1>2 DEF NoExpiryUnattended
<1> QED
  BY <1>5, <1>6

LEMMA EnergyTickInv ==
  ASSUME EnergyInv, EnergyTick
  PROVE  EnergyInv'
<1> USE DEF EnergyInv
<1>1. spent \in [RadioStates -> 0 .. MaxTime] /\ radio \in RadioStates
  BY DEF EnergyTypeOK, Times
<1>2. spent[radio] + 1 \in 0 .. MaxTime
  <2>1. /\ spent["tx"] \in Nat /\ spent["rx"] \in Nat /\ spent["off"] \in Nat
        /\ spent["tx"] + spent["rx"] + spent["off"] < MaxTime
    BY <1>1, SMT DEF EnergyTick, Total, RadioStates
  <2>2. radio = "tx" \/ radio = "rx" \/ radio = "off"
    BY <1>1 DEF RadioStates
  <2> QED
    BY <2>1, <2>2, SMT
<1>3. spent' \in Times
  BY <1>1, <1>2 DEF EnergyTick, Times
<1> QED
  BY <1>3 DEF EnergyTick, EnergyTypeOK, NoExpiryUnattended, process

LEMMA RadioSwitchesInv ==
  ASSUME EnergyInv, RadioSwitches
  PROVE  EnergyInv'
<1> USE DEF EnergyInv
<1>1. energest' \in Times
  BY DEF RadioSwitches, EnergyTypeOK, Times
<1>2. radio' \in RadioStates
  BY DEF RadioSwitches
<1> QED
  BY <1>1, <1>2 DEF RadioSwitches, EnergyTypeOK, NoExpiryUnattended, process

LEMMA ExpiryInv ==
  ASSUME EnergyInv, ReportTimerExpires \/ SendTimerExpires
  PROVE  EnergyInv'
<1> USE DEF EnergyInv
<1>1. events' \in 0 .. MaxEvents /\ events' >= 1
  BY SMT DEF EnergyTypeOK, ReportTimerExpires, SendTimerExpires
<1>2. EnergyTypeOK'
  BY <1>1 DEF EnergyTypeOK, ReportTimerExpires, SendTimerExpires, radioVars, TimerStates
<1> QED
  BY <1>1, <1>2 DEF NoExpiryUnattended

\* The inductive invariant holds of every behaviour.
THEOREM EnergyInvariance == EnergySpec => []EnergyInv
<1>1. EnergyInv /\ [EnergyNext]_energyVars => EnergyInv'
  <2> SUFFICES ASSUME EnergyInv, [EnergyNext]_energyVars PROVE EnergyInv'
    OBVIOUS
  <2>1. CASE EnergyTick
    BY <2>1, EnergyTickInv
  <2>2. CASE RadioSwitches
    BY <2>2, RadioSwitchesInv
  <2>3. CASE RouteChanges
    BY <2>3 DEF RouteChanges, EnergyInv, EnergyTypeOK, NoExpiryUnattended, process, radioVars
  <2>4. CASE ReportTimerExpires \/ SendTimerExpires
    BY <2>4, ExpiryInv
  <2>5. CASE HandleEvent
    BY <2>5, HandleEventInv
  <2>6. CASE UNCHANGED energyVars
    BY <2>6 DEF energyVars, process, radioVars, EnergyInv, EnergyTypeOK, NoExpiryUnattended
  <2> QED
    BY <2>1, <2>2, <2>3, <2>4, <2>5, <2>6 DEF EnergyNext
<1> QED
  BY <1>1, EnergyInvInit, PTL DEF EnergySpec

THEOREM EnergyTypeCorrect == EnergySpec => []EnergyTypeOK
<1>1. EnergyInv => EnergyTypeOK
  BY DEF EnergyInv
<1> QED
  BY <1>1, EnergyInvariance, PTL

\* No expiry is left without an event, for every length of the queue.
THEOREM NoneUnattended == EnergySpec => []NoExpiryUnattended
<1>1. EnergyInv => NoExpiryUnattended
  BY SMT DEF EnergyInv, EnergyTypeOK, NoExpiryUnattended
<1> QED
  BY <1>1, EnergyInvariance, PTL

\* Every line printed tells the time the radio really spent in its states.
THEOREM TrueReports == EnergySpec => ReportsTheTime
<1>1. EnergyInv /\ [EnergyNext]_energyVars => [line' # line => line' = spent]_energyVars
  <2> SUFFICES ASSUME EnergyInv, [EnergyNext]_energyVars, line' # line
               PROVE  line' = spent
    OBVIOUS
  <2>1. HandleEvent
    BY DEF EnergyNext, energyVars, process, EnergyTick, RadioSwitches, RouteChanges,
           ReportTimerExpires, SendTimerExpires
  <2>2. print_energest
    BY <2>1 DEF HandleEvent, CheckReport
  <2> QED
    BY <2>2, ReportIsSpent DEF EnergyInv
<1> QED
  BY <1>1, EnergyInvariance, PTL DEF EnergySpec, ReportsTheTime
=============================================================================
