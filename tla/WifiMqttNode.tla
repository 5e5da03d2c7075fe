---------------------------- MODULE WifiMqttNode ----------------------------
(***************************************************************************)
(* Practica 8: the ESP32 that publishes over Wi-Fi                         *)
(* (practicas/p8-hardware/arduino/wifi-mqtt-node/wifi-mqtt-node.ino).      *)
(*                                                                         *)
(* One thread: every pass of loop() makes sure of the Wi-Fi and of the     *)
(* MQTT session, blocking as long as it takes, serves the session, and     *)
(* publishes when an interval has gone by on a millisecond counter that    *)
(* wraps.  The session may die at any point between two calls, and the     *)
(* client may go on taking it for alive.                                   *)
(***************************************************************************)
EXTENDS Integers

CONSTANTS
  ClockMod,          \* values of millis()
  PUB_INTERVAL_MS,
  SeqMod,            \* values of a uint32_t
  StepTicks,         \* time that passes between two steps of loop(), at most
  MaxFaults          \* bound: times the network fails

ASSUME WifiAssumption ==
  /\ ClockMod \in Nat /\ PUB_INTERVAL_MS \in Nat \ {0}
  /\ SeqMod \in Nat \ {0}
  /\ StepTicks \in Nat \ {0}
  /\ MaxFaults \in Nat

\* A pass of loop() that is not blocked takes milliseconds, an interval 20 s,
\* a turn of the clock 49 days: no pass can miss an interval altogether.
ASSUME LoopAssumption == PUB_INTERVAL_MS + 5 * StepTicks < ClockMod

VARIABLES
  pc,            \* where loop() is
  lastPub, seq, led,
  millis,        \* the clock
  wifi,          \* WiFi.status() is WL_CONNECTED
  connected,     \* mqtt.connected(): what the client takes the session for
  alive,         \* the session exists, at the broker and on the network
  subscribed,    \* the broker holds the session's subscription
  pace,          \* history: time since the last step of loop(), when not blocked
  elapsed,       \* history: time since the last publication, up to the interval
  faults         \* history: failures so far

program == <<pc, lastPub, seq, led>>
session == <<connected, alive, subscribed>>
history == <<elapsed, faults>>
wifiVars == <<program, millis, pace, wifi, session, history>>

WifiTypeOK ==
  /\ pc \in {"connectWiFi", "beginWiFi", "connectMQTT", "subscribe", "serve",
             "check", "publish"}
  /\ lastPub \in 0 .. ClockMod - 1
  /\ seq \in 0 .. SeqMod - 1
  /\ led \in BOOLEAN
  /\ millis \in 0 .. ClockMod - 1
  /\ wifi \in BOOLEAN
  /\ connected \in BOOLEAN
  /\ alive \in BOOLEAN
  /\ subscribed \in BOOLEAN
  /\ pace \in 0 .. StepTicks
  /\ elapsed \in 0 .. PUB_INTERVAL_MS
  /\ faults \in 0 .. MaxFaults

\* setup(): one connectWiFi, no session; lastPub is static data.
WifiInit ==
  /\ pc = "connectWiFi"
  /\ lastPub = 0
  /\ seq = 0
  /\ led = FALSE
  /\ millis = 0
  /\ wifi = FALSE
  /\ connected = FALSE
  /\ alive = FALSE
  /\ subscribed = FALSE
  /\ pace = 0
  /\ elapsed = 0
  /\ faults = 0

-----------------------------------------------------------------------------
(* The world.                                                              *)

\* The loops that wait: for the Wi-Fi, and for a connection to be accepted.
Blocked ==
  \/ pc = "beginWiFi" /\ ~wifi
  \/ pc = "connectMQTT" /\ ~connected

WifiTick ==
  /\ Blocked \/ pace < StepTicks
  /\ pace' = IF Blocked THEN 0 ELSE pace + 1
  /\ millis' = (millis + 1) % ClockMod
  /\ elapsed' = IF elapsed < PUB_INTERVAL_MS THEN elapsed + 1 ELSE elapsed
  /\ UNCHANGED <<program, wifi, session, faults>>

Fault == faults < MaxFaults /\ faults' = faults + 1

\* The Wi-Fi goes, and with it the session.
WiFiFails ==
  /\ Fault
  /\ wifi
  /\ wifi' = FALSE
  /\ alive' = FALSE
  /\ subscribed' = FALSE
  /\ UNCHANGED <<program, millis, pace, connected, elapsed>>

\* The broker drops the session.
SessionFails ==
  /\ Fault
  /\ alive
  /\ alive' = FALSE
  /\ subscribed' = FALSE
  /\ UNCHANGED <<program, millis, pace, wifi, connected, elapsed>>

\* The station associates again by itself, once WiFi.begin was called.
WiFiReturns ==
  /\ ~wifi
  /\ pc # "connectWiFi"
  /\ wifi' = TRUE
  /\ UNCHANGED <<program, millis, pace, session, elapsed, faults>>

\* The client finds out that the session is dead: a closed socket in
\* connected(), a keepalive without an answer in loop().
SessionFound ==
  /\ connected /\ ~alive
  /\ connected' = FALSE
  /\ UNCHANGED <<program, millis, pace, wifi, alive, subscribed, elapsed, faults>>

-----------------------------------------------------------------------------
(* The program.                                                            *)

\* A step of loop() to p.
Goto(p) == pc' = p /\ pace' = 0

connectWiFi ==
  /\ pc = "connectWiFi"
  /\ Goto(IF wifi THEN "connectMQTT" ELSE "beginWiFi")
  /\ UNCHANGED <<lastPub, seq, led, millis, wifi, session, elapsed, faults>>

\* WiFi.begin, and the wait for the association.
beginWiFi ==
  /\ pc = "beginWiFi"
  /\ wifi
  /\ Goto("connectMQTT")
  /\ UNCHANGED <<lastPub, seq, led, millis, wifi, session, elapsed, faults>>

\* while (!mqtt.connected()): nothing to do.
StillConnected ==
  /\ pc = "connectMQTT"
  /\ connected
  /\ Goto("serve")
  /\ UNCHANGED <<lastPub, seq, led, millis, wifi, session, elapsed, faults>>

\* A plausible slip: the new session is left without the subscription.
ConnectUnsubscribed ==
  /\ pc = "connectMQTT"
  /\ ~connected
  /\ wifi
  /\ connected' = TRUE
  /\ alive' = TRUE
  /\ subscribed' = FALSE
  /\ Goto("connectMQTT")
  /\ UNCHANGED <<lastPub, seq, led, millis, wifi, elapsed, faults>>

\* mqtt.connect succeeds: a clean session, without subscriptions.
Connect ==
  /\ pc = "connectMQTT"
  /\ ~connected
  /\ wifi
  /\ connected' = TRUE
  /\ alive' = TRUE
  /\ subscribed' = FALSE
  /\ Goto("subscribe")
  /\ UNCHANGED <<lastPub, seq, led, millis, wifi, elapsed, faults>>

\* mqtt.subscribe, its result ignored: on a dead session it goes nowhere.
\* The while loop then looks at the session again.
Subscribe ==
  /\ pc = "subscribe"
  /\ subscribed' = alive
  /\ Goto("connectMQTT")
  /\ UNCHANGED <<lastPub, seq, led, millis, wifi, connected, alive, elapsed, faults>>

\* mqtt.loop(): onMessage obeys a command that arrived, if one did.
Serve ==
  /\ pc = "serve"
  /\ led' \in IF connected /\ subscribed THEN BOOLEAN ELSE {led}
  /\ Goto("check")
  /\ UNCHANGED <<lastPub, seq, millis, wifi, session, elapsed, faults>>

\* A plausible slip: the time of the next publication is computed, and
\* compared with the clock.
DueBySum == millis >= (lastPub + PUB_INTERVAL_MS) % ClockMod

\* A plausible slip: a difference that may be negative.
DueBySigned == millis - lastPub >= PUB_INTERVAL_MS

\* millis() - lastPub >= PUB_INTERVAL_MS, in unsigned arithmetic.
Due == (millis - lastPub) % ClockMod >= PUB_INTERVAL_MS

Check ==
  /\ pc = "check"
  /\ Goto(IF Due THEN "publish" ELSE "connectWiFi")
  /\ UNCHANGED <<lastPub, seq, led, millis, wifi, session, elapsed, faults>>

Publish ==
  /\ pc = "publish"
  /\ lastPub' = millis
  /\ elapsed' = 0
  /\ seq' = (seq + 1) % SeqMod
  /\ Goto("connectWiFi")
  /\ UNCHANGED <<led, millis, wifi, session, faults>>

Program ==
  \/ connectWiFi \/ beginWiFi
  \/ StillConnected \/ Connect \/ Subscribe
  \/ Serve \/ Check \/ Publish

WifiNext ==
  \/ WifiTick \/ WiFiFails \/ SessionFails \/ WiFiReturns \/ SessionFound
  \/ Program

WifiSpec == WifiInit /\ [][WifiNext]_wifiVars

\* The program runs on, time passes, the access point answers, a dead session
\* is found out, and the broker accepts a connection that is tried for ever.
Fairness ==
  /\ WF_wifiVars(Program)
  /\ WF_wifiVars(WifiTick)
  /\ WF_wifiVars(WiFiReturns)
  /\ WF_wifiVars(SessionFound)

WifiFairSpec == WifiSpec /\ Fairness

-----------------------------------------------------------------------------

\* A session is never served without its subscription: whichever sessions died
\* and at whichever point, a command sent to a live one reaches the node.
ServedMeansSubscribed ==
  pc \in {"serve", "check", "publish"} /\ connected /\ alive => subscribed

\* Publications are an interval apart, also where the clock wraps and after
\* however long the program was blocked.
PublicationsPaced == [][seq' # seq => elapsed = PUB_INTERVAL_MS]_wifiVars

\* When the network has stopped failing, samples reach the broker for ever.
SamplesArrive == []<><<Publish /\ alive>>_wifiVars
=============================================================================
