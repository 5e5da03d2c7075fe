------------------------------ MODULE MqttNode ------------------------------
(***************************************************************************)
(* The MQTT node of practica 6: practicas/p6-coap-mqtt/mqtt-node.c.        *)
(*                                                                         *)
(* One Contiki process runs a connection state machine whenever it is      *)
(* polled or gets an expiry of its only event timer, while the MQTT engine *)
(* (a process of its own, outside this repository) calls mqtt_event as the *)
(* connection comes up, goes down or delivers a command.  The two share    *)
(* `state', the poll flag, the engine's single message slot and the        *)
(* buffer `app_buffer', which the engine reads after mqtt_publish returns. *)
(*                                                                         *)
(* A sample is represented by its sequence number; how it is rendered is   *)
(* left out.  Delays are left out too: a running timer may expire at any   *)
(* time, so every order of expiries, polls and engine events is explored.  *)
(***************************************************************************)
EXTENDS Naturals

CONSTANTS
  None,             \* no message, no sample
  Subscribe,        \* the SUBSCRIBE message of the command topic
  MaxSeq,           \* bound: samples published
  MaxTimerEvents    \* bound: expiry events waiting in the process's queue

ASSUME MessagesAssumption ==
  /\ None # Subscribe
  /\ None \notin Nat
  /\ Subscribe \notin Nat

ASSUME BoundsAssumption ==
  /\ MaxSeq \in Nat
  /\ MaxTimerEvents \in Nat \ {0}

VARIABLES
  \* the process
  state,         \* STATE_WAIT_NET, STATE_CONNECTING, ...
  timer,         \* the interval the event timer runs for, or "expired"
  seq,           \* next sample number
  app_buffer,    \* the sample last written to the publish buffer
  led,           \* the red LED
  \* the scheduler
  timerEvents,   \* PROCESS_EVENT_TIMER events not dispatched yet
  poll,          \* process_poll was called and is not dispatched yet
  \* the network, the engine and the broker
  network,       \* a global address and a default route exist
  link,          \* the connection, as the engine sees it
  slot,          \* the message the engine accepted and has not written yet
  wire,          \* the message in the TCP output buffer
  subscribed,    \* the broker has the node's subscription
  received       \* one more than the last sample the broker got

process == <<state, timer, seq, app_buffer, led>>
scheduler == <<timerEvents, poll>>
engine == <<link, slot, wire, subscribed, received>>
vars == <<process, scheduler, network, engine>>

States == {"WAIT_NET", "CONNECTING", "CONNECTED", "DISCONNECTED"}
Intervals == {"NET_CHECK", "RECONNECT", "PUB"}
Messages == Nat \cup {None, Subscribe}

TypeOK ==
  /\ state \in States
  /\ timer \in Intervals \cup {"expired"}
  /\ seq \in Nat
  /\ app_buffer \in Nat \cup {None}
  /\ led \in BOOLEAN
  /\ timerEvents \in 0 .. MaxTimerEvents
  /\ poll \in BOOLEAN
  /\ network \in BOOLEAN
  /\ link \in {"closed", "opening", "up", "closing"}
  /\ slot \in Messages
  /\ wire \in Messages
  /\ subscribed \in BOOLEAN
  /\ received \in Nat

Init ==
  /\ state = "WAIT_NET"
  /\ timer = "NET_CHECK"
  /\ seq = 0
  /\ app_buffer = None
  /\ led = FALSE
  /\ timerEvents = 0
  /\ poll = FALSE
  /\ network = FALSE
  /\ link = "closed"
  /\ slot = None
  /\ wire = None
  /\ subscribed = FALSE
  /\ received = 0

-----------------------------------------------------------------------------
(* The library calls of the process, as mqtt-node.c relies on them.        *)

etimer_set(interval) == timer' = interval
etimer_expired == timer = "expired"

mqtt_ready == link = "up" /\ slot = None
out_buffer_sent == wire = None

\* Opens a closed connection; on any other it changes nothing.
mqtt_connect ==
  /\ link' = IF link = "closed" THEN "opening" ELSE link
  /\ UNCHANGED <<slot, wire, subscribed, received>>

\* On a connection that is still opening the call may do nothing, start an
\* orderly close (reported later), or drop it at once without a report.
mqtt_disconnect ==
  /\ link' \in IF link = "opening" THEN {"opening", "closing", "closed"}
               ELSE IF link = "up" THEN {"closing"} ELSE {link}
  /\ UNCHANGED <<slot, wire, subscribed, received>>

-----------------------------------------------------------------------------
(* The process.                                                            *)

have_connectivity == network

\* A plausible slip: a publication that is refused uses up its number.
publish_sampleSkips ==
  /\ app_buffer' = seq
  /\ \/ /\ seq < MaxSeq
        /\ seq' = seq + 1
        /\ slot' = seq \/ UNCHANGED slot
     \/ UNCHANGED <<slot, seq>>
  /\ UNCHANGED <<link, wire, subscribed, received>>

\* The buffer is rewritten before the engine is asked; the number is taken
\* only if the engine accepts the message.
publish_sample ==
  /\ app_buffer' = seq
  /\ \/ /\ seq < MaxSeq
        /\ slot' = seq
        /\ seq' = seq + 1
     \/ UNCHANGED <<slot, seq>>
  /\ UNCHANGED <<link, wire, subscribed, received>>

\* A plausible slip: the numbering starts again with every session.
WaitNetRenumbers ==
  /\ state = "WAIT_NET"
  /\ IF have_connectivity
     THEN /\ state' = "CONNECTING"
          /\ mqtt_connect
          /\ seq' = 0
          /\ etimer_set("RECONNECT")
     ELSE /\ etimer_set("NET_CHECK")
          /\ UNCHANGED <<state, seq, engine>>
  /\ UNCHANGED app_buffer

WaitNet ==
  /\ state = "WAIT_NET"
  /\ IF have_connectivity
     THEN /\ state' = "CONNECTING"
          /\ mqtt_connect
          /\ etimer_set("RECONNECT")
     ELSE /\ etimer_set("NET_CHECK")
          /\ UNCHANGED <<state, engine>>
  /\ UNCHANGED <<seq, app_buffer>>

\* A plausible slip: the timeout goes back to STATE_WAIT_NET unarmed.
ConnectingUnarmed ==
  /\ state = "CONNECTING"
  /\ IF etimer_expired
     THEN mqtt_disconnect /\ state' = "WAIT_NET"
     ELSE UNCHANGED <<state, engine>>
  /\ UNCHANGED <<timer, seq, app_buffer>>

Connecting ==
  /\ state = "CONNECTING"
  /\ IF etimer_expired
     THEN /\ mqtt_disconnect
          /\ state' = "WAIT_NET"
          /\ etimer_set("NET_CHECK")
     ELSE UNCHANGED <<state, timer, engine>>
  /\ UNCHANGED <<seq, app_buffer>>

\* A plausible slip: the mqtt_ready half of the guard is dropped.
ConnectedUnready ==
  /\ state = "CONNECTED"
  /\ IF out_buffer_sent
     THEN publish_sample
     ELSE UNCHANGED <<seq, app_buffer, engine>>
  /\ etimer_set("PUB")
  /\ UNCHANGED state

\* A plausible slip: an engine that is busy is taken for a lost connection.
ConnectedGivesUp ==
  /\ state = "CONNECTED"
  /\ IF mqtt_ready /\ out_buffer_sent
     THEN publish_sample /\ UNCHANGED state
     ELSE state' = "WAIT_NET" /\ UNCHANGED <<seq, app_buffer, engine>>
  /\ etimer_set("PUB")

\* A plausible slip: the timer is set again only after a publication.
ConnectedStops ==
  /\ state = "CONNECTED"
  /\ IF mqtt_ready /\ out_buffer_sent
     THEN publish_sample /\ etimer_set("PUB")
     ELSE UNCHANGED <<timer, seq, app_buffer, engine>>
  /\ UNCHANGED state

Connected ==
  /\ state = "CONNECTED"
  /\ IF mqtt_ready /\ out_buffer_sent
     THEN publish_sample
     ELSE UNCHANGED <<seq, app_buffer, engine>>
  /\ etimer_set("PUB")
  /\ UNCHANGED state

\* A plausible slip: the node reconnects as soon as it is told.
DisconnectedReconnects ==
  /\ state = "DISCONNECTED"
  /\ state' = "CONNECTING"
  /\ mqtt_connect
  /\ etimer_set("RECONNECT")
  /\ UNCHANGED <<seq, app_buffer>>

Disconnected ==
  /\ state = "DISCONNECTED"
  /\ state' = "WAIT_NET"
  /\ etimer_set("RECONNECT")
  /\ UNCHANGED <<seq, app_buffer, engine>>

state_machine ==
  /\ WaitNet \/ Connecting \/ Connected \/ Disconnected
  /\ UNCHANGED <<led, network>>

\* The thread dispatches an expiry event, possibly one that was queued
\* before the timer was set again ...
HandleTimer ==
  /\ timerEvents > 0
  /\ timerEvents' = timerEvents - 1
  /\ state_machine
  /\ UNCHANGED poll

\* ... or a poll; polls that arrive before the dispatch are one.
HandlePoll ==
  /\ poll
  /\ poll' = FALSE
  /\ state_machine
  /\ UNCHANGED timerEvents

-----------------------------------------------------------------------------
(* mqtt_event: the callback the engine runs in its own process.            *)

\* A plausible slip: the subscription is made once, at the first connection.
OnConnectedOnce ==
  /\ state' = "CONNECTED"
  /\ slot' = IF seq = 0 THEN Subscribe ELSE slot
  /\ poll' = TRUE

\* The subscription fills the slot: a new connection's slot is empty.
OnConnected ==
  /\ state' = "CONNECTED"
  /\ slot' = Subscribe
  /\ poll' = TRUE

OnDisconnected ==
  /\ state' = "DISCONNECTED"
  /\ poll' = TRUE

handle_command(payload) ==
  led' = CASE payload = "led=on" -> TRUE
           [] payload = "led=off" -> FALSE
           [] OTHER -> led

-----------------------------------------------------------------------------
(* What the process does not control.                                      *)

\* The timer runs out.  Its expiry is posted as an event; while the queue
\* is full it is posted later.
TimerExpires ==
  /\ ~etimer_expired
  /\ timerEvents < MaxTimerEvents
  /\ timer' = "expired"
  /\ timerEvents' = timerEvents + 1
  /\ UNCHANGED <<state, seq, app_buffer, led, poll, network, engine>>

NetworkJoins ==
  /\ ~network
  /\ network' = TRUE
  /\ UNCHANGED <<process, scheduler, engine>>

NetworkLost ==
  /\ network
  /\ network' = FALSE
  /\ UNCHANGED <<process, scheduler, engine>>

\* The TCP connection is open and the broker has accepted the session.
LinkUp ==
  /\ link = "opening"
  /\ link' = "up"
  /\ OnConnected
  /\ UNCHANGED <<timer, seq, app_buffer, led, timerEvents, network,
                 wire, subscribed, received>>

\* A connection that is opening, up or closing ends; what was not delivered
\* is lost, and the engine may at once open the next one by itself.
LinkEnds(from) ==
  /\ link = from
  /\ link' \in {"closed", "opening"}
  /\ slot' = None
  /\ wire' = None
  /\ subscribed' = FALSE
  /\ OnDisconnected
  /\ UNCHANGED <<timer, seq, app_buffer, led, timerEvents, network, received>>

AttemptFails == LinkEnds("opening")
LinkDrops == LinkEnds("up")
CloseDone == LinkEnds("closing")

\* The engine copies the message in the slot to the output buffer.  A sample
\* is read from app_buffer now, not when mqtt_publish was called.
EngineWrites ==
  /\ link = "up"
  /\ slot # None
  /\ wire = None
  /\ wire' = IF slot = Subscribe THEN Subscribe ELSE app_buffer
  /\ slot' = None
  /\ UNCHANGED <<process, scheduler, network, link, subscribed, received>>

\* The output buffer reaches the broker.
WireDelivers ==
  /\ link = "up"
  /\ wire # None
  /\ wire' = None
  /\ IF wire = Subscribe
     THEN subscribed' = TRUE /\ UNCHANGED received
     ELSE received' = wire + 1 /\ UNCHANGED subscribed
  /\ UNCHANGED <<process, scheduler, network, link, slot>>

\* MQTT_EVENT_PUBLISH: a command for a subscribed node.
Command ==
  /\ link = "up"
  /\ subscribed
  /\ \E payload \in {"led=on", "led=off", "unknown"} : handle_command(payload)
  /\ UNCHANGED <<state, timer, seq, app_buffer, scheduler, network, engine>>

Next ==
  \/ HandleTimer
  \/ HandlePoll
  \/ TimerExpires
  \/ NetworkJoins
  \/ NetworkLost
  \/ LinkUp
  \/ AttemptFails
  \/ LinkDrops
  \/ CloseDone
  \/ EngineWrites
  \/ WireDelivers
  \/ Command

Spec == Init /\ [][Next]_vars

-----------------------------------------------------------------------------
(* Fairness.  Timers run out and queued work is dispatched; the engine      *)
(* writes, delivers and finishes closing; the mesh forms.  An attempt that  *)
(* is made again and again is answered some time, and a message offered     *)
(* again and again is accepted some time.                                   *)

PublishAccepted == (HandleTimer \/ HandlePoll) /\ seq' = seq + 1

Fairness ==
  /\ WF_vars(TimerExpires)
  /\ WF_vars(HandleTimer)
  /\ WF_vars(HandlePoll)
  /\ WF_vars(NetworkJoins)
  /\ WF_vars(CloseDone)
  /\ WF_vars(EngineWrites)
  /\ WF_vars(WireDelivers)
  /\ SF_vars(LinkUp)
  /\ SF_vars(PublishAccepted)

FairSpec == Spec /\ Fairness

\* The environment's failures.
Fault == NetworkLost \/ AttemptFails \/ LinkDrops

-----------------------------------------------------------------------------
(* Safety.                                                                  *)

\* The process is never stranded: if its timer has run out, an expiry event
\* is still in the queue, however polls, stale expiries and callbacks of the
\* engine were interleaved (every dispatch that consumes the last event sets
\* the timer again).
WakeupPending == etimer_expired => timerEvents > 0

\* The timer runs for what the state waits for.  In particular no reconnect
\* is decided by a publish timer, and a node that went back to waiting for the
\* network never does so on an expired timer that nothing will renew.
TimerMatchesState ==
  /\ state = "WAIT_NET" => timer # "PUB"
  /\ state = "CONNECTING" => timer \in {"RECONNECT", "expired"}
  /\ state = "CONNECTED" /\ ~poll => timer \in {"PUB", "expired"}
  /\ state = "DISCONNECTED" => poll

\* The node believes it is connected exactly while the engine's connection is
\* up, although the two are written by different processes and an attempt the
\* node gave up on may still succeed later.
ConnectedMeansUp == state = "CONNECTED" <=> link = "up"

\* The engine sends the bytes it was given: as long as it holds a pointer to
\* app_buffer, publish_sample does not write another sample there.
BufferIntact == slot \in Nat => app_buffer = slot

\* The broker gets the node's samples in order, none before an earlier one, and
\* only samples the node counted, across reconnections and failed publications.
\* The stream does not tell a sample that arrives twice in a row from one that
\* arrives once, nor a number that no sample was sent with from one whose sample
\* was lost: EachNumberOnce of MqttHistory does.
Stream == INSTANCE SampleStream WITH
  Sources <- {"node"},
  issued <- [s \in {"node"} |-> seq],
  expected <- [s \in {"node"} |-> received]

StreamSpec == Stream!Spec

-----------------------------------------------------------------------------
(* Liveness.                                                                *)

\* Once the network, the connection attempts and the connection stop failing,
\* the node is connected for good, from every state the failures left it in.
NodeRecovers == <>[][~Fault]_vars => <>[](state = "CONNECTED")

\* A connection that stays up carries the subscription to the broker, so that
\* commands reach the node again after every reconnection.
Resubscribes == <>[](state = "CONNECTED") => <>[]subscribed

\* On a connection that stays up every sample is published, and whatever the
\* engine accepted leaves it.
PublishesAll ==
  <>[](state = "CONNECTED") => <>[](seq = MaxSeq /\ slot = None /\ wire = None)
=============================================================================
