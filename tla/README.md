# Formal models of wsn-lab

TLA+ specifications of the programs of the wireless-sensor-network laboratory,
the TLC configurations that check them and TLAPS proofs of their main
invariants. Every definition was translated from the source; `PROJECT.json`
("map") names the lines each one stands for. Code outside the repository
(Contiki-NG, the MQTT engine, RPL, the Arduino libraries, Docker, git) is
modelled only as the repository uses it and marked *external* there.

## The system

| Part | Code | State it keeps | Operations | Talks to | Modules |
|---|---|---|---|---|---|
| MQTT node (p6) | `p6-coap-mqtt/mqtt-node.c` | `state`, `timer`, `seq`, `app_buffer`, the LED | thread on poll or expiry, `mqtt_event`, `publish_sample` | MQTT engine (callback, poll, shared buffer), broker | `MqttNode`, `MqttHistory` |
| NullNet star (p2) | `nullnet-unicast.c`, `pdr.js` | `tx_sample`; `rx_count`, `last_seq` at the sink; script counts | periodic send, `input_callback` | radio frames, log lines | `NullnetStar` |
| RPL/UDP collection (p4, p7, p9) | `udp-client.c`, `p9-proyecto/nodo/nodo-sensor.c`, `udp-server.c`, `metrics.js` | `seq`, `last_parent`; `rx_count`, `last_seq` at the root; script tables | timer with sample and `report_parent`, `udp_rx_callback`, TIMEOUT summary | datagrams, log lines, Cooja's drawing | `UdpClient`, `UdpCollect` |
| Energy node (p3) | `energy-node.c` | two timers, `seq`, energest counters | one loop for any event | energest, RPL, `energy_calc.py` | `EnergyNode` |
| Sampling node (p1) | `hello-sensor.c` | temperature, `periodic_timer`, `led_timer`, LEDs | sample, LED callback, button | the three share the LEDs | `HelloSensor` |
| Wi-Fi MQTT node (p8) | `wifi-mqtt-node.ino` | `lastPub`, `seq`, the session | `loop()` step by step | access point, broker | `WifiMqttNode` |
| LoRa node and gateway (p8) | `heltec-lora-*.ino` | `seq` of each node; `rxFlag`, the radio's frame and line | nodes' `loop()`, interrupt, gateway's `setup()` and `loop()` | frames, interrupt, broker | `LoraGateway` |
| CoAP server (p6) | `coap-server.c`, `res-led.c`, `res-temp.c` | `led_state`, the LED, the walk of the temperature | a handler per request | CoAP engine, a client behind the border router | `CoapServer` |
| Passive node (p5) | `sensor-node.c` | `timer`, `announced` | one loop | RPL, the address list | `SensorNode`, `BorderNetwork` |
| Serial bridge | `scripts/serial-tcp-bridge.py` | `conn`, `stop`, thread, the port | main loop, `serial_to_tcp` | a thread through a closure, TCP clients | `SerialBridge` |
| Laboratory start | `docker-compose.yml` | the volume `contiki-ng` and its mark | the script of `contiki-init` | git, `cooja` (depends_on) | `ContikiInit` |
| Scalability sweep (p7) | `run_experiment.sh`, `cooja-headless.sh`, `metrics.js`, `parse_results.py` | loop variables; `sim/n<N>.csc` and the logs, which outlive it | loops over sizes and seeds, one headless run each | Docker Compose, Cooja, files | `Sweep` |

`SampleStream` is the abstract promise they have in common: a source numbers
its samples 0, 1, 2, ..., and the collector sees an increasing subsequence.
`MqttNode`, `NullnetStar`, `UdpCollect` and `LoraGateway` implement it, each
through a refinement mapping at the end of the module.

What is hard here is asynchrony: firmware callbacks and timers that share
variables with a process, messages lost or out of order, counters that wrap or
restart, two threads over rebound variables, a script killed half-way, a sweep
over a laboratory that others stop and files that earlier sweeps left. The list,
each at its line and with the properties about it, is "hazards" in
`PROJECT.json`.

## Modules and code

**MqttNode.** One action per way the thread runs (`HandleTimer`, `HandlePoll`,
both the whole `state_machine`), one per engine event. The etimer is its
interval or "expired", with a separate count of queued expiry events: setting
the timer again does not remove an expiry already queued, so a stale one runs
the state machine as it does in Contiki-NG. Polls coalesce. The engine is a
connection (`link`), one message `slot` and the output buffer `wire`; it reads
`app_buffer` when it writes, not when `mqtt_publish` is called. `mqtt_disconnect`
on an attempt in progress may do nothing, close in order or close unreported,
and the engine may reconnect by itself (its auto-reconnect). Real time is left
out: a running timer may expire at any moment, so no order depends on the values
of the intervals. **MqttHistory** adds three history variables: `credit`, which
grows with each expiry (up to `MaxCredit`) and shrinks with each call of
`mqtt_connect`, and `delivered` and `lost`, what became of the samples. The
stream of `SampleStream` cannot tell a repeated sample from one that arrived once,
nor a number that was never sent from a sample that was lost; `EachNumberOnce`
can. The module changes nothing else, and the run checks all of `MqttNode` on the
extended specification.

**NullnetStar.** Frames of one sender stay in order and may be lost. The 16-bit
counters are kept modulo `SeqMod`. A reboot resets the sender's static data only.
`txLines`/`rxLines` are the script's counts. The sink computes a ratio from
`rx_count` and the last number, so of a sender that wraps or reboots it logs more
than 100 % (`nullnet-unicast.c:63`). `Steady` names the senders of which neither
happens; what is said about ratio and stream is said of them, while the others
wrap and reboot beside them.

**UdpClient, UdpCollect.** The client's timer, the sample and the report with
every `ReportEvery`-th one; whether RPL has a route and which parent it prefers
is an input of each wakeup, since it may have changed any number of times. The
composition adds datagrams (those of the `Multihop` clients can overtake each
other), the root's tables and the script. An id of `MAX_NODES` or more has no
entry and its line does not match the script's expression. `TX` is printed with
the send, in the same handler, so the two are one action. The report is inside
the branch of a sample sent (`udp-client.c:102`): without a route nothing is
printed, and a parent that was lost goes on being drawn although the header (6)
says that parents are printed periodically. The clients that are not `Reporters`
run the program of practica 9, which is the same without the report; its header
(`nodo-sensor.c:6`) still promises one.

**EnergyNode.** Two timers, one queue, one loop that looks at both timers on any
event. The radio's time is accounted for when it changes state or at
`energest_flush`, so `line` can differ from the time spent unless it is flushed.
The root is one of the values of `node_id`. The program's `seq` is `energySeq`.

**HelloSensor.** The only module with a clock: properties about pulses and drift
depend on times. A due timer may wait up to `Late` ticks for its handler.
`TimesAssumption` (`2 * Late + LED_PULSE < SAMPLE_INTERVAL`) stands for 5 s,
250 ms and handlers of microseconds.

**WifiMqttNode.** `pc` runs through the calls of `loop()` that can see a change
of the network. `alive` is the session, `connected` what the client believes.
`millis` wraps at `ClockMod`; between two unblocked steps at most `StepTicks`
pass, and `LoopAssumption` says that a pass and an interval are short compared
with a turn of the clock (milliseconds and 20 s against 49 days). While
blocked, the clock may turn any number of times.

**LoraGateway.** The radio holds the last frame and a line that is up until the
frame is read or reception is restarted; `onReceive` runs on a rising line.
Reading, restarting, testing and clearing the flag are steps of their own. `Hear`
is any frame the radio hears: of one of the `Nodes`, or `Foreign`, which is only
logged. `setup()` ends in `halted` when the radio does not start. Of a frame's
text its sender and number are kept. A flag raised after its clearing and before
`readData` makes `loop()` read the same frame again: the last sample may be
published twice in a row, which `SampleStream` does not tell from once.

**CoapServer, SensorNode, BorderNetwork.** The two motes that are reached through
the border router. A handler is one action, as it is one call of the CoAP engine;
the engine calls it for every copy of a request. The client is external: it has
one request at a time, repeats it, gives up, and takes no answer to an earlier
request. `ops` is what it asked for; `acked`, `read`, `newest` and `overtaken` are
history. A copy that arrives after a later command undoes that command: the
server keeps no order of requests, and `ReadsOwnWrites` promises nothing then
(`overtaken`). `Quotient` and `Remainder` are C's, so the
text of a temperature keeps its two signs. `SensorNode` is a timer and a flag
against a route and an address that come and go separately. `BorderNetwork` runs
both: the motes share no variable.

**SerialBridge.** `conn` and `stop` are variables of main, read by the thread
when it uses them; the read of `conn` and the `sendall` on it are separate steps.
A `sendall` may outlast `t.join(1)`; the history variable `outlasted` is the first
session in which one did. What holds only until then (`EndsForAReasonAlone`), or
only for the sessions up to that one (`BytesInOrder`), says so with it; that no chunk
is delivered twice (`NoneTwice`) and that a client that leaves is let go
(`LeavingIsNoticed`) hold whatever the threads that are left do.

**ContikiInit.** One action per command of the script; `git clone` has a partial
state, and a kill leaves the volume as it is. A clone that fails by itself
removes what it made. Commands whose failure needs more than the network (a full
disk) are left out.

**Sweep** extends `ContikiInit`: every step of the laboratory is a step of it
(`LabStep`), which also decides what becomes of the sweep. `docker compose up -d`
starts the script again (`Headless`) and returns when the script has ended well
and Cooja runs (`ComposeReturns`); it fails with the script, and a running
simulation fails with Cooja's container (`ComposeFails`). `step` is where
`run_experiment.sh` and the programs it waits for are, `loops` its variables,
reset when it ends in a failure. A `.csc` file and a log are abstracted to the
parameters (`AREA`, `RANGE`, `INTERVAL`, `LAYOUT`, as one of `Settings`) they were
made with, and a log to whether it has a `TOTAL`; both outlive a sweep. `Rows` is
what `parse_results.py` makes of them. A log is opened only when the simulation
has been built and loaded, so a job that fails before that leaves the one of an
earlier sweep.

## Runs

Each run is a module with a cfg that gives its constants. Bounds are constants of
the modules and named in their comments.

| Run | What it shows | Why the bounds are enough |
|---|---|---|
| `MCMqtt` | invariants, pacing, the fate of every number, refinement; recovery, resubscription and publication of everything | 3 samples: one in the slot, one on the wire, one being written; 2 expiry events: one current, one stale; 3 saved expiries: one for each event and one for a poll |
| `MCNullnetStar` | ratio, stream, agreement of script and sink | 2 steady senders, one outside the tables, that use every number; one that wraps and reboots; losses of any subset of the frames |
| `MCUdpCollect` | counts agree, the summary is a ratio, the drawing follows reports, the stream | a near client, one several hops away and one outside the tables; 4 samples each, 2 of them with a report; 2 parents and none |
| `MCEnergyNode` | no expiry unattended, true reports, no stop | 3 events for 2 timers leave room for one that finds nothing to do; 3 ticks allow one in each radio state |
| `MCHelloSensor` | pulses, drift, LEDs | 6/2/1 ticks keep the order of the real times; the temperature crosses the threshold and both limits |
| `MCWifiMqttNode` | subscription, pace, arrival | 2 failures, so that one meets the recovery from another; 9 ticks turn the clock three times an interval |
| `MCLoraGateway` | no frame forgotten, streams | 2 nodes of 3 frames each and frames of others: one read, one in the radio, one that overwrites it |
| `MCSerialBridge` | order, no chunk twice, reason and end of sessions, with joins that give up | 2 sessions are the least that share the variables and leave a thread to the next; 3 chunks make a gap visible |
| `MCSweep` | the mark, what simulations run on, what `Listo` means, the end of sweeps, starting again | 2 sizes and 2 seeds, so that both loops go round; 2 sweeps with 2 settings, so that one finds the files of another; 2 submodules, 1 kill at any command (each of the five is as the second) |
| `MCBorderNetwork` | commands, reads, temperatures; announcement | 3 requests: two commands and a read, or a late copy of one between two others; the walk starts at 2 tenths (the code's 250 is as far from zero as 50 readings) and takes steps of 4 through every case of sign and tenths, 12 to either side |

Two runs expect a violation: they check what a comment or the documentation
says and the code does not do.

- `MCUdpCollectMultihop`: the root "mantiene la tasa de entrega por nodo"
  (`udp-server.c:6`), but the ratio it prints passes 100 % when a datagram was
  overtaken.
- `MCSerialBridgeForeign`: a thread whose `sendall` outlasts `t.join(1)` goes on
  with the variables of the next session, and ends a session whose client is
  there. In the same way it becomes a second reader of the port, which is why
  `BytesInOrder` promises nothing to the sessions after it.

Other disagreements are seen in what a property that holds has to leave out:

- `RetryRecovers` supposes `CloneNeverCut`: "vuelve a ejecutar `docker compose up
  -d`" (`README.md:194`) does not help after a kill during `git clone`.
- `PdrAtMost100` leaves out the sender that wraps or reboots: its own ratio passes
  100 % (`nullnet-unicast.c:61`, 63).
- `TemperatureReadsBack` leaves out temperatures below zero that are not whole, and
  says of them only that no other temperature is read:
  `res-temp.c:35` and `mqtt-node.c:112` send them with two signs, as JSON. The LoRa
  gateway (82) takes the second sign away and loses the only one of -0.1 to -0.9,
  which is the slip `TextUnsigned`.

"findings" in `PROJECT.json` quotes the lines. The type invariant of `NullnetStar`
is checked in its run, where a counter that does not wrap breaks it; those of the
other modules document the state, appear in no run and are proved.

`CHECK_DEADLOCK FALSE` is set where a bound ends the behaviour (samples, sessions,
requests) or the program stops by design (`Timeout`, a radio that does not start).

### Fairness

Only what the code or its scheduler provides:

- Contiki-NG dispatches queued events and polls and expires timers: weak
  fairness of handlers and timers. In `EnergyNode` an expiry that finds the
  queue full is tried again by the etimer process, and two timers compete for
  the room: strong fairness of the expiries.
- `MqttNode`: the mesh forms, the engine writes, delivers and finishes a close
  (weak). An attempt repeated for ever is answered some time, a publication
  offered for ever is accepted some time (strong: each retry is disabled in
  between). Nothing is assumed of the faults; `NodeRecovers` supposes that they stop.
- The threads of the bridge, `loop()` of the sketches and the init script run on.
  Clients, the port, the button, commands and the user's `down` owe nothing; `Up`
  is fair in `ContikiInit` because `RetryRecovers` is about a user who tries again.
- `Sweep`: the commands of a started sweep run on and a simulation comes to its
  TIMEOUT (weak). Failures, Ctrl+C and what others do to the laboratory owe
  nothing, and need not stop: `SweepEnds` holds all the same.
- `SensorNode`: its timer. Route and address come and go as they like; `Announces`
  is about those that stay.
- `WifiMqttNode`: the access point answers and a dead session is found out
  (keepalive).

## Proofs

Every safety property the passing runs check (type invariants, invariants, action
properties and refinements) is a theorem, proved by TLAPS for every value of the
constants that the modules' assumptions allow. An invariant is proved with what
makes it inductive; the argument is a lemma per action, and the temporal step
puts them together.

- `MqttNodeProofs`: type correctness, `WakeupPending` and `TimerMatchesState`,
  `ConnectedMeansUp`, `BufferIntact`, and the refinement of `SampleStream`. The
  inductive invariant `IInv` adds to these what each needs of the others: what
  is in the slot and on the wire relates to `seq`, `received` and `app_buffer`
  (the refinement needs that the engine's samples are in order and newer than
  what was received), and both are empty unless the link is up or closing. Then
  `AttemptsArePaced`, of `MqttHistory`: the credit covers the attempt that the
  present state can still make (`CreditInv`); that a state's timer has expired
  before it connects comes from `IInv`. `EachNumberOnce` needs of `IInv` that the slot
  is empty when a number is taken and that what the engine holds is newer than what
  the broker got.
- `NullnetStarProofs`: type correctness, `PdrAtMost100`, `SinkAgreesWithScript` and
  the refinement, for any set of senders, finite or not, any of them steady. The
  invariant of ratio and stream is stated of one steady sender (`NodeInv`): frames
  in flight are newer than the last one received, and the sink has counted no more
  samples than it has seen numbers. A lemma shows that what another sender does,
  rebooting and wrapping included, leaves it alone. That the instruments agree
  needs the other senders, too: `TotalInv` keeps the script's RX lines equal to the
  sum of the entries up to the counters' width, a wrap of any entry included, and
  `FlightInv` keeps them, with the frames in flight, below the TX lines.
- `UdpCollectProofs`: type correctness, `OneEdgeAtMost`, `ScriptAgrees`,
  `SummaryIsARatio` and the refinement for the near clients. `CollectInv` adds what
  is in the air: finitely many numbers, all below the client's and, of a near
  client, none below what the root knows; with what the root has counted they are
  no more than the client sent. `SummaryInv` adds that the clients heard of are
  finitely many, so that their totals are sums and compare as the counts do.
- `SumTheorems`: what those two need of sums. `SumFunctionOnSet` of the community
  modules is a fold, which the provers know nothing about: the module proves that
  it adds the elements up one by one, and from there when two sums compare
  (`SumMonotone`) and what a sum becomes when one value changes (`SumChanged`). An
  induction over the size of a set cannot cite a theorem with an operator parameter
  here; it goes through the subsets that have the property, as a set
  (`FiniteInduction`).
- `TimedNodesProofs`, the three nodes that live by their timers. `EnergyNode`:
  `NoExpiryUnattended`, with the types, is inductive, as one event may serve both
  expiries, but then both timers run again; `ReportsTheTime` follows from the flush
  alone, for any time. `HelloSensor`: `OneColour` and `PulseWillEnd`, `OnSchedule`,
  from `TimesAssumption`; the invariant ties the LED timer to the sampling timer: a
  pulse in progress began with the last sample, and ends before the next is due.
  `WifiMqttNode`: `ServedMeansSubscribed` and `PublicationsPaced`. `SessionInv` says
  that a live session the client uses is subscribed unless the subscription is the
  next call. `PaceInv` says that until an interval has gone by the difference of the
  two readings of the clock, modulo its width, is the time since the last
  publication: `LoopAssumption` keeps the interval below a turn of the clock.
- `LoraGatewayProofs`: type correctness, `NoFrameForgotten` and the refinement, for
  any nodes. `FlagInv` adds that the line is up only while the flag is or while
  `loop()` has yet to read: then no frame finds the line up for nothing.
  For the refinement, every frame held was sent, is not older than what was
  published, and the radio's is not older than the one in `loop()`'s hands.
- `SweepProofs`: of the laboratory, type correctness and `DoneMeansReady`, for any
  number of submodules and kills (`LabInv`: what precedes the mark in the script has
  been done when it is made, and Cooja runs on a marked volume). Of the sweep over
  it, that every step of a sweep is one of the laboratory or leaves it alone, so
  that the laboratory's invariant holds under it; `SimulatesOnReady`; and, for any
  sizes, seeds and parameters, `ListoMeansComplete`. `RowsInv` says where a sweep
  stands: every size begun has a complete row of this sweep's parameters for every
  seed, but for the seeds left of the size in hand, whose `.csc` is this sweep's.
- `BorderProofs`, what stands behind the border router. `SerialBridge`, for any
  number of sessions and chunks and with joins that give up: type correctness,
  `BytesInOrder`, `NoneTwice` and `EndsForAReasonAlone`. `OnceInv` has every chunk
  below `next` in one place, a thread's hands or a client's, however many threads
  read. `ClosedInv` keeps what the sessions up to the outlasted one were promised:
  their connections are closed, and nothing more is sent on them. Until a join gives
  up, `CurrentInv` says that main's variables
  name the session in hand and that no other session has a thread. From there
  `ReasonInv` (nothing ends that session before its client has gone or the port has
  failed) and `ChunksInv` (a chunk in hand is the port's last; a client that can
  still be sent to has every chunk before it). `CoapServer`, for any number of
  requests: `ReadsOwnWrites` and, for a walk of any length and steps,
  `TemperatureReadsBack`. `OrderInv` relates what was acknowledged to the newest
  command carried out; `LedInv` says that, unless a copy came after a later command,
  the LED shows the newest, and that an answer on its way or taken shows a value
  the LED might have had. The text of a temperature is taken apart by sign:
  quotient and remainder of C have the sign of the temperature, or are zero. Type
  correctness covers the passive node, too.

Only model-checked: the liveness properties (`NodeRecovers`, `Resubscribes`,
`PublishesAll`, `SamplesGoOn`, `NoLedStays`, `SamplesArrive`, `LeavingIsNoticed`,
`RetryRecovers`, `SweepEnds`, `Announces`): TLAPS 1.4.5 does not reason about
fairness and ENABLED.

## Not modelled

- The text of messages (JSON, log lines), except that of a temperature in
  `CoapServer`: values are numbers of samples.
- `nullnet-broadcast.c`: the sender of `NullnetStar` without a sink; a receiver
  prints what it hears and keeps nothing.
- `energy_calc.py` and `energy.js`: floating-point sums over the last line of each
  node. That a line tells the truth is `ReportsTheTime`.
- `gen_csc.py`: a pure function of its arguments. Of the sweep: averages and
  plot, the CSV file of an earlier call that stays when there are no rows, two
  sweeps at the same time (they would share `sim/n<N>.csc` and the logs), and a
  Cooja that Ctrl+C leaves running in its container.
- A table for `Listo` is complete, but not exclusive: rows of sizes and seeds that
  only an earlier sweep asked for stay in it, whatever their parameters.
- Configuration and data (`*.csc`, `flows.json`, `mosquitto.conf`), the shell
  helpers, the virtual desktop: they start third-party programs.

## Plan

In this order; all of it is done.

1. Core: `SampleStream`, `MqttNode` (with histories and proofs), `NullnetStar`
   (with proofs), `SerialBridge`, `ContikiInit`, `UdpClient` + `UdpCollect`,
   `EnergyNode` and `HelloSensor` (with proofs), `WifiMqttNode`, `LoraGateway`.
2. `Sweep` over `ContikiInit`; `CoapServer`, with the rendering of temperatures,
   and `SensorNode` in `BorderNetwork`; several nodes and foreign frames at the
   LoRa gateway; the client of practica 9.
3. Proofs: the core's own; `LoraGateway` (`NoFrameForgotten`, refinement);
   `ContikiInit` and `Sweep` (`DoneMeansReady`, `SimulatesOnReady`,
   `ListoMeansComplete`); `UdpCollect` (`OneEdgeAtMost`, `ScriptAgrees`, the near
   clients' stream); `WifiMqttNode` (`ServedMeansSubscribed`, `PublicationsPaced`);
   `SerialBridge` (`BytesInOrder`, `NoneTwice`, `EndsForAReasonAlone`); `CoapServer`
   (`ReadsOwnWrites`, `TemperatureReadsBack`); and with sums the totals of `UdpCollect`
   and `NullnetStar` (`SummaryIsARatio`, `SinkAgreesWithScript`).
