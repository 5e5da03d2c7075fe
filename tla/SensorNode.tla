----------------------------- MODULE SensorNode -----------------------------
(***************************************************************************)
(* Practica 5: the passive node behind the border router                   *)
(* (practicas/p5-border-router/sensor-node.c).  It looks every five        *)
(* seconds whether it has joined the network and, once it has a global     *)
(* address, prints it for whoever wants to reach it from outside.          *)
(***************************************************************************)

VARIABLES
  timer,         \* "running", or "expired" when its event is to be handled
  announced,
  reachable,     \* RPL: the node has joined
  global         \* the node has a preferred global address

sensorVars == <<timer, announced, reachable, global>>

SensorTypeOK ==
  /\ timer \in {"running", "expired", "stopped"}
  /\ announced \in BOOLEAN
  /\ reachable \in BOOLEAN
  /\ global \in BOOLEAN

SensorInit ==
  /\ timer = "running"
  /\ announced = FALSE
  /\ reachable = FALSE
  /\ global = FALSE

-----------------------------------------------------------------------------

TimerExpires ==
  /\ timer = "running"
  /\ timer' = "expired"
  /\ UNCHANGED <<announced, reachable, global>>

\* The route and the address come and go with RPL's messages, not together.
RouteChanges ==
  /\ reachable' = ~reachable
  /\ UNCHANGED <<timer, announced, global>>

AddressChanges ==
  /\ global' = ~global
  /\ UNCHANGED <<timer, announced, reachable>>

\* A plausible slip: the timer is set again only after an announcement.
PeriodicTimerStops ==
  /\ timer = "expired"
  /\ announced' = (announced \/ (reachable /\ global))
  /\ timer' = IF announced' THEN "running" ELSE "stopped"
  /\ UNCHANGED <<reachable, global>>

\* The process handles the expiry and sets the timer again.
PeriodicTimer ==
  /\ timer = "expired"
  /\ announced' = (announced \/ (reachable /\ global))
  /\ timer' = "running"
  /\ UNCHANGED <<reachable, global>>

SensorNext ==
  TimerExpires \/ RouteChanges \/ AddressChanges \/ PeriodicTimer

\* The timer expires and its event is handled.
SensorFairness == WF_sensorVars(TimerExpires) /\ WF_sensorVars(PeriodicTimer)

-----------------------------------------------------------------------------

\* A node that has joined for good, and keeps its address, says so in the end,
\* however often both came and went before.
Announces == <>[](reachable /\ global) => <>announced
=============================================================================
