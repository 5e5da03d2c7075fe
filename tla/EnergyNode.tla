----------------------------- MODULE EnergyNode -----------------------------
(***************************************************************************)
(* Practica 3: the node that reports the time its radio spends in each     *)
(* state (practicas/p3-energia-mac/energy-node.c).                         *)
(*                                                                         *)
(* One process has two event timers and takes any event as a reason to     *)
(* look at both: one event may serve two expiries, and the second event    *)
(* then finds nothing to do.  Energest accounts for the radio only when    *)
(* it changes state or is flushed.  How long a timer runs is left out.     *)
(***************************************************************************)
EXTENDS Naturals

CONSTANTS
  NodeIds,       \* ids the firmware may be running with
  ROOT_ID,
  EnergySeqMod,  \* values of a uint32_t
  MaxTime,       \* bound: ticks of radio time
  MaxEvents      \* bound: events waiting in the process's queue

ASSUME EnergyAssumption ==
  /\ ROOT_ID \in NodeIds
  /\ EnergySeqMod \in Nat \ {0}
  /\ MaxTime \in Nat
  /\ MaxEvents \in Nat \ {0}

VARIABLES
  node_id,
  report_timer,  \* "running" or "expired"
  send_timer,
  energySeq,     \* seq: samples sent so far
  line,          \* the last ENERGEST line printed
  events,        \* PROCESS_EVENT_TIMER events not dispatched yet
  reachable,     \* RPL: there is a route to the root
  radio,         \* what the radio is doing
  spent,         \* time spent in each radio state
  energest       \* time energest has accounted for

process == <<node_id, report_timer, send_timer, energySeq, line>>
radioVars == <<radio, spent>>
energyVars == <<process, events, reachable, radioVars, energest>>

RadioStates == {"tx", "rx", "off"}
Times == [RadioStates -> 0 .. MaxTime]
TimerStates == {"running", "expired"}

Total(t) == t["tx"] + t["rx"] + t["off"]

EnergyTypeOK ==
  /\ node_id \in NodeIds
  /\ report_timer \in TimerStates
  /\ send_timer \in TimerStates
  /\ energySeq \in 0 .. EnergySeqMod - 1
  /\ line \in Times
  /\ events \in 0 .. MaxEvents
  /\ reachable \in BOOLEAN
  /\ radio \in RadioStates
  /\ spent \in Times
  /\ energest \in Times

EnergyInit ==
  /\ node_id \in NodeIds
  /\ report_timer = "running"
  /\ send_timer = "running"
  /\ energySeq = 0
  /\ line = [s \in RadioStates |-> 0]
  /\ events = 0
  /\ reachable \in BOOLEAN
  /\ radio = "off"
  /\ spent = [s \in RadioStates |-> 0]
  /\ energest = [s \in RadioStates |-> 0]

-----------------------------------------------------------------------------
(* The radio, energest, RPL and the event timers.                          *)

EnergyTick ==
  /\ Total(spent) < MaxTime
  /\ spent' = [spent EXCEPT ![radio] = @ + 1]
  /\ UNCHANGED <<process, events, reachable, radio, energest>>

\* energest_switch: the state that ends is accounted for.
RadioSwitches ==
  /\ \E s \in RadioStates \ {radio} : radio' = s
  /\ energest' = [energest EXCEPT ![radio] = spent[radio]]
  /\ UNCHANGED <<process, events, reachable, spent>>

RouteChanges ==
  /\ reachable' = ~reachable
  /\ UNCHANGED <<process, events, radioVars, energest>>

\* An expiry is noted when its event is posted; with a full queue it waits.
ReportTimerExpires ==
  /\ report_timer = "running"
  /\ events < MaxEvents
  /\ report_timer' = "expired"
  /\ events' = events + 1
  /\ UNCHANGED <<node_id, send_timer, energySeq, line, reachable, radioVars,
                 energest>>

SendTimerExpires ==
  /\ send_timer = "running"
  /\ events < MaxEvents
  /\ send_timer' = "expired"
  /\ events' = events + 1
  /\ UNCHANGED <<node_id, report_timer, energySeq, line, reachable, radioVars,
                 energest>>

energest_flush == energest' = spent

-----------------------------------------------------------------------------
(* The process.                                                            *)

\* A plausible slip: the counters are read without the flush.
print_energestUnflushed ==
  /\ line' = [tx |-> energest["tx"], rx |-> energest["rx"],
              off |-> Total(spent) - energest["tx"] - energest["rx"]]
  /\ UNCHANGED energest

\* The line of the report: off is what tx and rx leave of the total.
print_energest ==
  /\ energest_flush
  /\ line' = [tx |-> energest'["tx"], rx |-> energest'["rx"],
              off |-> Total(spent) - energest'["tx"] - energest'["rx"]]

CheckReport ==
  IF report_timer = "expired"
  THEN print_energest /\ report_timer' = "running"
  ELSE UNCHANGED <<energest, line, report_timer>>

\* A plausible slip: the root sends, and the sensors do not.
CanSendFromRoot == node_id = ROOT_ID /\ reachable

CanSend == node_id # ROOT_ID /\ reachable

\* The root and a node without a route only set the timer again.
CheckSend ==
  IF send_timer = "expired"
  THEN /\ energySeq' = IF CanSend
                       THEN (energySeq + 1) % EnergySeqMod
                       ELSE energySeq
       /\ send_timer' = "running"
  ELSE UNCHANGED <<energySeq, send_timer>>

\* A plausible slip: the process waits until the report's timer has expired.
HandleEventForReport ==
  /\ events > 0
  /\ events' = events - 1
  /\ CheckReport
  /\ IF report_timer = "expired" THEN CheckSend
     ELSE UNCHANGED <<energySeq, send_timer>>
  /\ UNCHANGED <<node_id, reachable, radioVars>>

\* The process takes an event and looks at both timers.
HandleEvent ==
  /\ events > 0
  /\ events' = events - 1
  /\ CheckReport
  /\ CheckSend
  /\ UNCHANGED <<node_id, reachable, radioVars>>

EnergyNext ==
  \/ EnergyTick \/ RadioSwitches \/ RouteChanges
  \/ ReportTimerExpires \/ SendTimerExpires
  \/ HandleEvent

EnergySpec == EnergyInit /\ [][EnergyNext]_energyVars

\* The scheduler dispatches the events, and timers that were set expire: the
\* etimer process tries again, whenever it is polled, to post an event that
\* found the queue full, so a queue that has room again and again is enough.
EnergyFairness ==
  /\ SF_energyVars(ReportTimerExpires)
  /\ SF_energyVars(SendTimerExpires)
  /\ WF_energyVars(HandleEvent)

EnergyFairSpec == EnergySpec /\ EnergyFairness

-----------------------------------------------------------------------------

\* An expiry is never left without an event that will make the process look
\* at it, although one event may be used up by the other timer's expiry.
NoExpiryUnattended ==
  (report_timer = "expired" \/ send_timer = "expired") => events > 0

\* A report tells the time the radio really spent in each state, whenever it
\* last changed state; so its parts add up to its total, as the shares that
\* energy_calc.py multiplies with currents suppose.
ReportsTheTime == [][line' # line => line' = spent]_energyVars

\* A sensor that comes to have a lasting route goes on sending, however long
\* it was without one.
SamplesGoOn ==
  (node_id # ROOT_ID /\ <>[]reachable) =>
    []<><<energySeq' # energySeq>>_energyVars
=============================================================================
