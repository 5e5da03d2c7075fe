---------------------------- MODULE MqttHistory ------------------------------
(***************************************************************************)
(* What the MQTT node has done: how often it called mqtt_connect, and what *)
(* became of every number that publish_sample took.  The module adds       *)
(* history variables to MqttNode and changes nothing else.                 *)
(***************************************************************************)
EXTENDS MqttNode, Integers

CONSTANT MaxCredit    \* bound: expiries that may be saved for later attempts

\* One for each event in the queue, and one for a poll.
ASSUME CreditAssumption ==
  /\ MaxCredit \in Nat
  /\ MaxCredit > MaxTimerEvents

VARIABLES
  credit,      \* expiries of the timer, up to the bound, less attempts
  delivered,   \* the samples the broker got
  lost         \* the samples the engine accepted and lost with a connection

historyVars == <<vars, credit, delivered, lost>>

Expiry == timer # "expired" /\ timer' = "expired"
Attempt == state # "CONNECTING" /\ state' = "CONNECTING"

CountStep ==
  credit' = IF Expiry /\ credit < MaxCredit THEN credit + 1
            ELSE IF Attempt THEN credit - 1 ELSE credit

\* The samples in the engine's hands: in its slot and in the output buffer.
Held == {slot, wire} \cap Nat

RecordStep ==
  /\ delivered' = IF WireDelivers THEN delivered \cup ({wire} \cap Nat) ELSE delivered
  /\ lost' = IF AttemptFails \/ LinkDrops \/ CloseDone THEN lost \cup Held ELSE lost

HistoryInit == Init /\ credit = 0 /\ delivered = {} /\ lost = {}

HistoryNext == Next /\ CountStep /\ RecordStep

HistorySpec == HistoryInit /\ [][HistoryNext]_historyVars

HistoryFairSpec == HistorySpec /\ Fairness

\* No reconnection storm: every call of mqtt_connect is paid for by an expiry
\* of the timer of its own, and no more than MaxCredit expiries can be saved.
\* So the node makes at most one attempt per interval and a short burst, even
\* though polls from connection callbacks and stale expiry events run the same
\* state machine and a failed attempt wakes it at once.
AttemptsArePaced == credit >= 0

\* Every number publish_sample took has one fate: its sample is still in the
\* engine, was lost with a connection, or reached the broker.  So a refused
\* publication does not use up a number, whatever is missing at the broker was
\* lost on a connection, and nothing the broker has is on its way again.
EachNumberOnce ==
  /\ 0 .. seq - 1 = Held \cup delivered \cup lost
  /\ Held \cap delivered = {}
  /\ Held \cap lost = {}
  /\ delivered \cap lost = {}
  /\ slot \in Nat => slot # wire
=============================================================================
