--------------------------- MODULE MqttNodeProofs ---------------------------
(***************************************************************************)
(* Proofs about the MQTT node, for every number of samples and every       *)
(* length of the event queue; that its connection attempts are paced, for  *)
(* every number of expiries that may be saved; and that no number it took  *)
(* is used twice or wasted.                                                *)
(***************************************************************************)
EXTENDS MqttHistory, TLAPS

USE DEF process, scheduler, engine, vars

\* The samples on their way are newer than what the broker has, older ones
\* ahead of newer ones, and nothing is on its way without a connection.
InOrder ==
  /\ received <= seq
  /\ wire \in Nat => received <= wire /\ wire < seq
  /\ slot \in Nat => received <= slot /\ slot < seq
  /\ wire \in Nat /\ slot \in Nat => wire < slot
  /\ link # "up" => wire = None /\ slot = None

\* The inductive invariant.
IInv ==
  /\ TypeOK
  /\ WakeupPending
  /\ TimerMatchesState
  /\ ConnectedMeansUp
  /\ BufferIntact
  /\ InOrder

LEMMA InitialState == Init => IInv
<1> SUFFICES ASSUME Init PROVE IInv
  OBVIOUS
<1> USE MessagesAssumption, BoundsAssumption DEF Init
<1>1. TypeOK
  <2>1. led \in BOOLEAN /\ poll \in BOOLEAN /\ network \in BOOLEAN /\ subscribed \in BOOLEAN
    BY Zenon
  <2>2. timerEvents \in 0 .. MaxTimerEvents
    OBVIOUS
  <2>3. QED
    BY <2>1, <2>2 DEF TypeOK, States, Intervals, Messages
<1>2. WakeupPending /\ TimerMatchesState /\ ConnectedMeansUp
  BY DEF WakeupPending, etimer_expired, TimerMatchesState, ConnectedMeansUp
<1>3. BufferIntact /\ InOrder
  BY DEF BufferIntact, InOrder
<1>4. QED
  BY <1>1, <1>2, <1>3 DEF IInv

-----------------------------------------------------------------------------
(* The branches of the state machine, whoever dispatched it.               *)

\* A dispatch leaves the queue and the poll flag within their types.
LEMMA DispatchType ==
  ASSUME TypeOK, HandleTimer \/ HandlePoll
  PROVE  /\ timerEvents' \in 0 .. MaxTimerEvents
         /\ poll' \in BOOLEAN
         /\ led' = led /\ network' = network
         /\ state_machine
<1>1. timerEvents' \in 0 .. MaxTimerEvents
  BY BoundsAssumption DEF TypeOK, HandleTimer, HandlePoll
<1>2. poll' \in BOOLEAN /\ state_machine
  BY Zenon DEF TypeOK, HandleTimer, HandlePoll
<1>3. led' = led /\ network' = network
  BY <1>2 DEF state_machine
<1>4. QED
  BY <1>1, <1>2, <1>3

LEMMA DispatchStep ==
  ASSUME IInv, HandleTimer \/ HandlePoll
  PROVE  IInv'
<1> USE MessagesAssumption, BoundsAssumption
<1>1. /\ timerEvents' \in 0 .. MaxTimerEvents
      /\ poll' \in BOOLEAN
      /\ led' = led /\ network' = network
      /\ state_machine
  BY DispatchType DEF IInv
<1>2. poll' => poll
  BY DEF HandleTimer, HandlePoll
<1>3. state = "DISCONNECTED" => poll
  BY DEF IInv, TimerMatchesState
<1>4. CASE WaitNet
  <2> USE <1>4 DEF WaitNet, mqtt_connect, etimer_set
  <2>1. TypeOK'
    BY <1>1 DEF IInv, TypeOK, States, Intervals, Messages
  <2>2. WakeupPending'
    BY DEF WakeupPending, etimer_expired
  <2>3. TimerMatchesState'
    BY DEF TimerMatchesState
  <2>4. ConnectedMeansUp'
    BY DEF IInv, ConnectedMeansUp
  <2>5. BufferIntact' /\ InOrder'
    BY DEF IInv, BufferIntact, InOrder
  <2>6. QED
    BY <2>1, <2>2, <2>3, <2>4, <2>5 DEF IInv
<1>5. CASE Connecting
  <2> USE <1>5 DEF Connecting, mqtt_disconnect, etimer_set, etimer_expired
  <2>1. TypeOK'
    BY <1>1 DEF IInv, TypeOK, States, Intervals, Messages
  <2>2. WakeupPending'
    BY DEF WakeupPending
  <2>3. TimerMatchesState'
    BY DEF IInv, TimerMatchesState
  <2>4. ConnectedMeansUp'
    BY DEF IInv, ConnectedMeansUp
  <2>5. BufferIntact' /\ InOrder'
    BY DEF IInv, BufferIntact, InOrder, ConnectedMeansUp
  <2>6. QED
    BY <2>1, <2>2, <2>3, <2>4, <2>5 DEF IInv
<1>6. CASE Connected
  <2> USE <1>6 DEF Connected, publish_sample, etimer_set
  <2>1. TypeOK'
    BY <1>1 DEF IInv, TypeOK, States, Intervals, Messages
  <2>2. WakeupPending'
    BY DEF WakeupPending, etimer_expired
  <2>3. TimerMatchesState'
    BY DEF TimerMatchesState
  <2>4. ConnectedMeansUp'
    BY DEF IInv, ConnectedMeansUp
  <2>5. BufferIntact'
    BY DEF IInv, BufferIntact, mqtt_ready
  <2>6. InOrder'
    BY DEF IInv, TypeOK, InOrder, mqtt_ready, out_buffer_sent
  <2>7. QED
    BY <2>1, <2>2, <2>3, <2>4, <2>5, <2>6 DEF IInv
<1>7. CASE Disconnected
  <2> USE <1>7 DEF Disconnected, etimer_set
  <2>1. TypeOK'
    BY <1>1 DEF IInv, TypeOK, States, Intervals, Messages
  <2>2. WakeupPending'
    BY DEF WakeupPending, etimer_expired
  <2>3. TimerMatchesState'
    BY DEF TimerMatchesState
  <2>4. ConnectedMeansUp'
    BY DEF IInv, ConnectedMeansUp
  <2>5. BufferIntact' /\ InOrder'
    BY DEF IInv, BufferIntact, InOrder
  <2>6. QED
    BY <2>1, <2>2, <2>3, <2>4, <2>5 DEF IInv
<1>8. QED
  BY <1>1, <1>4, <1>5, <1>6, <1>7 DEF state_machine
-----------------------------------------------------------------------------
(* The steps of the environment.                                           *)

LEMMA TimerStep == ASSUME IInv, TimerExpires PROVE IInv'
<1> USE DEF TimerExpires, etimer_expired
<1>1. TypeOK'
  <2>1. timerEvents' \in 0 .. MaxTimerEvents
    BY BoundsAssumption DEF IInv, TypeOK
  <2>2. QED
    BY <2>1 DEF IInv, TypeOK, Intervals
<1>2. WakeupPending'
  BY BoundsAssumption DEF IInv, TypeOK, WakeupPending
<1>3. TimerMatchesState'
  BY DEF IInv, TimerMatchesState
<1>4. ConnectedMeansUp' /\ BufferIntact' /\ InOrder'
  BY DEF IInv, ConnectedMeansUp, BufferIntact, InOrder
<1>5. QED
  BY <1>1, <1>2, <1>3, <1>4 DEF IInv

LEMMA NetworkStep == ASSUME IInv, NetworkJoins \/ NetworkLost PROVE IInv'
<1>1. /\ network' \in BOOLEAN
      /\ UNCHANGED <<process, scheduler, engine>>
  BY Zenon DEF NetworkJoins, NetworkLost
<1>2. TypeOK'
  BY <1>1 DEF IInv, TypeOK
<1>3. WakeupPending' /\ TimerMatchesState' /\ ConnectedMeansUp'
  BY <1>1 DEF IInv, WakeupPending, TimerMatchesState, ConnectedMeansUp, etimer_expired
<1>4. BufferIntact' /\ InOrder'
  BY <1>1 DEF IInv, BufferIntact, InOrder
<1>5. QED
  BY <1>2, <1>3, <1>4 DEF IInv

LEMMA LinkUpStep == ASSUME IInv, LinkUp PROVE IInv'
<1> USE DEF LinkUp, OnConnected
<1>1. poll' \in BOOLEAN
  BY Zenon
<1>2. TypeOK'
  BY <1>1 DEF IInv, TypeOK, States, Messages
<1>3. WakeupPending' /\ TimerMatchesState' /\ ConnectedMeansUp'
  BY DEF IInv, WakeupPending, TimerMatchesState, ConnectedMeansUp, etimer_expired
<1>4. BufferIntact' /\ InOrder'
  BY MessagesAssumption DEF IInv, BufferIntact, InOrder
<1>5. QED
  BY <1>2, <1>3, <1>4 DEF IInv

LEMMA LinkEndsStep ==
  ASSUME NEW from \in {"opening", "up", "closing"}, IInv, LinkEnds(from)
  PROVE  IInv'
<1> USE DEF LinkEnds, OnDisconnected
<1>1. poll' \in BOOLEAN /\ subscribed' \in BOOLEAN
  BY Zenon
<1>2. TypeOK'
  BY <1>1 DEF IInv, TypeOK, States, Messages
<1>3. WakeupPending' /\ TimerMatchesState' /\ ConnectedMeansUp'
  BY DEF IInv, WakeupPending, TimerMatchesState, ConnectedMeansUp, etimer_expired
<1>4. BufferIntact' /\ InOrder'
  BY MessagesAssumption DEF IInv, BufferIntact, InOrder
<1>5. QED
  BY <1>2, <1>3, <1>4 DEF IInv

\* The sample the engine reads is the one it accepted: BufferIntact.
LEMMA EngineWritesStep == ASSUME IInv, EngineWrites PROVE IInv'
<1> USE DEF EngineWrites
<1>1. slot = Subscribe \/ (slot \in Nat /\ app_buffer = slot)
  BY DEF IInv, TypeOK, Messages, BufferIntact
<1>2. TypeOK'
  BY DEF IInv, TypeOK, Messages
<1>3. WakeupPending' /\ TimerMatchesState' /\ ConnectedMeansUp'
  BY DEF IInv, WakeupPending, TimerMatchesState, ConnectedMeansUp, etimer_expired
<1>4. BufferIntact' /\ InOrder'
  BY <1>1, MessagesAssumption DEF IInv, BufferIntact, InOrder
<1>5. QED
  BY <1>2, <1>3, <1>4 DEF IInv

LEMMA WireDeliversStep == ASSUME IInv, WireDelivers PROVE IInv'
<1> USE DEF WireDelivers
<1>1. wire = Subscribe \/ wire \in Nat
  BY DEF IInv, TypeOK, Messages
<1>2. TypeOK'
  <2>1. subscribed' \in BOOLEAN
    BY Zenon DEF IInv, TypeOK
  <2>2. QED
    BY <1>1, <2>1 DEF IInv, TypeOK, Messages
<1>3. WakeupPending' /\ TimerMatchesState' /\ ConnectedMeansUp'
  BY DEF IInv, WakeupPending, TimerMatchesState, ConnectedMeansUp, etimer_expired
<1>4. BufferIntact' /\ InOrder'
  BY <1>1, MessagesAssumption DEF IInv, TypeOK, BufferIntact, InOrder
<1>5. QED
  BY <1>2, <1>3, <1>4 DEF IInv

LEMMA CommandStep == ASSUME IInv, Command PROVE IInv'
<1> USE DEF Command
<1>1. led' \in BOOLEAN
  BY Zenon DEF handle_command, IInv, TypeOK
<1>2. TypeOK'
  BY <1>1 DEF IInv, TypeOK
<1>3. WakeupPending' /\ TimerMatchesState' /\ ConnectedMeansUp'
  BY DEF IInv, WakeupPending, TimerMatchesState, ConnectedMeansUp, etimer_expired
<1>4. BufferIntact' /\ InOrder'
  BY DEF IInv, BufferIntact, InOrder
<1>5. QED
  BY <1>2, <1>3, <1>4 DEF IInv

-----------------------------------------------------------------------------

\* The inductive invariant holds in every reachable state: the whole of
\* mqtt-node.c, with every order of expiries, polls and engine callbacks.
THEOREM Invariance == Spec => []IInv
<1>1. IInv /\ [Next]_vars => IInv'
  <2> SUFFICES ASSUME IInv, [Next]_vars PROVE IInv'
    OBVIOUS
  <2>1. CASE HandleTimer \/ HandlePoll
    BY <2>1, DispatchStep
  <2>2. CASE TimerExpires
    BY <2>2, TimerStep
  <2>3. CASE NetworkJoins \/ NetworkLost
    BY <2>3, NetworkStep
  <2>4. CASE LinkUp
    BY <2>4, LinkUpStep
  <2>5. CASE AttemptFails \/ LinkDrops \/ CloseDone
    BY <2>5, LinkEndsStep DEF AttemptFails, LinkDrops, CloseDone
  <2>6. CASE EngineWrites
    BY <2>6, EngineWritesStep
  <2>7. CASE WireDelivers
    BY <2>7, WireDeliversStep
  <2>8. CASE Command
    BY <2>8, CommandStep
  <2>9. CASE UNCHANGED vars
    BY <2>9 DEF IInv, TypeOK, WakeupPending, TimerMatchesState, ConnectedMeansUp,
                BufferIntact, InOrder, etimer_expired
  <2>10. QED
    BY <2>1, <2>2, <2>3, <2>4, <2>5, <2>6, <2>7, <2>8, <2>9 DEF Next
<1>2. QED
  BY InitialState, <1>1, PTL DEF Spec

\* Every variable keeps its type; the event queue never holds more than its
\* length, whatever that is.
THEOREM TypeCorrect == Spec => []TypeOK
<1>1. IInv => TypeOK
  BY DEF IInv
<1>2. QED
  BY Invariance, <1>1, PTL

\* state_machine never leaves its process with an expired timer and no event.
THEOREM NeverStranded == Spec => [](WakeupPending /\ TimerMatchesState)
<1>1. IInv => WakeupPending /\ TimerMatchesState
  BY DEF IInv
<1>2. QED
  BY Invariance, <1>1, PTL

\* STATE_CONNECTED and the engine's connection never disagree.
THEOREM ConnectionAgrees == Spec => []ConnectedMeansUp
<1>1. IInv => ConnectedMeansUp
  BY DEF IInv
<1>2. QED
  BY Invariance, <1>1, PTL

\* The guard mqtt_ready && out_buffer_sent keeps publish_sample away from a
\* buffer the engine has yet to read.
THEOREM BufferSafe == Spec => []BufferIntact
<1>1. IInv => BufferIntact
  BY DEF IInv
<1>2. QED
  BY Invariance, <1>1, PTL

\* The node implements the numbered stream of samples: numbering a sample is
\* Issue, its arrival at the broker is Deliver, and every other step stutters.
THEOREM Refinement == Spec => StreamSpec
<1> DEFINE issued == [s \in {"node"} |-> seq]
           expected == [s \in {"node"} |-> received]
<1>1. Init => Stream!Init
  BY DEF Init, Stream!Init
<1>2. IInv /\ [Next]_vars => [Stream!Next]_(Stream!vars)
  <2> SUFFICES ASSUME IInv, [Next]_vars PROVE [Stream!Next]_(Stream!vars)
    OBVIOUS
  <2>1. CASE seq' = seq + 1 /\ received' = received
    <3>1. Stream!Issue("node")
      BY <2>1 DEF Stream!Issue
    <3>2. QED
      BY <3>1 DEF Stream!Next
  <2>2. CASE seq' = seq /\ received' = received
    BY <2>2 DEF Stream!vars
  <2>3. CASE /\ seq' = seq
             /\ \E k \in received .. seq - 1 : received' = k + 1
    <3>1. Stream!Deliver("node")
      BY <2>3 DEF Stream!Deliver
    <3>2. QED
      BY <3>1 DEF Stream!Next
  <2>4. CASE HandleTimer \/ HandlePoll
    <3>1. /\ received' = received
          /\ seq' = seq \/ seq' = seq + 1
      BY <2>4 DEF HandleTimer, HandlePoll, state_machine, WaitNet, Connecting,
                  Connected, Disconnected, publish_sample, mqtt_connect, mqtt_disconnect
    <3>2. QED
      BY <3>1, <2>1, <2>2
  <2>5. CASE WireDelivers
    <3>1. CASE wire = Subscribe
      BY <2>5, <3>1, <2>2 DEF WireDelivers
    <3>2. CASE wire # Subscribe
      <4>1. wire \in Nat /\ received <= wire /\ wire < seq /\ seq \in Nat /\ received \in Nat
        BY <2>5, <3>2 DEF IInv, TypeOK, Messages, InOrder, WireDelivers
      <4>2. wire \in received .. seq - 1
        BY <4>1
      <4>3. received' = wire + 1 /\ seq' = seq
        BY <2>5, <3>2 DEF WireDelivers
      <4>4. QED
        BY <4>2, <4>3, <2>3
    <3>3. QED
      BY <3>1, <3>2
  <2>6. CASE \/ TimerExpires \/ NetworkJoins \/ NetworkLost \/ LinkUp \/ AttemptFails
             \/ LinkDrops \/ CloseDone \/ EngineWrites \/ Command \/ UNCHANGED vars
    <3>1. seq' = seq /\ received' = received
      BY <2>6 DEF TimerExpires, NetworkJoins, NetworkLost, LinkUp, AttemptFails,
                  LinkDrops, CloseDone, LinkEnds, EngineWrites, Command
    <3>2. QED
      BY <3>1, <2>2
  <2>7. QED
    BY <2>4, <2>5, <2>6 DEF Next
<1>3. QED
  BY <1>1, <1>2, Invariance, PTL DEF Spec, StreamSpec, Stream!Spec

-----------------------------------------------------------------------------
(* The pace of the connection attempts.                                    *)

\* The wake-ups that may still lead to an attempt without a further expiry
\* are covered: the events in the queue, and a poll that finds the node in
\* STATE_WAIT_NET because an event overtook it in STATE_DISCONNECTED.
CreditInv ==
  /\ credit \in Int
  /\ credit >= timerEvents
  /\ poll /\ state = "WAIT_NET" => credit >= timerEvents + 1

LEMMA CreditDispatch ==
  ASSUME IInv, CreditInv, HandleTimer \/ HandlePoll, CountStep
  PROVE  CreditInv'
<1>1. timerEvents \in Nat
  BY BoundsAssumption DEF IInv, TypeOK
<1>2. ~Expiry
  BY DEF Expiry, HandleTimer, HandlePoll, state_machine, WaitNet, Connecting,
         Connected, Disconnected, etimer_set
<1>3. Attempt => state = "WAIT_NET" /\ state' = "CONNECTING"
  BY DEF Attempt, HandleTimer, HandlePoll, state_machine, WaitNet, Connecting,
         Connected, Disconnected
<1>4. credit' = IF Attempt THEN credit - 1 ELSE credit
  BY <1>2 DEF CountStep
<1>5. CASE HandleTimer
  <2>1. timerEvents' = timerEvents - 1
    BY <1>5 DEF HandleTimer
  <2>2. QED
    BY <1>1, <1>3, <1>4, <2>1 DEF CreditInv
<1>6. CASE HandlePoll
  <2>1. timerEvents' = timerEvents /\ poll /\ ~poll'
    BY <1>6 DEF HandlePoll
  <2>2. QED
    BY <1>1, <1>3, <1>4, <2>1 DEF CreditInv
<1>7. QED
  BY <1>5, <1>6

\* The engine, the network and the timer.
LEMMA CreditEnvironment ==
  ASSUME IInv, CreditInv, Next, ~(HandleTimer \/ HandlePoll), CountStep
  PROVE  CreditInv'
<1>1. timerEvents \in Nat
  BY BoundsAssumption DEF IInv, TypeOK
<1>2. ~Attempt
  BY DEF Next, Attempt, TimerExpires, NetworkJoins, NetworkLost, LinkUp, OnConnected,
         AttemptFails, LinkDrops, CloseDone, LinkEnds, OnDisconnected, EngineWrites,
         WireDelivers, Command
<1>3. poll' /\ state' = "WAIT_NET" => poll /\ state = "WAIT_NET"
  BY DEF Next, TimerExpires, NetworkJoins, NetworkLost, LinkUp, OnConnected,
         AttemptFails, LinkDrops, CloseDone, LinkEnds, OnDisconnected, EngineWrites,
         WireDelivers, Command
<1>4. CASE TimerExpires
  <2>1. timerEvents' = timerEvents + 1 /\ Expiry
    BY <1>4 DEF TimerExpires, Expiry, etimer_expired
  <2>2. timerEvents' <= MaxTimerEvents /\ MaxTimerEvents \in Nat
    BY <1>1, <1>4, BoundsAssumption DEF TimerExpires
  <2>3. CASE credit < MaxCredit
    <3>1. credit' = credit + 1
      BY <2>1, <2>3 DEF CountStep
    <3>2. QED
      BY <1>1, <1>3, <2>1, <3>1 DEF CreditInv
  <2>4. CASE ~(credit < MaxCredit)
    <3>1. credit' = credit
      BY <1>2, <2>4 DEF CountStep
    <3>2. credit >= timerEvents' + 1
      BY <1>1, <2>1, <2>2, <2>4, CreditAssumption DEF CreditInv
    <3>3. QED
      BY <1>1, <2>1, <3>1, <3>2 DEF CreditInv
  <2>5. QED
    BY <2>3, <2>4
<1>5. CASE ~TimerExpires
  <2>1. timerEvents' = timerEvents /\ timer' = timer
    BY <1>5 DEF Next, NetworkJoins, NetworkLost, LinkUp, AttemptFails, LinkDrops,
                CloseDone, LinkEnds, EngineWrites, WireDelivers, Command
  <2>2. credit' = credit
    BY <1>2, <2>1 DEF Expiry, CountStep
  <2>3. QED
    BY <1>1, <1>3, <2>1, <2>2 DEF CreditInv
<1>6. QED
  BY <1>4, <1>5

LEMMA HistoryRefines == HistorySpec => Spec
<1>1. HistoryInit => Init
  BY DEF HistoryInit
<1>2. [HistoryNext]_historyVars => [Next]_vars
  BY DEF HistoryNext, historyVars
<1>3. QED
  BY <1>1, <1>2, PTL DEF HistorySpec, Spec

\* Every call of mqtt_connect has an expiry of the node's timer of its own.
THEOREM Paced == HistorySpec => []AttemptsArePaced
<1>1. HistoryInit => IInv /\ CreditInv
  BY InitialState DEF HistoryInit, Init, CreditInv
<1>2. IInv /\ CreditInv /\ [HistoryNext]_historyVars => CreditInv'
  <2> SUFFICES ASSUME IInv, CreditInv, [HistoryNext]_historyVars PROVE CreditInv'
    OBVIOUS
  <2>1. CASE HistoryNext
    BY <2>1, CreditDispatch, CreditEnvironment DEF HistoryNext
  <2>2. CASE UNCHANGED historyVars
    BY <2>2 DEF historyVars, CreditInv
  <2>3. QED
    BY <2>1, <2>2
<1>3. IInv /\ CreditInv => AttemptsArePaced
  BY BoundsAssumption DEF IInv, TypeOK, CreditInv, AttemptsArePaced
<1>4. QED
  BY <1>1, <1>2, <1>3, HistoryRefines, Invariance, PTL DEF HistorySpec
-----------------------------------------------------------------------------
(* What became of the samples.                                             *)

\* What the broker got is behind what it expects, so nothing the engine holds
\* is among it.
FateInv == EachNumberOnce /\ \A n \in delivered : n < received

\* Only a dispatch takes a number, and the number's sample is then in the slot.
LEMMA FateDispatch ==
  ASSUME IInv, FateInv, HandleTimer \/ HandlePoll, RecordStep
  PROVE  FateInv'
<1>1. state_machine /\ UNCHANGED <<wire, received>>
  BY DEF HandleTimer, HandlePoll, state_machine, WaitNet, Connecting, Connected,
         Disconnected, publish_sample, mqtt_connect, mqtt_disconnect
<1>2. timerEvents' # timerEvents \/ (poll /\ ~poll')
  BY BoundsAssumption DEF HandleTimer, HandlePoll, IInv, TypeOK
<1>3. UNCHANGED <<delivered, lost>>
  BY <1>2
     DEF RecordStep, WireDelivers, AttemptFails, LinkDrops, CloseDone, LinkEnds, OnDisconnected
<1>4. CASE UNCHANGED <<slot, seq>>
  BY <1>1, <1>3, <1>4 DEF FateInv, EachNumberOnce, Held
<1>5. CASE slot = None /\ slot' = seq /\ seq' = seq + 1
  <2>1. seq \in Nat /\ received <= seq /\ received \in Nat
    BY DEF IInv, TypeOK, InOrder
  <2>2. 0 .. seq' - 1 = (0 .. seq - 1) \cup {seq}
    BY <1>5, <2>1
  <2>3. Held' = Held \cup {seq} /\ seq \notin 0 .. seq - 1
    BY <1>1, <1>5, <2>1, MessagesAssumption DEF Held
  <2>4. wire # seq
    BY <2>1 DEF IInv, InOrder
  <2>5. QED
    BY <1>1, <1>3, <1>5, <2>2, <2>3, <2>4 DEF FateInv, EachNumberOnce
<1>6. QED
  BY <1>1, <1>4, <1>5
     DEF state_machine, WaitNet, Connecting, Connected, Disconnected, publish_sample,
         mqtt_connect, mqtt_disconnect, mqtt_ready

\* The engine delivers a sample, loses it, moves it or leaves it alone.
LEMMA FateEnvironment ==
  ASSUME IInv, FateInv, Next, ~(HandleTimer \/ HandlePoll), RecordStep
  PROVE  FateInv'
<1>1. UNCHANGED seq
  BY DEF Next, TimerExpires, NetworkJoins, NetworkLost, LinkUp, AttemptFails, LinkDrops,
         CloseDone, LinkEnds, EngineWrites, WireDelivers, Command
<1>2. CASE WireDelivers
  <2>1. UNCHANGED slot /\ wire' = None /\ link = "up"
    BY <1>2 DEF WireDelivers
  <2>2. UNCHANGED lost /\ delivered' = delivered \cup ({wire} \cap Nat)
    BY <1>2, <2>1 DEF RecordStep, AttemptFails, LinkDrops, CloseDone, LinkEnds, WireDelivers
  <2>3. Held = Held' \cup ({wire} \cap Nat) /\ (wire \in Nat => wire \notin Held')
    BY <2>1, MessagesAssumption DEF Held, FateInv, EachNumberOnce
  <2>4. \A n \in delivered' : n < received'
    <3>1. received \in Nat /\ (wire \in Nat => received <= wire /\ received' = wire + 1)
      BY <1>2, MessagesAssumption DEF IInv, TypeOK, InOrder, WireDelivers
    <3>2. wire \in Nat \/ received' = received
      BY <1>2 DEF WireDelivers, IInv, TypeOK, Messages
    <3>3. delivered \subseteq Int
      BY DEF FateInv, EachNumberOnce
    <3>4. QED
      BY <2>2, <3>1, <3>2, <3>3 DEF FateInv
  <2>5. EachNumberOnce'
    BY <1>1, <2>1, <2>2, <2>3, MessagesAssumption DEF FateInv, EachNumberOnce
  <2>6. QED
    BY <2>4, <2>5 DEF FateInv
<1>3. CASE AttemptFails \/ LinkDrops \/ CloseDone
  <2>1. slot' = None /\ wire' = None /\ received' = received /\ link' # "up"
    BY <1>3 DEF AttemptFails, LinkDrops, CloseDone, LinkEnds
  <2>2. lost' = lost \cup Held
    BY <1>3 DEF RecordStep
  <2>3. delivered' = delivered
    BY <1>3 DEF RecordStep, WireDelivers, AttemptFails, LinkDrops, CloseDone, LinkEnds
  <2>4. Held' = {}
    BY <2>1, MessagesAssumption DEF Held
  <2>5. QED
    BY <1>1, <2>1, <2>2, <2>3, <2>4, MessagesAssumption DEF FateInv, EachNumberOnce
<1>4. CASE EngineWrites
  <2>1. UNCHANGED <<delivered, lost>>
    BY <1>4
       DEF EngineWrites, RecordStep, WireDelivers, AttemptFails, LinkDrops, CloseDone, LinkEnds
  <2>2. slot' = None /\ wire = None /\ UNCHANGED received /\ (slot \in Nat => wire' = slot)
        /\ (slot \notin Nat => wire' = Subscribe)
    BY <1>4, MessagesAssumption DEF EngineWrites, IInv, TypeOK, Messages, BufferIntact
  <2>3. Held' = Held
    BY <2>2, MessagesAssumption DEF Held
  <2>4. QED
    BY <1>1, <2>1, <2>2, <2>3, MessagesAssumption DEF FateInv, EachNumberOnce
<1>5. CASE LinkUp
  <2>1. slot = None /\ wire = None /\ slot' = Subscribe /\ UNCHANGED <<wire, received>>
    BY <1>5 DEF LinkUp, OnConnected, IInv, InOrder
  <2>2. UNCHANGED <<delivered, lost>>
    BY <1>5
       DEF LinkUp, RecordStep, WireDelivers, AttemptFails, LinkDrops, CloseDone, LinkEnds
  <2>3. Held' = Held
    BY <2>1, MessagesAssumption DEF Held
  <2>4. QED
    BY <1>1, <2>1, <2>2, <2>3, MessagesAssumption DEF FateInv, EachNumberOnce
<1>6. CASE /\ TimerExpires \/ NetworkJoins \/ NetworkLost \/ Command
           /\ ~(WireDelivers \/ AttemptFails \/ LinkDrops \/ CloseDone)
  <2>1. UNCHANGED <<slot, wire, received>>
    BY <1>6 DEF TimerExpires, NetworkJoins, NetworkLost, Command
  <2>2. UNCHANGED <<delivered, lost>>
    BY <1>6 DEF RecordStep
  <2>3. QED
    BY <1>1, <2>1, <2>2 DEF FateInv, EachNumberOnce, Held
<1>7. QED
  BY <1>2, <1>3, <1>4, <1>5, <1>6 DEF Next

\* Every number that publish_sample took is that of one sample: in the engine,
\* lost with a connection or at the broker, and in one of these places only.
THEOREM NumbersUsedOnce == HistorySpec => []EachNumberOnce
<1>1. HistoryInit => FateInv
  BY MessagesAssumption DEF HistoryInit, Init, FateInv, EachNumberOnce, Held
<1>2. IInv /\ FateInv /\ [HistoryNext]_historyVars => FateInv'
  <2> SUFFICES ASSUME IInv, FateInv, [HistoryNext]_historyVars PROVE FateInv'
    OBVIOUS
  <2>1. CASE HistoryNext
    BY <2>1, FateDispatch, FateEnvironment DEF HistoryNext
  <2>2. CASE UNCHANGED historyVars
    BY <2>2 DEF historyVars, FateInv, EachNumberOnce, Held
  <2>3. QED
    BY <2>1, <2>2
<1>3. FateInv => EachNumberOnce
  BY DEF FateInv
<1>4. QED
  BY <1>1, <1>2, <1>3, HistoryRefines, Invariance, PTL DEF HistorySpec
=============================================================================
