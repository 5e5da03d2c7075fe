----------------------------- MODULE LoraGateway -----------------------------
(***************************************************************************)
(* Practica 8, LoRa: the nodes that send numbered frames                   *)
(* (practicas/p8-hardware/arduino/heltec-lora-node/heltec-lora-node.ino)   *)
(* and the gateway that publishes them over MQTT                           *)
(* (.../heltec-lora-gateway/heltec-lora-gateway.ino).                      *)
(*                                                                         *)
(* In the gateway the radio's interrupt sets a flag that loop() tests,     *)
(* clears and acts upon, step by step, while more frames may arrive.  The  *)
(* radio keeps the last frame it heard, and raises the interrupt line only *)
(* when it was down.  Other devices may use the same channel: their frames *)
(* are heard, too, and do not have the form of a sample.                   *)
(***************************************************************************)
EXTENDS Naturals

CONSTANTS
  Nodes,         \* the nodes
  Foreign,       \* a frame of another device
  None,          \* no frame
  MaxFrames,     \* bound: frames a node sends
  MaxFaults      \* bound: times the Wi-Fi or the MQTT session is lost

ASSUME LoraAssumption ==
  /\ None \notin Nodes \X Nat
  /\ Foreign \notin (Nodes \X Nat) \cup {None}
  /\ MaxFrames \in Nat
  /\ MaxFaults \in Nat

VARIABLES
  seq,           \* seq[n]: node n's counter
  pc,            \* where the gateway is in setup() or loop()
  rxFlag,
  msg,           \* the frame loop() has read
  dio1,          \* the radio's interrupt line
  buffer,        \* the frame the radio holds
  unread,        \* the radio holds a frame that was never read
  connected,     \* the gateway has Wi-Fi and an MQTT session
  published,     \* published[n]: one more than the last frame of n published
  faults         \* history: connections lost so far

radio == <<dio1, buffer, unread>>
network == <<connected, published, faults>>
vars == <<seq, pc, rxFlag, msg, radio, network>>

Frames == (Nodes \X (0 .. MaxFrames - 1)) \cup {Foreign}

TypeOK ==
  /\ seq \in [Nodes -> 0 .. MaxFrames]
  /\ pc \in {"setup", "halted", "connectAll", "poll", "clear", "readData",
             "startReceive", "publish"}
  /\ rxFlag \in BOOLEAN
  /\ msg \in Frames \cup {None}
  /\ dio1 \in BOOLEAN
  /\ buffer \in Frames \cup {None}
  /\ unread \in BOOLEAN
  /\ connected \in BOOLEAN
  /\ published \in [Nodes -> 0 .. MaxFrames]
  /\ faults \in 0 .. MaxFaults

Init ==
  /\ seq = [n \in Nodes |-> 0]
  /\ pc = "setup"
  /\ rxFlag = FALSE
  /\ msg = None
  /\ dio1 = FALSE
  /\ buffer = None
  /\ unread = FALSE
  /\ connected = FALSE
  /\ published = [n \in Nodes |-> 0]
  /\ faults = 0

-----------------------------------------------------------------------------

\* The radio of the gateway, once it receives, hears a frame: onReceive runs
\* when the line rises.
Hear(f) ==
  /\ pc \notin {"setup", "halted"}
  /\ buffer' = f
  /\ unread' = TRUE
  /\ dio1' = TRUE
  /\ rxFlag' = (rxFlag \/ ~dio1)

\* A plausible slip: a frame that could not be sent is tried again later,
\* under the number of one that was.
TransmitRenumbers(n) ==
  /\ seq[n] < MaxFrames
  /\ \/ /\ Hear(<<n, seq[n]>>)
        /\ seq' = [seq EXCEPT ![n] = @ + 1]
     \/ /\ UNCHANGED <<radio, rxFlag>>
        /\ seq' = [seq EXCEPT ![n] = IF @ = 0 THEN 0 ELSE @ - 1]
  /\ UNCHANGED <<pc, msg, network>>

\* A node's loop(): the frame is heard by the gateway or not, and its number
\* is used up even when the radio reports an error.
Transmit(n) ==
  /\ seq[n] < MaxFrames
  /\ \/ Hear(<<n, seq[n]>>)
     \/ UNCHANGED <<radio, rxFlag>>
  /\ seq' = [seq EXCEPT ![n] = @ + 1]
  /\ UNCHANGED <<pc, msg, network>>

\* Another device transmits.
ForeignTransmits ==
  /\ Hear(Foreign)
  /\ UNCHANGED <<seq, pc, msg, network>>

ConnectionLost ==
  /\ connected
  /\ faults < MaxFaults
  /\ connected' = FALSE
  /\ faults' = faults + 1
  /\ UNCHANGED <<seq, pc, rxFlag, msg, radio, published>>

-----------------------------------------------------------------------------
(* The gateway.                                                            *)

\* setup(): the radio starts and receives from now on, or does not, and the
\* sketch stops there.
Setup ==
  /\ pc = "setup"
  /\ pc' \in {"connectAll", "halted"}
  /\ UNCHANGED <<seq, rxFlag, msg, radio, network>>

\* connectAll blocks until there is a connection.
connectAll ==
  /\ pc = "connectAll"
  /\ connected' = TRUE
  /\ pc' = "poll"
  /\ UNCHANGED <<seq, rxFlag, msg, radio, published, faults>>

\* The flag is tested, and cleared by a statement of its own.
Poll ==
  /\ pc = "poll"
  /\ pc' = IF rxFlag THEN "clear" ELSE "connectAll"
  /\ UNCHANGED <<seq, rxFlag, msg, radio, network>>

ClearFlag ==
  /\ pc = "clear"
  /\ rxFlag' = FALSE
  /\ pc' = "readData"
  /\ UNCHANGED <<seq, msg, radio, network>>

\* The frame is read, or found damaged.  Reading lowers the line.
ReadData ==
  /\ pc = "readData"
  /\ msg' \in {buffer, None}
  /\ unread' = FALSE
  /\ dio1' = FALSE
  /\ pc' = "startReceive"
  /\ UNCHANGED <<seq, rxFlag, buffer, network>>

\* A plausible slip: the flag is cleared where the radio is restarted.
StartReceiveClears ==
  /\ pc = "startReceive"
  /\ dio1' = FALSE
  /\ rxFlag' = FALSE
  /\ pc' = IF msg = None THEN "connectAll" ELSE "publish"
  /\ UNCHANGED <<seq, msg, buffer, unread, network>>

\* The radio listens again; after an error loop() returns.
StartReceive ==
  /\ pc = "startReceive"
  /\ dio1' = FALSE
  /\ pc' = IF msg = None THEN "connectAll" ELSE "publish"
  /\ UNCHANGED <<seq, rxFlag, msg, buffer, unread, network>>

\* A frame that is no sample is only logged.  The result of mqtt.publish is
\* not looked at.
Publish ==
  /\ pc = "publish"
  /\ published' = IF connected /\ msg # Foreign
                  THEN [published EXCEPT ![msg[1]] = msg[2] + 1]
                  ELSE published
  /\ pc' = "connectAll"
  /\ msg' = None
  /\ UNCHANGED <<seq, rxFlag, radio, connected, faults>>

Gateway ==
  \/ Setup \/ connectAll \/ Poll \/ ClearFlag \/ ReadData \/ StartReceive
  \/ Publish

Next ==
  \/ \E n \in Nodes : Transmit(n)
  \/ ForeignTransmits \/ ConnectionLost \/ Gateway

Spec == Init /\ [][Next]_vars

-----------------------------------------------------------------------------

\* A frame the radio holds and loop() has not read is flagged, or about to be
\* read: no interrupt is lost between the test, the clearing and the reading,
\* and neither is one that found the line up.
NoFrameForgotten == unread => rxFlag \/ pc \in {"clear", "readData"}

\* What the gateway publishes is each node's numbered stream: frames in order,
\* none of them invented, whichever were overwritten, damaged or lost.  (One may
\* be published twice in a row: a flag that is raised between ClearFlag and
\* ReadData makes loop() read the same frame again.)
Stream == INSTANCE SampleStream WITH
  Sources <- Nodes,
  issued <- seq,
  expected <- published

StreamSpec == Stream!Spec
=============================================================================
