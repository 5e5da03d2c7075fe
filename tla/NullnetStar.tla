---------------------------- MODULE NullnetStar ----------------------------
(***************************************************************************)
(* Practica 2: a star of NullNet nodes that send numbered samples to a     *)
(* sink by unicast (practicas/p2-nullnet/nullnet-unicast.c), the packet    *)
(* delivery ratio the sink logs, and the counts of the simulation script   *)
(* (practicas/p2-nullnet/pdr.js).                                          *)
(*                                                                         *)
(* The sink computes the ratio of a sender from two uint16_t of its own,   *)
(* rx_count and the last sequence number, and never from what was sent.    *)
(* The radio and the MAC lose frames; those of one sender stay in order    *)
(* and are not repeated.                                                   *)
(***************************************************************************)
EXTENDS Naturals, Functions

CONSTANTS
  Senders,       \* ids of the nodes other than the sink
  Steady,        \* those that neither reboot nor run into the wrap of seq
  MAX_NODES,     \* length of the sink's tables
  SeqMod,        \* values of a uint16_t
  MaxSends,      \* bound: samples a node that is not steady sends
  MaxReboots     \* bound: reboots of senders

ASSUME ParametersAssumption ==
  /\ Senders \subseteq Nat
  /\ Steady \subseteq Senders
  /\ MAX_NODES \in Nat
  /\ SeqMod \in Nat \ {0}
  /\ MaxSends \in Nat
  /\ MaxReboots \in Nat

VARIABLES
  seq,         \* seq[n]: tx_sample.seq of node n
  rx_count,    \* rx_count[n], last_seq[n]: the sink's entries for n
  last_seq,
  air,         \* air[n]: the frames of n on their way
  txLines,     \* the script's tx and rx
  rxLines,
  sent,        \* history: samples n ever sent
  reboots      \* history: reboots so far

sink == <<rx_count, last_seq>>
script == <<txLines, rxLines>>
vars == <<seq, sink, air, script, sent, reboots>>

\* A frame carries seq; k tells which of its sender's samples it is.
Frames == [k : Nat, seq : 0 .. SeqMod - 1]

TypeOK ==
  /\ seq \in [Senders -> 0 .. SeqMod - 1]
  /\ rx_count \in [Senders -> 0 .. SeqMod - 1]
  /\ last_seq \in [Senders -> 0 .. SeqMod - 1]
  /\ air \in [Senders -> SUBSET Frames]
  /\ txLines \in Nat
  /\ rxLines \in Nat
  /\ sent \in [Senders -> Nat]
  /\ reboots \in 0 .. MaxReboots

Init ==
  /\ seq = [n \in Senders |-> 0]
  /\ rx_count = [n \in Senders |-> 0]
  /\ last_seq = [n \in Senders |-> 0]
  /\ air = [n \in Senders |-> {}]
  /\ txLines = 0
  /\ rxLines = 0
  /\ sent = [n \in Senders |-> 0]
  /\ reboots = 0

-----------------------------------------------------------------------------

\* How many samples n sends in the behaviours considered.
Limit(n) == IF n \in Steady THEN SeqMod - 1 ELSE MaxSends

\* A plausible slip: the next number is taken at random, like the temperature.
SendShuffled(n) ==
  /\ sent[n] < Limit(n)
  /\ txLines' = txLines + 1
  /\ air' = [air EXCEPT ![n] = @ \cup {[k |-> sent[n], seq |-> seq[n]]}]
  /\ \E s \in 0 .. SeqMod - 1 : seq' = [seq EXCEPT ![n] = s]
  /\ sent' = [sent EXCEPT ![n] = @ + 1]
  /\ UNCHANGED <<sink, rxLines, reboots>>

\* The periodic timer of n expires: the TX line, the frame, the next number.
Send(n) ==
  /\ sent[n] < Limit(n)
  /\ txLines' = txLines + 1
  /\ air' = [air EXCEPT ![n] = @ \cup {[k |-> sent[n], seq |-> seq[n]]}]
  /\ seq' = [seq EXCEPT ![n] = (@ + 1) % SeqMod]
  /\ sent' = [sent EXCEPT ![n] = @ + 1]
  /\ UNCHANGED <<sink, rxLines, reboots>>

\* A plausible slip: only the first number is kept.
input_callbackKeepsFirst(n, s) ==
  IF n < MAX_NODES
  THEN /\ rx_count' = [rx_count EXCEPT ![n] = (@ + 1) % SeqMod]
       /\ last_seq' = [last_seq EXCEPT ![n] = IF rx_count[n] = 0 THEN s ELSE @]
       /\ rxLines' = rxLines + 1
  ELSE UNCHANGED <<rx_count, last_seq, rxLines>>

\* A plausible slip: the line is logged for a node without an entry, too.
input_callbackLogsAll(n, s) ==
  /\ rxLines' = rxLines + 1
  /\ IF n < MAX_NODES
     THEN /\ rx_count' = [rx_count EXCEPT ![n] = (@ + 1) % SeqMod]
          /\ last_seq' = [last_seq EXCEPT ![n] = s]
     ELSE UNCHANGED <<rx_count, last_seq>>

\* A plausible slip: the counter is not kept in its sixteen bits.
input_callbackWide(n, s) ==
  IF n < MAX_NODES
  THEN /\ rx_count' = [rx_count EXCEPT ![n] = @ + 1]
       /\ last_seq' = [last_seq EXCEPT ![n] = s]
       /\ rxLines' = rxLines + 1
  ELSE UNCHANGED <<rx_count, last_seq, rxLines>>

\* The sink gets a frame.  The RX line of a node with an entry is what the
\* script counts.
input_callback(n, s) ==
  IF n < MAX_NODES
  THEN /\ rx_count' = [rx_count EXCEPT ![n] = (@ + 1) % SeqMod]
       /\ last_seq' = [last_seq EXCEPT ![n] = s]
       /\ rxLines' = rxLines + 1
  ELSE UNCHANGED <<rx_count, last_seq, rxLines>>

\* A frame of n reaches the sink; those sent before it were lost.
Receive(n) ==
  \E f \in air[n] :
    /\ input_callback(n, f.seq)
    /\ air' = [air EXCEPT ![n] = {g \in @ : g.k > f.k}]
    /\ UNCHANGED <<seq, txLines, sent, reboots>>

\* A sender reboots: its static data start again, the sink's do not.
Reboot(n) ==
  /\ n \notin Steady
  /\ reboots < MaxReboots
  /\ reboots' = reboots + 1
  /\ seq' = [seq EXCEPT ![n] = 0]
  /\ UNCHANGED <<sink, air, script, sent>>

Next == \E n \in Senders : Send(n) \/ Receive(n) \/ Reboot(n)

Spec == Init /\ [][Next]_vars

-----------------------------------------------------------------------------

\* The ratio logged for n, in percent.
Pdr(n) == (100 * rx_count[n]) \div (last_seq[n] + 1)

\* "PDR = recibidos / (ultimo seq + 1)" is a ratio: the sink never logs that
\* more than all samples of a steady sender arrived, whichever of them were
\* lost, and whatever happens to the other senders.  (Of a sender that reboots
\* or wraps it does log more.)
PdrAtMost100 == \A n \in Steady : Pdr(n) <= 100

\* The senders the sink has entries for.
Tabled == {n \in Senders : n < MAX_NODES}

\* The two instruments agree: the RX lines the script counts are the samples
\* the sink counted, up to its sixteen bits, for senders inside and outside
\* its tables, through reboots and wraps; and the script's ratio is one.
SinkAgreesWithScript ==
  /\ rxLines % SeqMod = SumFunctionOnSet(rx_count, Tabled) % SeqMod
  /\ rxLines <= txLines

\* What the sink knows of the steady senders in its tables is their numbered
\* stream: the last number it keeps moves forward only, and never beyond what
\* the sender counted.
Known(n) == IF rx_count[n] = 0 THEN 0 ELSE last_seq[n] + 1

Streams == Tabled \cap Steady

Stream == INSTANCE SampleStream WITH
  Sources <- Streams,
  issued <- [n \in Streams |-> seq[n]],
  expected <- [n \in Streams |-> Known(n)]

StreamSpec == Stream!Spec
=============================================================================
