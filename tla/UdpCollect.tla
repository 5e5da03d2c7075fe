----------------------------- MODULE UdpCollect -----------------------------
(***************************************************************************)
(* Practica 4: the clients' samples, the root that counts them             *)
(* (practicas/p4-rpl-udp/udp-server.c) and the simulation script that      *)
(* sums both up (practicas/p4-rpl-udp/metrics.js).                         *)
(*                                                                         *)
(* Over several hops a datagram is lost, or overtaken by a later one that  *)
(* took another route.  The root's ratio of a node comes from the last     *)
(* number received, the script's from the lines both ends print.           *)
(***************************************************************************)
EXTENDS UdpClient, FiniteSets, Functions

CONSTANTS
  MAX_NODES,     \* length of the root's tables
  Multihop,      \* clients whose datagrams may overtake each other
  MaxSends       \* bound: samples a client sends

\* Up to the bound no counter of the root comes near its 32 bits.
ASSUME CollectAssumption ==
  /\ MAX_NODES \in Nat
  /\ Multihop \subseteq Clients
  /\ MaxSends \in Nat
  /\ MaxSends < SeqMod

VARIABLES
  air,           \* air[n]: numbers of the samples of n on their way
  rx_count,      \* rx_count[n], last_seq[n]: the root's entries for n
  last_seq,
  tx, rx,        \* the script's lines of n, at the sender and at the root
  summary        \* what the script printed at its TIMEOUT, or NoSummary

root == <<rx_count, last_seq>>
script == <<tx, rx, summary>>
collectVars == <<clientVars, air, root, script>>

NoSummary == <<>>

TypeOK ==
  /\ ClientTypeOK
  /\ air \in [Clients -> SUBSET (0 .. MaxSends - 1)]
  /\ rx_count \in [Clients -> 0 .. MaxSends]
  /\ last_seq \in [Clients -> 0 .. MaxSends]
  /\ tx \in [Clients -> 0 .. MaxSends]
  /\ rx \in [Clients -> 0 .. MaxSends]
  /\ summary = NoSummary \/ summary \in [tx : Nat, rx : Nat]

Init ==
  /\ ClientInit
  /\ air = [n \in Clients |-> {}]
  /\ rx_count = [n \in Clients |-> 0]
  /\ last_seq = [n \in Clients |-> 0]
  /\ tx = [n \in Clients |-> 0]
  /\ rx = [n \in Clients |-> 0]
  /\ summary = NoSummary

-----------------------------------------------------------------------------

\* The script runs until its TIMEOUT, and the simulation with it.
Running == summary = NoSummary

\* A plausible slip: the TX line is the alternative to the report.
WakeupLogsReports(n) ==
  \E reachable \in BOOLEAN :
    /\ Running
    /\ seq[n] < MaxSends
    /\ PeriodicTimer(n, reachable)
    /\ IF reachable
       THEN /\ air' = [air EXCEPT ![n] = @ \cup {seq[n]}]
            /\ tx' = [tx EXCEPT ![n] = IF seq'[n] % ReportEvery = 0 THEN @ ELSE @ + 1]
       ELSE UNCHANGED <<air, tx>>
    /\ UNCHANGED <<root, rx, summary>>

\* A client's timer expires: with a route, a datagram leaves and its TX line
\* is printed.
Wakeup(n) ==
  \E reachable \in BOOLEAN :
    /\ Running
    /\ seq[n] < MaxSends
    /\ PeriodicTimer(n, reachable)
    /\ IF reachable
       THEN /\ air' = [air EXCEPT ![n] = @ \cup {seq[n]}]
            /\ tx' = [tx EXCEPT ![n] = @ + 1]
       ELSE UNCHANGED <<air, tx>>
    /\ UNCHANGED <<root, rx, summary>>

\* A plausible slip: samples of a node without an entry print the RX line too.
udp_rx_callbackLogsAll(n, s) ==
  /\ rx' = [rx EXCEPT ![n] = @ + 1]
  /\ IF n < MAX_NODES
     THEN /\ rx_count' = [rx_count EXCEPT ![n] = @ + 1]
          /\ last_seq' = [last_seq EXCEPT ![n] = s]
     ELSE UNCHANGED root

\* The root gets a sample.  Its RX line is what the script counts; that of a
\* node without an entry does not match the script's rx_re.
udp_rx_callback(n, s) ==
  IF n < MAX_NODES
  THEN /\ rx_count' = [rx_count EXCEPT ![n] = @ + 1]
       /\ last_seq' = [last_seq EXCEPT ![n] = s]
       /\ rx' = [rx EXCEPT ![n] = @ + 1]
  ELSE UNCHANGED <<root, rx>>

\* A datagram of n reaches the root.  Those it leaves behind were lost, or,
\* when datagrams overtake each other, may still come.
Receive(n) ==
  \E s \in air[n] :
    /\ Running
    /\ udp_rx_callback(n, s)
    /\ air' = [air EXCEPT ![n] = IF n \in Multihop THEN @ \ {s} ELSE {m \in @ : m > s}]
    /\ UNCHANGED <<clientVars, tx, summary>>

Heard == {n \in Clients : tx[n] > 0}

\* The TIMEOUT: the script sums up the nodes it has TX lines of and stops.
Timeout ==
  /\ Running
  /\ summary' = [tx |-> SumFunctionOnSet(tx, Heard),
                 rx |-> SumFunctionOnSet(rx, Heard)]
  /\ UNCHANGED <<clientVars, air, root, tx, rx>>

Next ==
  \/ \E n \in Clients : Wakeup(n) \/ Receive(n)
  \/ Timeout

Spec == Init /\ [][Next]_collectVars

-----------------------------------------------------------------------------

Tabled == {n \in Clients : n < MAX_NODES}

\* The script and the two ends agree about every node: it saw as many samples
\* leave as the client numbered and as many arrive as the root counted.
\* Nodes beyond the root's tables are seen to send and never to arrive.
ScriptAgrees ==
  \A n \in Clients :
    /\ tx[n] = seq[n]
    /\ rx[n] = rx_count[n]
    /\ n \notin Tabled => rx[n] = 0

\* Whatever is lost or overtaken, what arrived and what may still arrive are
\* samples sent, each at most once: no ratio of the summary passes 100%.
SummaryIsARatio ==
  /\ \A n \in Tabled : rx[n] + Cardinality(air[n]) <= tx[n]
  /\ summary # NoSummary => summary.rx <= summary.tx

\* The root "keeps the delivery ratio of each node": what it prints is a ratio.
Pdr(n) == (100 * rx_count[n]) \div (last_seq[n] + 1)

PdrAtMost100 == \A n \in Clients : Pdr(n) <= 100

\* What the root knows of a client in its tables is the client's numbered
\* stream, as long as the client's datagrams keep their order.
Known(n) == IF rx_count[n] = 0 THEN 0 ELSE last_seq[n] + 1

Streams == Tabled \ Multihop

Stream == INSTANCE SampleStream WITH
  Sources <- Streams,
  issued <- [n \in Streams |-> seq[n]],
  expected <- [n \in Streams |-> Known(n)]

StreamSpec == Stream!Spec
=============================================================================
