-------------------------- MODULE UdpCollectProofs --------------------------
(***************************************************************************)
(* Proofs about the RPL collection, for any clients, any of them with      *)
(* parents to report, any of them several hops away, every size of the     *)
(* root's tables and any number of samples.                                *)
(*                                                                         *)
(* The set of clients may be infinite: those that ever sent are finitely   *)
(* many, and the totals of the summary are sums over them.                 *)
(***************************************************************************)
EXTENDS UdpCollect, SumTheorems

USE DEF root, script, tree, clientVars, collectVars

-----------------------------------------------------------------------------
(* What a wakeup of the client does to its counter and to the tree.        *)

\* The counter of a client that still sends does not wrap.
LEMMA NoWrap ==
  ASSUME NEW k \in 0 .. SeqMod - 1, k < MaxSends
  PROVE  (k + 1) % SeqMod = k + 1 /\ k + 1 \in 0 .. SeqMod - 1 /\ k + 1 <= MaxSends
BY CollectAssumption, ClientAssumption

\* A report leaves one edge at most, the one to the parent reported.
LEMMA ReportEdges ==
  ASSUME NEW n \in Clients, ClientTypeOK, OneEdgeAtMost,
         report_parent(n) \/ UNCHANGED tree
  PROVE  /\ OneEdgeAtMost'
         /\ last_parent' \in [Clients -> Parents \cup {0}]
         /\ drawn' \in [Clients -> SUBSET Parents]
<1>1. CASE UNCHANGED tree
  BY <1>1 DEF OneEdgeAtMost, ClientTypeOK
<1>2. CASE report_parent(n)
  <2>1. PICK pid \in Parents \cup {0} :
          IF pid = last_parent[n]
          THEN UNCHANGED tree
          ELSE /\ drawn' = [drawn EXCEPT ![n] =
                              (@ \ {last_parent[n]}) \cup ({pid} \ {0})]
               /\ last_parent' = [last_parent EXCEPT ![n] = pid]
    BY <1>2 DEF report_parent
  <2>2. CASE pid = last_parent[n]
    BY <1>1, <2>1, <2>2
  <2>3. CASE pid # last_parent[n]
    <3>1. (drawn[n] \ {last_parent[n]}) \cup ({pid} \ {0}) = {pid} \ {0}
      BY DEF OneEdgeAtMost
    <3>2. /\ drawn' = [drawn EXCEPT ![n] = {pid} \ {0}]
          /\ last_parent' = [last_parent EXCEPT ![n] = pid]
      BY <2>1, <2>3, <3>1
    <3>3. {pid} \ {0} \subseteq Parents
      OBVIOUS
    <3>4. QED
      BY <3>2, <3>3 DEF OneEdgeAtMost, ClientTypeOK
  <2>4. QED
    BY <2>2, <2>3
<1>3. QED
  BY <1>1, <1>2

\* With a route the sample is counted, without one nothing happens.
LEMMA TimerStep ==
  ASSUME NEW n \in Clients, NEW reachable \in BOOLEAN,
         ClientTypeOK, OneEdgeAtMost, seq[n] < MaxSends,
         PeriodicTimer(n, reachable)
  PROVE  /\ ClientTypeOK' /\ OneEdgeAtMost'
         /\ seq' = IF reachable THEN [seq EXCEPT ![n] = @ + 1] ELSE seq
<1>1. (seq[n] + 1) % SeqMod = seq[n] + 1 /\ seq[n] + 1 \in 0 .. SeqMod - 1
  BY NoWrap DEF ClientTypeOK
<1>2. CASE reachable
  <2>1. seq' = [seq EXCEPT ![n] = @ + 1]
    BY <1>1, <1>2 DEF PeriodicTimer, Send, SendReporting, SendPlain
  <2>2. report_parent(n) \/ UNCHANGED tree
    BY <1>2, Zenon DEF PeriodicTimer, Send, SendReporting, SendPlain
  <2>3. seq' \in [Clients -> 0 .. SeqMod - 1]
    BY <1>1, <2>1 DEF ClientTypeOK
  <2>4. QED
    BY <1>2, <2>1, <2>2, <2>3, ReportEdges DEF ClientTypeOK
<1>3. CASE ~reachable
  BY <1>3 DEF PeriodicTimer, ClientTypeOK, OneEdgeAtMost
<1>4. QED
  BY <1>2, <1>3

-----------------------------------------------------------------------------
(* The inductive invariant.                                                *)

CounterTypes ==
  /\ air \in [Clients -> SUBSET Nat]
  /\ rx_count \in [Clients -> Nat]
  /\ last_seq \in [Clients -> Nat]
  /\ tx \in [Clients -> Nat]
  /\ rx \in [Clients -> Nat]

\* What is on its way was numbered by the client; what the root counted and
\* what it may still count are different samples.
Counted(n) ==
  /\ seq[n] <= MaxSends
  /\ IsFiniteSet(air[n]) /\ \A s \in air[n] : s < seq[n]
  /\ n \in Tabled => rx_count[n] + Cardinality(air[n]) <= seq[n]

\* What is on its way in order is newer than all the root knows.
Newer(n) ==
  /\ \A s \in air[n] : Known(n) <= s
  /\ Known(n) <= seq[n]

CollectInv ==
  /\ ClientTypeOK /\ OneEdgeAtMost
  /\ CounterTypes
  /\ ScriptAgrees
  /\ \A n \in Clients : Counted(n)
  /\ \A n \in Streams : Newer(n)

LEMMA InitCollect == Init => CollectInv
<1> SUFFICES ASSUME Init PROVE CollectInv
  OBVIOUS
<1>1. ClientTypeOK /\ OneEdgeAtMost
  BY ClientAssumption DEF Init, ClientInit, ClientTypeOK, OneEdgeAtMost
<1>2. CounterTypes /\ ScriptAgrees
  BY DEF Init, ClientInit, CounterTypes, ScriptAgrees
<1>3. ASSUME NEW n \in Clients PROVE Counted(n) /\ Newer(n)
  <2>1. seq[n] = 0 /\ air[n] = {} /\ rx_count[n] = 0
    BY DEF Init, ClientInit
  <2>2. IsFiniteSet(air[n]) /\ Cardinality(air[n]) = 0
    BY <2>1, FS_EmptySet
  <2>3. QED
    BY <2>1, <2>2, CollectAssumption DEF Counted, Newer, Known
<1>4. QED
  BY <1>1, <1>2, <1>3 DEF CollectInv, Streams, Tabled

LEMMA WakeupStep == ASSUME CollectInv, NEW n \in Clients, Wakeup(n) PROVE CollectInv'
<1>1. PICK reachable \in BOOLEAN :
        /\ Running /\ seq[n] < MaxSends
        /\ PeriodicTimer(n, reachable)
        /\ IF reachable
           THEN /\ air' = [air EXCEPT ![n] = @ \cup {seq[n]}]
                /\ tx' = [tx EXCEPT ![n] = @ + 1]
           ELSE UNCHANGED <<air, tx>>
        /\ UNCHANGED <<root, rx, summary>>
  BY DEF Wakeup
<1>2. /\ ClientTypeOK' /\ OneEdgeAtMost'
      /\ seq' = IF reachable THEN [seq EXCEPT ![n] = @ + 1] ELSE seq
  BY <1>1, TimerStep DEF CollectInv
<1>3. CASE ~reachable
  BY <1>1, <1>2, <1>3
     DEF CollectInv, CounterTypes, ScriptAgrees, Counted, Newer, Known
<1>4. CASE reachable
  <2>1. /\ seq' = [seq EXCEPT ![n] = @ + 1]
        /\ air' = [air EXCEPT ![n] = @ \cup {seq[n]}]
        /\ tx' = [tx EXCEPT ![n] = @ + 1]
        /\ UNCHANGED <<rx_count, last_seq, rx>>
    BY <1>1, <1>2, <1>4
  <2>2. seq \in [Clients -> Nat] /\ seq[n] + 1 <= MaxSends
    BY <1>1, CollectAssumption, ClientAssumption DEF CollectInv, ClientTypeOK
  <2>3. CounterTypes' /\ ScriptAgrees'
    BY <2>1, <2>2 DEF CollectInv, CounterTypes, ScriptAgrees
  <2>4. Counted(n)'
    <3>1. seq[n] \notin air[n] /\ IsFiniteSet(air[n])
      BY <2>2 DEF CollectInv, Counted
    <3>2. /\ IsFiniteSet(air[n] \cup {seq[n]})
          /\ Cardinality(air[n] \cup {seq[n]}) = Cardinality(air[n]) + 1
      BY <3>1, FS_AddElement
    <3>3. Cardinality(air[n]) \in Nat
      BY <3>1, FS_CardinalityType
    <3>4. air'[n] = air[n] \cup {seq[n]} /\ seq'[n] = seq[n] + 1
      BY <2>1, <2>2 DEF CollectInv, CounterTypes
    <3>5. QED
      BY <2>1, <2>2, <3>2, <3>3, <3>4 DEF CollectInv, CounterTypes, Counted
  <2>5. ASSUME NEW m \in Clients, m # n PROVE Counted(m)'
    BY <2>1, <2>5 DEF CollectInv, CounterTypes, ClientTypeOK, Counted
  <2>6. ASSUME NEW m \in Streams PROVE Newer(m)'
    <3>1. m \in Clients /\ Known(m)' = Known(m) /\ Known(m) \in Nat
      BY <2>1 DEF CollectInv, CounterTypes, Known, Streams, Tabled
    <3>2. CASE m = n
      <4>1. air'[n] = air[n] \cup {seq[n]} /\ seq'[n] = seq[n] + 1
        BY <2>1, <2>2 DEF CollectInv, CounterTypes
      <4>2. QED
        BY <2>2, <3>1, <3>2, <4>1 DEF CollectInv, Newer
    <3>3. CASE m # n
      BY <2>1, <3>1, <3>3 DEF CollectInv, CounterTypes, ClientTypeOK, Newer
    <3>4. QED
      BY <3>2, <3>3
  <2>7. QED
    BY <1>2, <2>3, <2>4, <2>5, <2>6 DEF CollectInv, Streams, Tabled
<1>5. QED
  BY <1>3, <1>4

\* A sample arrives: it leaves the air, with those it leaves behind.
LEMMA ReceiveStep == ASSUME CollectInv, NEW n \in Clients, Receive(n) PROVE CollectInv'
<1>1. PICK s \in air[n] :
        /\ udp_rx_callback(n, s)
        /\ air' = [air EXCEPT ![n] = IF n \in Multihop THEN @ \ {s} ELSE {m \in @ : m > s}]
        /\ UNCHANGED <<clientVars, tx, summary>>
  BY DEF Receive
<1>2. s \in Nat /\ s < seq[n] /\ seq \in [Clients -> Nat]
  BY ClientAssumption DEF CollectInv, CounterTypes, Counted, ClientTypeOK
<1>3. ClientTypeOK' /\ OneEdgeAtMost'
  BY <1>1 DEF CollectInv, ClientTypeOK, OneEdgeAtMost
<1>4. CounterTypes' /\ ScriptAgrees'
  <2>1. CASE n < MAX_NODES
    BY <1>1, <1>2, <2>1
       DEF CollectInv, CounterTypes, ScriptAgrees, udp_rx_callback, Tabled
  <2>2. CASE ~(n < MAX_NODES)
    BY <1>1, <1>2, <2>2
       DEF CollectInv, CounterTypes, ScriptAgrees, udp_rx_callback
  <2>3. QED
    BY <2>1, <2>2
<1>5. air'[n] \subseteq air[n] \ {s}
  BY <1>1 DEF CollectInv, CounterTypes
<1>6. ASSUME NEW m \in Clients, m # n
      PROVE  /\ air'[m] = air[m] /\ rx_count'[m] = rx_count[m]
             /\ last_seq'[m] = last_seq[m]
  BY <1>1, <1>6 DEF CollectInv, CounterTypes, udp_rx_callback
<1>7. Counted(n)'
  <2>1. IsFiniteSet(air[n]) /\ Cardinality(air[n]) \in Nat
    BY FS_CardinalityType DEF CollectInv, Counted
  <2>2. /\ IsFiniteSet(air[n] \ {s})
        /\ Cardinality(air[n] \ {s}) = Cardinality(air[n]) - 1
    BY <2>1, FS_RemoveElement
  <2>3. /\ IsFiniteSet(air'[n])
        /\ Cardinality(air'[n]) <= Cardinality(air[n]) - 1
    BY <1>5, <2>2, FS_Subset
  <2>4. Cardinality(air'[n]) \in Nat
    BY <2>3, FS_CardinalityType
  <2>5. n \in Tabled => rx_count'[n] = rx_count[n] + 1
    BY <1>1 DEF CollectInv, CounterTypes, udp_rx_callback, Tabled
  <2>6. seq' = seq /\ Tabled' = Tabled
    BY <1>1 DEF Tabled
  <2>7. n \in Tabled => rx_count'[n] + Cardinality(air'[n]) <= seq[n]
    BY <1>2, <2>1, <2>3, <2>4, <2>5 DEF CollectInv, CounterTypes, Counted
  <2>8. QED
    BY <1>5, <2>3, <2>6, <2>7 DEF CollectInv, Counted
<1>8. ASSUME NEW m \in Clients, m # n PROVE Counted(m)'
  BY <1>1, <1>6, <1>8 DEF CollectInv, Counted, Tabled
<1>9. ASSUME NEW m \in Streams PROVE Newer(m)'
  <2>1. m \in Clients /\ m \notin Multihop /\ m < MAX_NODES
    BY DEF Streams, Tabled
  <2>2. CASE m # n
    BY <1>1, <1>6, <2>1, <2>2 DEF CollectInv, Newer, Known
  <2>3. CASE m = n
    <3>1. air'[n] = {k \in air[n] : k > s} /\ last_seq'[n] = s /\ rx_count'[n] = rx_count[n] + 1
      BY <1>1, <2>1, <2>3 DEF CollectInv, CounterTypes, udp_rx_callback
    <3>2. Known(n)' = s + 1
      BY <3>1 DEF CollectInv, CounterTypes, Known
    <3>3. air[n] \subseteq Nat
      BY DEF CollectInv, CounterTypes
    <3>4. QED
      BY <1>1, <1>2, <2>3, <3>1, <3>2, <3>3 DEF Newer
  <2>4. QED
    BY <2>2, <2>3
<1>10. QED
  BY <1>3, <1>4, <1>7, <1>8, <1>9 DEF CollectInv, Streams, Tabled

LEMMA CollectStep == CollectInv /\ [Next]_collectVars => CollectInv'
<1> SUFFICES ASSUME CollectInv, [Next]_collectVars PROVE CollectInv'
  OBVIOUS
<1>1. CASE \E n \in Clients : Wakeup(n)
  BY <1>1, WakeupStep
<1>2. CASE \E n \in Clients : Receive(n)
  BY <1>2, ReceiveStep
<1>3. CASE Timeout \/ UNCHANGED collectVars
  BY <1>3
     DEF Timeout, CollectInv, ClientTypeOK, OneEdgeAtMost, CounterTypes,
         ScriptAgrees, Counted, Newer, Known, Streams, Tabled
<1>4. QED
  BY <1>1, <1>2, <1>3 DEF Next

LEMMA CollectAlways == Spec => []CollectInv
BY InitCollect, CollectStep, PTL DEF Spec

-----------------------------------------------------------------------------
(* The results.                                                            *)

\* A parent's change never leaves an earlier edge in Cooja.
THEOREM EdgesCorrect == Spec => []OneEdgeAtMost
BY CollectAlways, PTL DEF CollectInv

\* The simulation's script counts of every node what its two ends count.
THEOREM ScriptIsRight == Spec => []ScriptAgrees
BY CollectAlways, PTL DEF CollectInv

\* What the script sums up: the clients heard of are finitely many, and of
\* their totals the one that arrived is the smaller.
SummaryInv ==
  /\ IsFiniteSet(Heard)
  /\ summary # NoSummary =>
       summary \in [tx : Nat, rx : Nat] /\ summary.rx <= summary.tx

\* No client's ratio passes 100%, whatever is lost or overtaken.
LEMMA ClientRatios ==
  ASSUME CollectInv, NEW n \in Clients
  PROVE  /\ tx[n] \in Nat /\ rx[n] \in Nat /\ rx[n] <= tx[n]
         /\ n \in Tabled => rx[n] + Cardinality(air[n]) <= tx[n]
<1>1. /\ tx[n] \in Nat /\ rx[n] \in Nat /\ tx[n] = seq[n] /\ rx[n] = rx_count[n]
      /\ n \notin Tabled => rx[n] = 0
      /\ IsFiniteSet(air[n])
      /\ n \in Tabled => rx_count[n] + Cardinality(air[n]) <= seq[n]
  BY DEF CollectInv, CounterTypes, ScriptAgrees, Counted
<1>2. Cardinality(air[n]) \in Nat
  BY <1>1, FS_CardinalityType
<1>3. QED
  BY <1>1, <1>2

\* A line of a client adds it to those heard of.
LEMMA HeardGrows ==
  ASSUME CollectInv, SummaryInv, NEW n \in Clients, Wakeup(n)
  PROVE  IsFiniteSet(Heard')
<1>1. tx' = tx \/ tx' = [tx EXCEPT ![n] = @ + 1]
  BY DEF Wakeup
<1>2. Heard' \subseteq Heard \cup {n}
  BY <1>1 DEF CollectInv, CounterTypes, Heard
<1>3. IsFiniteSet(Heard \cup {n})
  BY FS_AddElement DEF SummaryInv
<1>4. QED
  BY <1>2, <1>3, FS_Subset

LEMMA TimeoutSums == ASSUME CollectInv, SummaryInv, Timeout PROVE SummaryInv'
<1>1. \A n \in Heard : rx[n] \in Nat /\ tx[n] \in Nat /\ rx[n] <= tx[n]
  BY ClientRatios DEF Heard
<1>2. /\ SumFunctionOnSet(rx, Heard) \in Nat /\ SumFunctionOnSet(tx, Heard) \in Nat
      /\ SumFunctionOnSet(rx, Heard) <= SumFunctionOnSet(tx, Heard)
  BY <1>1, SumMonotone DEF SummaryInv
<1>3. Heard' = Heard
  BY DEF Timeout, Heard
<1>4. summary' = [tx |-> SumFunctionOnSet(tx, Heard), rx |-> SumFunctionOnSet(rx, Heard)]
  BY DEF Timeout
<1>5. QED
  BY <1>2, <1>3, <1>4 DEF SummaryInv

LEMMA SummaryStep ==
  CollectInv /\ SummaryInv /\ [Next]_collectVars => SummaryInv'
<1> SUFFICES ASSUME CollectInv, SummaryInv, [Next]_collectVars PROVE SummaryInv'
  OBVIOUS
<1>1. ASSUME NEW n \in Clients, Wakeup(n) PROVE SummaryInv'
  <2>1. summary' = summary
    BY <1>1 DEF Wakeup
  <2>2. QED
    BY <1>1, <2>1, HeardGrows DEF SummaryInv
<1>2. ASSUME NEW n \in Clients, Receive(n) PROVE SummaryInv'
  BY <1>2 DEF Receive, SummaryInv, Heard
<1>3. CASE Timeout
  BY <1>3, TimeoutSums
<1>4. CASE UNCHANGED collectVars
  BY <1>4 DEF SummaryInv, Heard
<1>5. QED
  BY <1>1, <1>2, <1>3, <1>4 DEF Next

LEMMA InitSummary == Init => SummaryInv
<1> SUFFICES ASSUME Init PROVE SummaryInv
  OBVIOUS
<1>1. Heard = {} /\ summary = NoSummary
  BY DEF Init, Heard
<1>2. QED
  BY <1>1, FS_EmptySet DEF SummaryInv

LEMMA SummaryAlways == Spec => []SummaryInv
BY InitSummary, SummaryStep, CollectAlways, PTL DEF Spec

\* The summary's totals, and every client's, are parts of a whole: no ratio
\* the script prints passes 100%.
THEOREM Ratios == Spec => []SummaryIsARatio
<1>1. CollectInv /\ SummaryInv => SummaryIsARatio
  BY ClientRatios DEF SummaryInv, SummaryIsARatio, Tabled
<1>2. QED
  BY <1>1, SummaryAlways, CollectAlways, PTL

\* The last number the root keeps of a client is one the client sent.
LastWasSent == last_seq \in [Clients -> 0 .. MaxSends]

LEMMA LastStep == CollectInv /\ LastWasSent /\ [Next]_collectVars => LastWasSent'
<1> SUFFICES ASSUME CollectInv, LastWasSent, [Next]_collectVars PROVE LastWasSent'
  OBVIOUS
<1>1. ASSUME NEW n \in Clients, Receive(n) PROVE LastWasSent'
  <2>1. PICK s \in air[n] : udp_rx_callback(n, s)
    BY <1>1 DEF Receive
  <2>2. s \in 0 .. MaxSends
    BY CollectAssumption, ClientAssumption
       DEF CollectInv, CounterTypes, ClientTypeOK, Counted
  <2>3. QED
    BY <2>1, <2>2 DEF LastWasSent, udp_rx_callback
<1>2. CASE (\E n \in Clients : Wakeup(n)) \/ Timeout \/ UNCHANGED collectVars
  BY <1>2 DEF Wakeup, Timeout, LastWasSent
<1>3. QED
  BY <1>1, <1>2 DEF Next

\* Every reachable state is well typed: no counter passes the number of samples
\* a client sends.
THEOREM TypeCorrect == Spec => []TypeOK
<1>1. Init => LastWasSent
  BY CollectAssumption DEF Init, LastWasSent
<1>2. ASSUME CollectInv, SummaryInv, LastWasSent PROVE TypeOK
  <2>1. ASSUME NEW n \in Clients
        PROVE  /\ air[n] \subseteq 0 .. MaxSends - 1
               /\ rx_count[n] \in 0 .. MaxSends
               /\ tx[n] \in 0 .. MaxSends
               /\ rx[n] \in 0 .. MaxSends
    <3>1. seq[n] \in Nat /\ seq[n] <= MaxSends /\ air[n] \subseteq Nat
          /\ \A k \in air[n] : k < seq[n]
      BY <1>2, ClientAssumption DEF CollectInv, CounterTypes, ClientTypeOK, Counted
    <3>2. tx[n] = seq[n] /\ rx[n] = rx_count[n]
      BY <1>2 DEF CollectInv, ScriptAgrees
    <3>3. tx[n] \in Nat /\ rx[n] \in Nat /\ rx[n] <= tx[n]
      BY <1>2, ClientRatios
    <3>4. QED
      BY <3>1, <3>2, <3>3, CollectAssumption
  <2>2. /\ air \in [Clients -> SUBSET (0 .. MaxSends - 1)]
        /\ rx_count \in [Clients -> 0 .. MaxSends]
        /\ tx \in [Clients -> 0 .. MaxSends]
        /\ rx \in [Clients -> 0 .. MaxSends]
    BY <1>2, <2>1 DEF CollectInv, CounterTypes
  <2>3. QED
    BY <1>2, <2>2 DEF CollectInv, SummaryInv, LastWasSent, TypeOK
<1>3. QED
  BY <1>1, <1>2, LastStep, SummaryAlways, CollectAlways, PTL DEF Spec

LEMMA StreamStep ==
  ASSUME CollectInv, [Next]_collectVars
  PROVE  [Stream!Next]_(Stream!vars)
<1> USE DEF Stream!vars
<1>1. Streams \subseteq Clients
  BY DEF Streams, Tabled
<1>2. ASSUME NEW n \in Clients, Wakeup(n) PROVE [Stream!Next]_(Stream!vars)
  <2>1. PICK reachable \in BOOLEAN :
          seq[n] < MaxSends /\ PeriodicTimer(n, reachable) /\ UNCHANGED root
    BY <1>2 DEF Wakeup
  <2>2. seq' = IF reachable THEN [seq EXCEPT ![n] = @ + 1] ELSE seq
    BY <2>1, TimerStep DEF CollectInv
  <2>3. UNCHANGED [m \in Streams |-> Known(m)]
    BY <2>1 DEF Known
  <2>4. CASE n \in Streams /\ reachable
    <3>1. [m \in Streams |-> seq[m]]'
            = [[m \in Streams |-> seq[m]] EXCEPT ![n] = @ + 1]
      BY <1>1, <2>2, <2>4 DEF CollectInv, ClientTypeOK
    <3>2. Stream!Issue(n)
      BY <2>3, <3>1 DEF Stream!Issue
    <3>3. QED
      BY <2>4, <3>2 DEF Stream!Next
  <2>5. CASE ~(n \in Streams /\ reachable)
    <3>1. UNCHANGED [m \in Streams |-> seq[m]]
      BY <1>1, <2>2, <2>5 DEF CollectInv, ClientTypeOK
    <3>2. QED
      BY <2>3, <3>1
  <2>6. QED
    BY <2>4, <2>5
<1>3. ASSUME NEW n \in Clients, Receive(n) PROVE [Stream!Next]_(Stream!vars)
  <2>1. PICK s \in air[n] : udp_rx_callback(n, s) /\ UNCHANGED clientVars
    BY <1>3 DEF Receive
  <2>2. CASE n \in Streams
    <3>1. s \in Known(n) .. seq[n] - 1
      BY <1>1, <2>2, ClientAssumption
         DEF CollectInv, CounterTypes, ClientTypeOK, Counted, Newer, Known
    <3>2. rx_count' = [rx_count EXCEPT ![n] = @ + 1] /\ last_seq' = [last_seq EXCEPT ![n] = s]
      BY <2>1, <2>2 DEF udp_rx_callback, Streams, Tabled
    <3>3. \A m \in Streams : Known(m)' = IF m = n THEN s + 1 ELSE Known(m)
      BY <1>1, <3>2 DEF CollectInv, CounterTypes, Known
    <3>4. [m \in Streams |-> Known(m)]'
            = [[m \in Streams |-> Known(m)] EXCEPT ![n] = s + 1]
      BY <3>3
    <3>5. Stream!Deliver(n)
      BY <2>1, <2>2, <3>1, <3>4 DEF Stream!Deliver
    <3>6. QED
      BY <2>2, <3>5 DEF Stream!Next
  <2>3. CASE n \notin Streams
    <3>1. \A m \in Streams : Known(m)' = Known(m)
      BY <1>1, <2>1, <2>3 DEF CollectInv, CounterTypes, Known, udp_rx_callback
    <3>2. QED
      BY <2>1, <3>1
  <2>4. QED
    BY <2>2, <2>3
<1>4. CASE Timeout \/ UNCHANGED collectVars
  BY <1>4 DEF Timeout, Known
<1>5. QED
  BY <1>2, <1>3, <1>4 DEF Next

\* What the root knows of the clients whose datagrams keep their order is their
\* sample stream.
THEOREM Refinement == Spec => StreamSpec
<1>1. Init => Stream!Init
  BY DEF Init, ClientInit, Stream!Init, Known, Streams, Tabled
<1>2. CollectInv /\ [Next]_collectVars => [Stream!Next]_(Stream!vars)
  BY StreamStep
<1>3. QED
  BY <1>1, <1>2, CollectAlways, PTL DEF Spec, StreamSpec, Stream!Spec
=============================================================================
