------------------------- MODULE NullnetStarProofs -------------------------
(***************************************************************************)
(* Proofs about the NullNet star, for every set of senders, every choice   *)
(* of the steady ones, every size of the sink's tables, every width of the *)
(* counters and every number of samples and reboots.                       *)
(***************************************************************************)
EXTENDS NullnetStar, SumTheorems

USE DEF sink, script, vars

-----------------------------------------------------------------------------
(* Types, whatever wraps or reboots.                                       *)

LEMMA SendType == ASSUME TypeOK, NEW n \in Senders, Send(n) PROVE TypeOK'
<1> USE ParametersAssumption DEF TypeOK, Send
<1>1. (seq[n] + 1) % SeqMod \in 0 .. SeqMod - 1
  OBVIOUS
<1>2. [k |-> sent[n], seq |-> seq[n]] \in Frames
  BY DEF Frames
<1>3. air' \in [Senders -> SUBSET Frames]
  BY <1>2
<1>4. seq' \in [Senders -> 0 .. SeqMod - 1] /\ sent' \in [Senders -> Nat]
  BY <1>1
<1>5. QED
  BY <1>3, <1>4

LEMMA ReceiveType == ASSUME TypeOK, NEW n \in Senders, Receive(n) PROVE TypeOK'
<1>1. PICK f \in air[n] :
        /\ input_callback(n, f.seq)
        /\ air' = [air EXCEPT ![n] = {g \in @ : g.k > f.k}]
        /\ UNCHANGED <<seq, txLines, sent, reboots>>
  BY DEF Receive
<1>2. f.seq \in 0 .. SeqMod - 1 /\ (rx_count[n] + 1) % SeqMod \in 0 .. SeqMod - 1
  BY ParametersAssumption DEF TypeOK, Frames
<1>3. /\ rx_count' \in [Senders -> 0 .. SeqMod - 1]
      /\ last_seq' \in [Senders -> 0 .. SeqMod - 1]
      /\ rxLines' \in Nat
  BY <1>1, <1>2 DEF TypeOK, input_callback
<1>4. air' \in [Senders -> SUBSET Frames]
  BY <1>1 DEF TypeOK
<1>5. QED
  BY <1>1, <1>3, <1>4 DEF TypeOK

LEMMA TypeStep == TypeOK /\ [Next]_vars => TypeOK'
<1> SUFFICES ASSUME TypeOK, [Next]_vars PROVE TypeOK'
  OBVIOUS
<1>1. CASE \E n \in Senders : Send(n)
  BY <1>1, SendType
<1>2. CASE \E n \in Senders : Receive(n)
  BY <1>2, ReceiveType
<1>3. CASE \E n \in Senders : Reboot(n)
  BY <1>3, ParametersAssumption DEF Reboot, TypeOK
<1>4. CASE UNCHANGED vars
  BY <1>4 DEF TypeOK
<1>5. QED
  BY <1>1, <1>2, <1>3, <1>4 DEF Next

\* Every variable keeps its type; the counters stay within a uint16_t.
THEOREM TypeCorrect == Spec => []TypeOK
<1>1. Init => TypeOK
  BY ParametersAssumption DEF Init, TypeOK
<1>2. QED
  BY <1>1, TypeStep, PTL DEF Spec

-----------------------------------------------------------------------------
(* The ratio and the stream of the steady senders.                         *)

\* The numbers of a steady sender are its samples' own, a frame of it on its
\* way is newer than all the sink knows, and the sink has counted at most the
\* samples it knows of.
NodeInv(n) ==
  /\ sent[n] < SeqMod /\ seq[n] = sent[n]
  /\ \A f \in air[n] : f.seq = f.k /\ Known(n) <= f.k /\ f.k < sent[n]
  /\ rx_count[n] <= Known(n) /\ Known(n) <= sent[n]

StarInv == TypeOK /\ \A n \in Steady : NodeInv(n)

LEMMA InitStar == Init => StarInv
BY ParametersAssumption DEF Init, TypeOK, StarInv, NodeInv, Known

LEMMA KnownType == ASSUME TypeOK, NEW n \in Senders PROVE Known(n) \in Nat
BY ParametersAssumption DEF TypeOK, Known

\* What one sender does leaves the entries, frames and numbers of another.
LEMMA OtherNode ==
  ASSUME TypeOK, NEW n \in Senders, NEW m \in Senders, m # n,
         Send(n) \/ Receive(n) \/ Reboot(n)
  PROVE  /\ seq'[m] = seq[m] /\ Known(m)' = Known(m)
         /\ NodeInv(m) => NodeInv(m)'
<1>1. /\ seq'[m] = seq[m] /\ sent'[m] = sent[m] /\ air'[m] = air[m]
      /\ rx_count'[m] = rx_count[m] /\ last_seq'[m] = last_seq[m]
  <2>1. CASE Send(n)
    BY <2>1 DEF TypeOK, Send
  <2>2. CASE Receive(n)
    <3>1. PICK f \in air[n] :
            /\ input_callback(n, f.seq)
            /\ air' = [air EXCEPT ![n] = {g \in @ : g.k > f.k}]
            /\ UNCHANGED <<seq, txLines, sent, reboots>>
      BY <2>2 DEF Receive
    <3>2. QED
      BY <3>1 DEF TypeOK, input_callback
  <2>3. CASE Reboot(n)
    BY <2>3 DEF TypeOK, Reboot
  <2>4. QED
    BY <2>1, <2>2, <2>3
<1>2. Known(m)' = Known(m)
  BY <1>1 DEF Known
<1>3. QED
  BY <1>1, <1>2 DEF NodeInv

\* A sample sent by a steady sender: the number does not wrap.
LEMMA SendSteady ==
  ASSUME TypeOK, NEW n \in Steady, NodeInv(n), Send(n)
  PROVE  /\ NodeInv(n)'
         /\ seq' = [seq EXCEPT ![n] = @ + 1] /\ Known(n)' = Known(n)
<1>1. n \in Senders /\ SeqMod \in Nat \ {0}
  BY ParametersAssumption
<1>2. seq[n] \in Nat /\ sent[n] = seq[n] /\ seq[n] + 1 < SeqMod
  BY <1>1 DEF TypeOK, NodeInv, Send, Limit
<1>3. (seq[n] + 1) % SeqMod = seq[n] + 1
  BY <1>1, <1>2
<1>4. /\ seq' = [seq EXCEPT ![n] = @ + 1]
      /\ seq'[n] = seq[n] + 1 /\ sent'[n] = sent[n] + 1
      /\ rx_count'[n] = rx_count[n] /\ last_seq'[n] = last_seq[n]
      /\ air'[n] = air[n] \cup {[k |-> sent[n], seq |-> seq[n]]}
  BY <1>1, <1>3 DEF TypeOK, Send
<1>5. Known(n)' = Known(n) /\ Known(n) \in Nat
  BY <1>1, <1>4, KnownType DEF Known
<1>6. ASSUME NEW f \in air'[n] PROVE f.seq = f.k /\ Known(n)' <= f.k /\ f.k < sent'[n]
  <2>1. CASE f \in air[n]
    <3>1. f.k \in Nat /\ f.seq = f.k /\ Known(n) <= f.k /\ f.k < sent[n]
      BY <1>1, <2>1 DEF NodeInv, TypeOK, Frames
    <3>2. QED
      BY <1>2, <1>4, <1>5, <3>1
  <2>2. CASE f = [k |-> sent[n], seq |-> seq[n]]
    BY <1>2, <1>4, <1>5, <2>2 DEF NodeInv
  <2>3. QED
    BY <1>4, <2>1, <2>2
<1>7. QED
  BY <1>1, <1>2, <1>4, <1>5, <1>6 DEF NodeInv, TypeOK

\* A frame of a steady sender comes in: its number is one the sink has not
\* passed, and one reception more is not more than that number allows.
LEMMA ReceiveSteady ==
  ASSUME TypeOK, NEW n \in Steady, NodeInv(n), Receive(n)
  PROVE  /\ NodeInv(n)' /\ seq' = seq
         /\ IF n < MAX_NODES
            THEN \E k \in Known(n) .. seq[n] - 1 : Known(n)' = k + 1
            ELSE Known(n)' = Known(n)
<1>0. n \in Senders /\ SeqMod \in Nat \ {0}
  BY ParametersAssumption
<1>1. PICK f \in air[n] :
        /\ input_callback(n, f.seq)
        /\ air' = [air EXCEPT ![n] = {g \in @ : g.k > f.k}]
        /\ UNCHANGED <<seq, txLines, sent, reboots>>
  BY DEF Receive
<1>2. /\ f.k \in Nat /\ f.seq = f.k /\ f.k < sent[n] /\ sent[n] \in Nat
      /\ rx_count[n] \in Nat /\ Known(n) \in Nat /\ seq[n] = sent[n]
      /\ rx_count[n] <= Known(n) /\ Known(n) <= f.k /\ sent[n] < SeqMod
  BY <1>0, KnownType DEF NodeInv, TypeOK, Frames
<1>3. (rx_count[n] + 1) % SeqMod = rx_count[n] + 1
  BY <1>0, <1>2
<1>4. /\ air'[n] = {g \in air[n] : g.k > f.k}
      /\ sent'[n] = sent[n] /\ seq'[n] = seq[n] /\ seq' = seq
  BY <1>0, <1>1 DEF TypeOK
<1>5. CASE n < MAX_NODES
  <2>1. rx_count'[n] = rx_count[n] + 1 /\ last_seq'[n] = f.k
    BY <1>0, <1>1, <1>2, <1>3, <1>5 DEF TypeOK, input_callback
  <2>2. Known(n)' = f.k + 1 /\ rx_count'[n] <= Known(n)' /\ Known(n)' <= sent'[n]
    BY <1>2, <1>4, <2>1 DEF Known
  <2>3. ASSUME NEW g \in air'[n] PROVE g.seq = g.k /\ Known(n)' <= g.k /\ g.k < sent'[n]
    <3>1. g.k \in Nat /\ g.seq = g.k /\ g.k < sent[n] /\ g.k > f.k
      BY <1>0, <1>4 DEF NodeInv, TypeOK, Frames
    <3>2. QED
      BY <1>2, <1>4, <2>2, <3>1
  <2>4. f.k \in Known(n) .. seq[n] - 1
    BY <1>2
  <2>5. QED
    BY <1>2, <1>4, <1>5, <2>2, <2>3, <2>4 DEF NodeInv
<1>6. CASE ~(n < MAX_NODES)
  <2>1. rx_count' = rx_count /\ last_seq' = last_seq
    BY <1>1, <1>6 DEF input_callback
  <2>2. Known(n)' = Known(n)
    BY <2>1 DEF Known
  <2>3. QED
    BY <1>4, <1>6, <2>1, <2>2 DEF NodeInv
<1>7. QED
  BY <1>5, <1>6

LEMMA StarStep == StarInv /\ [Next]_vars => StarInv'
<1> SUFFICES ASSUME StarInv, [Next]_vars PROVE StarInv'
  OBVIOUS
<1>1. TypeOK /\ TypeOK'
  BY TypeStep DEF StarInv
<1>2. ASSUME NEW n \in Steady PROVE NodeInv(n)'
  <2>1. n \in Senders /\ NodeInv(n)
    BY ParametersAssumption DEF StarInv
  <2>2. CASE UNCHANGED vars
    BY <2>1, <2>2 DEF NodeInv, Known
  <2>3. ASSUME NEW m \in Senders, Send(m) \/ Receive(m) \/ Reboot(m) PROVE NodeInv(n)'
    <3>1. CASE m # n
      BY <1>1, <2>1, <2>3, <3>1, OtherNode
    <3>2. CASE m = n
      BY <1>1, <2>1, <2>3, <3>2, SendSteady, ReceiveSteady DEF Reboot
    <3>3. QED
      BY <3>1, <3>2
  <2>4. QED
    BY <2>2, <2>3 DEF Next
<1>3. QED
  BY <1>1, <1>2 DEF StarInv

LEMMA Percent ==
  ASSUME NEW r \in Nat, NEW d \in Nat \ {0}, r <= d
  PROVE  (100 * r) \div d <= 100
OBVIOUS

\* The ratio the sink logs of a steady sender never exceeds 100 %, however
\* many frames are lost and whatever the other senders do.
THEOREM RatioIsARatio == Spec => []PdrAtMost100
<1>1. StarInv => PdrAtMost100
  <2> SUFFICES ASSUME StarInv, NEW n \in Steady PROVE Pdr(n) <= 100
    BY DEF PdrAtMost100
  <2>1. /\ rx_count[n] \in Nat /\ last_seq[n] + 1 \in Nat \ {0}
        /\ rx_count[n] <= last_seq[n] + 1
    BY ParametersAssumption DEF StarInv, NodeInv, TypeOK, Known
  <2>2. QED
    BY <2>1, Percent DEF Pdr
<1>2. QED
  BY InitStar, StarStep, <1>1, PTL DEF Spec

-----------------------------------------------------------------------------
(* The two instruments: what the script counts and the sink's entries, up  *)
(* to the counters' width.                                                 *)

\* Quotient and remainder make up the number.
LEMMA DivMod ==
  ASSUME NEW m \in Nat \ {0}, NEW a \in Int
  PROVE  /\ a \div m \in Int /\ a % m \in 0 .. m - 1
         /\ a = m * (a \div m) + (a % m)
<1>1. a \div m \in Int
  OBVIOUS
<1>2. a % m \in 0 .. m - 1
  OBVIOUS
<1>3. a = m * (a \div m) + (a % m)
  OBVIOUS
<1>4. QED
  BY <1>1, <1>2, <1>3

\* There is one remainder.
LEMMA Unique ==
  ASSUME NEW m \in Nat \ {0}, NEW q \in Int, NEW p \in Int,
         NEW r \in 0 .. m - 1, NEW s \in 0 .. m - 1,
         m * q + r = m * p + s
  PROVE  r = s
<1>1. CASE q = p
  BY <1>1
<1>2. CASE q < p
  <2>1. PICK d \in Nat : p = q + 1 + d
    <3>1. p - q - 1 \in Nat /\ p = q + 1 + (p - q - 1)
      BY <1>2
    <3>2. QED
      BY <3>1
  <2>2. m * p = m * q + m + m * d
    BY <2>1
  <2>3. m * d \in Nat
    OBVIOUS
  <2>4. QED
    BY <2>2, <2>3
<1>3. CASE p < q
  <2>1. PICK d \in Nat : q = p + 1 + d
    <3>1. q - p - 1 \in Nat /\ q = p + 1 + (q - p - 1)
      BY <1>3
    <3>2. QED
      BY <3>1
  <2>2. m * q = m * p + m + m * d
    BY <2>1
  <2>3. m * d \in Nat
    OBVIOUS
  <2>4. QED
    BY <2>2, <2>3
<1>4. QED
  BY <1>1, <1>2, <1>3

\* So what is a multiple and a bit has the bit as its remainder.
LEMMA ModOf ==
  ASSUME NEW m \in Nat \ {0}, NEW q \in Int, NEW r \in 0 .. m - 1
  PROVE  (m * q + r) % m = r
<1> DEFINE a == m * q + r
<1>1. a \in Int
  OBVIOUS
<1> HIDE DEF a
<1>2. a \div m \in Int /\ a % m \in 0 .. m - 1 /\ a = m * (a \div m) + (a % m)
  BY <1>1, DivMod
<1>3. m * q + r = m * (a \div m) + (a % m)
  BY <1>2 DEF a
<1>4. QED
  BY <1>2, <1>3, Unique DEF a

\* Numbers that agree up to m still agree when both are counted up, the second
\* with or without a wrap.
LEMMA Wraps ==
  ASSUME NEW m \in Nat \ {0}, NEW a \in Int, NEW b \in Int, a % m = b % m,
         NEW c \in {b + 1, b + 1 - m}
  PROVE  (a + 1) % m = c % m
<1> DEFINE r == a % m  p == a \div m  q == b \div m
<1>1. /\ p \in Int /\ q \in Int /\ r \in 0 .. m - 1
      /\ a = m * p + r /\ b = m * q + r
  BY DivMod
<1> HIDE DEF r, p, q
<1>2. CASE r + 1 < m
  <2>1. /\ a + 1 = m * p + (r + 1) /\ b + 1 = m * q + (r + 1)
        /\ b + 1 - m = m * (q - 1) + (r + 1)
    BY <1>1
  <2>2. r + 1 \in 0 .. m - 1 /\ q - 1 \in Int
    BY <1>1, <1>2
  <2>3. (m * p + (r + 1)) % m = r + 1
    BY <1>1, <2>2, ModOf
  <2>4. (m * q + (r + 1)) % m = r + 1
    BY <1>1, <2>2, ModOf
  <2>5. (m * (q - 1) + (r + 1)) % m = r + 1
    BY <2>2, ModOf
  <2>6. QED
    BY <2>1, <2>3, <2>4, <2>5
<1>3. CASE r + 1 = m
  <2>1. a + 1 = m * (p + 1) + 0 /\ b + 1 = m * (q + 1) + 0 /\ b + 1 - m = m * q + 0
    BY <1>1, <1>3
  <2>2. 0 \in 0 .. m - 1 /\ q + 1 \in Int /\ p + 1 \in Int
    BY <1>1
  <2>3. (m * (p + 1) + 0) % m = 0
    BY <2>2, ModOf
  <2>4. (m * (q + 1) + 0) % m = 0
    BY <2>2, ModOf
  <2>5. (m * q + 0) % m = 0
    BY <1>1, <2>2, ModOf
  <2>6. QED
    BY <2>1, <2>3, <2>4, <2>5
<1>4. QED
  BY <1>1, <1>2, <1>3

\* The script's RX lines are the total of the entries.
TotalInv == rxLines % SeqMod = SumFunctionOnSet(rx_count, Tabled) % SeqMod

\* The frames on their way, with their senders: each was a TX line, and will
\* be one RX line at most.
InFlight == {p \in Senders \X Frames : p[2] \in air[p[1]]}

FlightInv == IsFiniteSet(InFlight) /\ rxLines + Cardinality(InFlight) <= txLines

\* The sink has entries for finitely many senders.
LEMMA TabledFinite == IsFiniteSet(Tabled)
<1>1. ASSUME NEW n \in Tabled PROVE n \in 0 .. MAX_NODES - 1
  <2>1. n \in Nat /\ MAX_NODES \in Nat /\ n < MAX_NODES
    BY ParametersAssumption DEF Tabled
  <2>2. QED
    BY <2>1
<1>2. IsFiniteSet(0 .. MAX_NODES - 1)
  BY ParametersAssumption, FS_Interval
<1>3. QED
  BY <1>1, <1>2, FS_Subset

\* A sample counted is one more in the total, or the width less when the entry
\* wraps.
LEMMA CountedTotal ==
  ASSUME TypeOK, TotalInv, NEW n \in Tabled,
         rx_count' = [rx_count EXCEPT ![n] = (@ + 1) % SeqMod],
         rxLines' = rxLines + 1
  PROVE  TotalInv'
<1> DEFINE d == IF rx_count[n] + 1 = SeqMod THEN 1 - SeqMod ELSE 1
<1>1. SeqMod \in Nat \ {0} /\ rxLines \in Int /\ d \in Int
  BY ParametersAssumption DEF TypeOK
<1>2. n \in Senders /\ rx_count[n] \in 0 .. SeqMod - 1
  BY DEF Tabled, TypeOK
<1>3. (rx_count[n] + 1) % SeqMod = rx_count[n] + d
  BY <1>1, <1>2
<1> HIDE DEF d
<1>4. \A x \in Tabled :
        /\ rx_count[x] \in Int
        /\ rx_count'[x] = IF x = n THEN rx_count[x] + d ELSE rx_count[x]
  BY <1>3 DEF Tabled, TypeOK
<1>5. /\ SumFunctionOnSet(rx_count, Tabled) \in Int
      /\ SumFunctionOnSet(rx_count', Tabled) = SumFunctionOnSet(rx_count, Tabled) + d
  <2>1. /\ SumFunctionOnSet(rx_count, Tabled) \in Int
        /\ SumFunctionOnSet(rx_count', Tabled) =
             SumFunctionOnSet(rx_count, Tabled) + (IF n \in Tabled THEN d ELSE 0)
    <3> DEFINE h == rx_count'
    <3>1. \A x \in Tabled :
            rx_count[x] \in Int /\ h[x] = IF x = n THEN rx_count[x] + d ELSE rx_count[x]
      BY <1>4
    <3> HIDE DEF h
    <3>2. /\ SumFunctionOnSet(rx_count, Tabled) \in Int
          /\ SumFunctionOnSet(h, Tabled) =
               SumFunctionOnSet(rx_count, Tabled) + (IF n \in Tabled THEN d ELSE 0)
      BY <1>1, <3>1, TabledFinite, SumChanged
    <3>3. QED
      BY <3>2 DEF h
  <2>2. QED
    BY <2>1
<1> DEFINE s == SumFunctionOnSet(rx_count, Tabled)
<1>6. s + d \in {s + 1, s + 1 - SeqMod}
  BY <1>1, <1>5 DEF d
<1> HIDE DEF s
<1>7. s \in Int /\ rxLines % SeqMod = s % SeqMod
  BY <1>5 DEF s, TotalInv
<1>8. (rxLines + 1) % SeqMod = (s + d) % SeqMod
  BY <1>1, <1>6, <1>7, Wraps
<1>9. Tabled' = Tabled
  BY DEF Tabled
<1>10. QED
  BY <1>5, <1>8, <1>9 DEF s, TotalInv

LEMMA TotalStep == TypeOK /\ TotalInv /\ [Next]_vars => TotalInv'
<1> SUFFICES ASSUME TypeOK, TotalInv, [Next]_vars PROVE TotalInv'
  OBVIOUS
<1>1. ASSUME rx_count' = rx_count, rxLines' = rxLines PROVE TotalInv'
  BY <1>1 DEF TotalInv, Tabled
<1>2. ASSUME NEW n \in Senders, Receive(n) PROVE TotalInv'
  <2>1. PICK f \in air[n] : input_callback(n, f.seq)
    BY <1>2 DEF Receive
  <2>2. CASE n < MAX_NODES
    BY <2>1, <2>2, CountedTotal DEF input_callback, Tabled
  <2>3. CASE ~(n < MAX_NODES)
    BY <1>1, <2>1, <2>3 DEF input_callback
  <2>4. QED
    BY <2>2, <2>3
<1>3. CASE (\E n \in Senders : Send(n) \/ Reboot(n)) \/ UNCHANGED vars
  BY <1>1, <1>3 DEF Send, Reboot
<1>4. QED
  BY <1>2, <1>3 DEF Next

\* Of a finite set with one element more, or with one less at least.
LEMMA OneMore ==
  ASSUME NEW S, IsFiniteSet(S), NEW x, NEW T \in SUBSET (S \cup {x})
  PROVE  /\ IsFiniteSet(T) /\ Cardinality(T) \in Nat /\ Cardinality(S) \in Nat
         /\ Cardinality(T) <= Cardinality(S) + 1
<1>1. Cardinality(S) \in Nat
  BY FS_CardinalityType
<1>2. /\ IsFiniteSet(S \cup {x})
      /\ Cardinality(S \cup {x}) = IF x \in S THEN Cardinality(S) ELSE Cardinality(S) + 1
  BY FS_AddElement
<1>3. Cardinality(S \cup {x}) <= Cardinality(S) + 1
  BY <1>1, <1>2
<1>4. IsFiniteSet(T) /\ Cardinality(T) <= Cardinality(S \cup {x})
  BY <1>2, FS_Subset
<1>5. Cardinality(T) \in Nat /\ Cardinality(S \cup {x}) \in Nat
  BY <1>2, <1>4, FS_CardinalityType
<1>6. QED
  BY <1>1, <1>3, <1>4, <1>5

LEMMA OneLess ==
  ASSUME NEW S, IsFiniteSet(S), NEW x \in S, NEW T \in SUBSET (S \ {x})
  PROVE  /\ IsFiniteSet(T) /\ Cardinality(T) \in Nat /\ Cardinality(S) \in Nat
         /\ Cardinality(T) + 1 <= Cardinality(S)
<1>1. Cardinality(S) \in Nat
  BY FS_CardinalityType
<1>2. IsFiniteSet(S \ {x}) /\ Cardinality(S \ {x}) = Cardinality(S) - 1
  BY FS_RemoveElement
<1>3. IsFiniteSet(T) /\ Cardinality(T) <= Cardinality(S \ {x})
  BY <1>2, FS_Subset
<1>4. Cardinality(T) \in Nat
  BY <1>3, FS_CardinalityType
<1>5. QED
  BY <1>1, <1>2, <1>3, <1>4

\* A TX line puts one frame on its way at most.
LEMMA SendFlight ==
  ASSUME TypeOK, FlightInv, NEW n \in Senders, Send(n)
  PROVE  FlightInv'
<1> DEFINE p == <<n, [k |-> sent[n], seq |-> seq[n]]>>
<1>1. air' = [air EXCEPT ![n] = @ \cup {[k |-> sent[n], seq |-> seq[n]]}]
  BY DEF Send
<1>2. InFlight' \subseteq InFlight \cup {p}
  BY <1>1 DEF TypeOK, InFlight
<1> HIDE DEF p
<1>3. /\ IsFiniteSet(InFlight') /\ Cardinality(InFlight') \in Nat
      /\ Cardinality(InFlight) \in Nat
      /\ Cardinality(InFlight') <= Cardinality(InFlight) + 1
  <2> DEFINE T == InFlight'
  <2>1. IsFiniteSet(InFlight) /\ T \in SUBSET (InFlight \cup {p})
    BY <1>2 DEF FlightInv
  <2> HIDE DEF T
  <2>2. /\ IsFiniteSet(T) /\ Cardinality(T) \in Nat /\ Cardinality(InFlight) \in Nat
        /\ Cardinality(T) <= Cardinality(InFlight) + 1
    BY <2>1, OneMore
  <2>3. QED
    BY <2>2 DEF T
<1>4. rxLines' = rxLines /\ txLines' = txLines + 1 /\ rxLines \in Nat /\ txLines \in Nat
  BY DEF Send, TypeOK
<1>5. QED
  BY <1>3, <1>4 DEF FlightInv

\* A frame that is received is no longer on its way.
LEMMA ReceiveFlight ==
  ASSUME TypeOK, FlightInv, NEW n \in Senders, Receive(n)
  PROVE  FlightInv'
<1>1. PICK f \in air[n] :
        /\ input_callback(n, f.seq)
        /\ air' = [air EXCEPT ![n] = {g \in @ : g.k > f.k}]
        /\ UNCHANGED txLines
  BY DEF Receive
<1>2. f \in Frames /\ f.k \in Nat
  BY DEF TypeOK, Frames
<1> DEFINE p == <<n, f>>
<1>3. p \in InFlight
  BY <1>1, <1>2 DEF InFlight
<1>4. InFlight' \subseteq InFlight \ {p}
  BY <1>1, <1>2 DEF TypeOK, InFlight
<1> HIDE DEF p
<1>5. /\ IsFiniteSet(InFlight') /\ Cardinality(InFlight') \in Nat
      /\ Cardinality(InFlight) \in Nat
      /\ Cardinality(InFlight') + 1 <= Cardinality(InFlight)
  <2> DEFINE T == InFlight'
  <2>1. IsFiniteSet(InFlight) /\ T \in SUBSET (InFlight \ {p})
    BY <1>4 DEF FlightInv
  <2> HIDE DEF T
  <2>2. /\ IsFiniteSet(T) /\ Cardinality(T) \in Nat /\ Cardinality(InFlight) \in Nat
        /\ Cardinality(T) + 1 <= Cardinality(InFlight)
    BY <1>3, <2>1, OneLess
  <2>3. QED
    BY <2>2 DEF T
<1>6. /\ rxLines' = rxLines \/ rxLines' = rxLines + 1
      /\ txLines' = txLines /\ rxLines \in Nat /\ txLines \in Nat
  BY <1>1 DEF input_callback, TypeOK
<1>7. QED
  BY <1>5, <1>6 DEF FlightInv

LEMMA FlightStep == TypeOK /\ FlightInv /\ [Next]_vars => FlightInv'
<1> SUFFICES ASSUME TypeOK, FlightInv, [Next]_vars PROVE FlightInv'
  OBVIOUS
<1>1. CASE \E n \in Senders : Send(n)
  BY <1>1, SendFlight
<1>2. CASE \E n \in Senders : Receive(n)
  BY <1>2, ReceiveFlight
<1>3. CASE (\E n \in Senders : Reboot(n)) \/ UNCHANGED vars
  BY <1>3 DEF Reboot, FlightInv, InFlight
<1>4. QED
  BY <1>1, <1>2, <1>3 DEF Next

LEMMA InitTotals == Init => TotalInv /\ FlightInv
<1> SUFFICES ASSUME Init PROVE TotalInv /\ FlightInv
  OBVIOUS
<1>1. \A n \in Tabled : rx_count[n] = 0
  BY DEF Init, Tabled
<1>2. SumFunctionOnSet(rx_count, Tabled) = 0
  BY <1>1, TabledFinite, SumOfZeros
<1>3. InFlight = {}
  BY DEF Init, InFlight
<1>4. IsFiniteSet(InFlight) /\ Cardinality(InFlight) = 0
  BY <1>3, FS_EmptySet
<1>5. QED
  BY <1>2, <1>4 DEF Init, TotalInv, FlightInv

\* The script's count of the RX lines agrees with the sink's entries up to
\* their width, through wraps and reboots, and never passes the TX lines.
THEOREM InstrumentsAgree == Spec => []SinkAgreesWithScript
<1>1. TypeOK /\ TotalInv /\ FlightInv => SinkAgreesWithScript
  <2> SUFFICES ASSUME TypeOK, TotalInv, FlightInv PROVE SinkAgreesWithScript
    OBVIOUS
  <2>1. Cardinality(InFlight) \in Nat
    BY FS_CardinalityType DEF FlightInv
  <2>2. QED
    BY <2>1 DEF TypeOK, TotalInv, FlightInv, SinkAgreesWithScript
<1>2. QED
  BY <1>1, InitTotals, TotalStep, FlightStep, TypeCorrect, PTL DEF Spec

-----------------------------------------------------------------------------
(* The stream: Send is Issue, a counted frame is Deliver, the rest and all *)
(* that the other senders do stutters.                                     *)

LEMMA OthersStutter ==
  ASSUME StarInv, NEW n \in Senders \ Streams, Send(n) \/ Receive(n) \/ Reboot(n)
  PROVE  UNCHANGED Stream!vars
BY OtherNode DEF StarInv, Stream!vars, Streams, Tabled

LEMMA SendIssues ==
  ASSUME StarInv, NEW n \in Streams, Send(n)
  PROVE  Stream!Issue(n)
<1>1. n \in Steady /\ n \in Senders /\ NodeInv(n) /\ TypeOK
  BY DEF Streams, Tabled, StarInv
<1>2. seq' = [seq EXCEPT ![n] = @ + 1] /\ Known(n)' = Known(n)
  BY <1>1, SendSteady
<1>3. \A m \in Streams : Known(m)' = Known(m)
  BY <1>1, <1>2, OtherNode DEF Streams, Tabled
<1>4. QED
  BY <1>1, <1>2, <1>3 DEF Stream!Issue, Streams, Tabled, TypeOK

LEMMA ReceiveDelivers ==
  ASSUME StarInv, NEW n \in Streams, Receive(n)
  PROVE  Stream!Deliver(n)
<1>1. n \in Steady /\ n \in Senders /\ n < MAX_NODES /\ NodeInv(n) /\ TypeOK
  BY DEF Streams, Tabled, StarInv
<1>2. PICK k \in Known(n) .. seq[n] - 1 : Known(n)' = k + 1
  BY <1>1, ReceiveSteady
<1>3. \A m \in Streams : m # n => Known(m)' = Known(m)
  BY <1>1, OtherNode DEF Streams, Tabled
<1>4. seq' = seq
  BY <1>1, ReceiveSteady
<1>5. QED
  BY <1>1, <1>2, <1>3, <1>4 DEF Stream!Deliver

\* What the sink knows of the steady senders in its tables is their numbered
\* stream.
THEOREM Refinement == Spec => StreamSpec
<1>1. Init => Stream!Init
  BY DEF Init, Stream!Init, Streams, Tabled, Known
<1>2. StarInv /\ [Next]_vars => [Stream!Next]_(Stream!vars)
  <2> SUFFICES ASSUME StarInv, [Next]_vars PROVE [Stream!Next]_(Stream!vars)
    OBVIOUS
  <2>1. ASSUME NEW n \in Senders, Send(n) \/ Receive(n) \/ Reboot(n)
        PROVE  [Stream!Next]_(Stream!vars)
    <3>1. CASE n \notin Streams
      BY <2>1, <3>1, OthersStutter
    <3>2. CASE n \in Streams
      <4>1. ~Reboot(n)
        BY <3>2 DEF Reboot, Streams
      <4>2. QED
        BY <2>1, <3>2, <4>1, SendIssues, ReceiveDelivers DEF Stream!Next
    <3>3. QED
      BY <3>1, <3>2
  <2>2. CASE UNCHANGED vars
    BY <2>2 DEF Stream!vars, Known
  <2>3. QED
    BY <2>1, <2>2 DEF Next
<1>3. QED
  BY <1>1, <1>2, InitStar, StarStep, PTL DEF Spec, StreamSpec, Stream!Spec
=============================================================================
