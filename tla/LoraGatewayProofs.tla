------------------------- MODULE LoraGatewayProofs -------------------------
(***************************************************************************)
(* Proofs about the LoRa gateway, for any number of nodes, of frames and   *)
(* of lost connections.                                                    *)
(***************************************************************************)
EXTENDS LoraGateway, TLAPS

USE DEF radio, network, vars

-----------------------------------------------------------------------------
(* Types, and the interrupt.                                               *)

\* The line is up only while an interrupt is being answered or will be.
LineAnswered == dio1 => rxFlag \/ pc \in {"clear", "readData"}

\* Only a frame that was read is published.
PublishMeansRead == pc = "publish" => msg # None

FlagInv == TypeOK /\ NoFrameForgotten /\ LineAnswered /\ PublishMeansRead

\* Only Hear, which every transmission shares, touches flag and radio.
LEMMA HearFlag ==
  ASSUME FlagInv, NEW f \in Frames, Hear(f), UNCHANGED <<pc, msg, network>>,
         seq' \in [Nodes -> 0 .. MaxFrames]
  PROVE  FlagInv'
BY DEF FlagInv, TypeOK, NoFrameForgotten, LineAnswered, PublishMeansRead,
       Hear

LEMMA TransmitFlag == ASSUME FlagInv, NEW n \in Nodes, Transmit(n) PROVE FlagInv'
<1>1. /\ seq[n] \in 0 .. MaxFrames - 1
      /\ seq' \in [Nodes -> 0 .. MaxFrames]
  BY LoraAssumption DEF FlagInv, TypeOK, Transmit
<1>2. CASE Hear(<<n, seq[n]>>)
  <2>1. <<n, seq[n]>> \in Frames
    BY <1>1 DEF Frames
  <2>2. UNCHANGED <<pc, msg, network>>
    BY DEF Transmit
  <2>3. QED
    BY <1>1, <1>2, <2>1, <2>2, HearFlag
<1>3. CASE UNCHANGED <<radio, rxFlag>>
  BY <1>1, <1>3
  DEF Transmit, FlagInv, TypeOK, NoFrameForgotten, LineAnswered, PublishMeansRead
<1>4. QED
  BY <1>2, <1>3 DEF Transmit

LEMMA GatewayFlag == ASSUME FlagInv, Gateway PROVE FlagInv'
<1> USE DEF FlagInv, TypeOK, NoFrameForgotten, LineAnswered, PublishMeansRead
<1>1. CASE Setup
  BY <1>1 DEF Setup
<1>2. CASE connectAll
  BY <1>2 DEF connectAll
<1>3. CASE Poll
  BY <1>3 DEF Poll
<1>4. CASE ClearFlag
  BY <1>4 DEF ClearFlag
<1>5. CASE ReadData
  <2>1. msg' \in Frames \cup {None}
    BY <1>5 DEF ReadData
  <2>2. QED
    BY <1>5, <2>1 DEF ReadData
<1>6. CASE StartReceive
  BY <1>6 DEF StartReceive
<1>7. CASE Publish
  <2>1. msg # Foreign => msg[1] \in Nodes /\ msg[2] + 1 \in 0 .. MaxFrames
    <3> SUFFICES ASSUME msg # Foreign
                 PROVE  msg[1] \in Nodes /\ msg[2] + 1 \in 0 .. MaxFrames
      OBVIOUS
    <3>1. msg \in Nodes \X (0 .. MaxFrames - 1)
      BY <1>7 DEF Publish, Frames
    <3>2. msg[1] \in Nodes /\ msg[2] \in 0 .. MaxFrames - 1
      BY <3>1
    <3>3. QED
      BY <3>2, LoraAssumption
  <2>2. published' \in [Nodes -> 0 .. MaxFrames]
    BY <1>7, <2>1 DEF Publish
  <2>3. QED
    BY <1>7, <2>2 DEF Publish
<1>8. QED
  BY <1>1, <1>2, <1>3, <1>4, <1>5, <1>6, <1>7 DEF Gateway

LEMMA FlagStep == FlagInv /\ [Next]_vars => FlagInv'
<1> SUFFICES ASSUME FlagInv, [Next]_vars PROVE FlagInv'
  OBVIOUS
<1>1. CASE \E n \in Nodes : Transmit(n)
  BY <1>1, TransmitFlag
<1>2. CASE ForeignTransmits
  <2>1. Foreign \in Frames /\ seq' \in [Nodes -> 0 .. MaxFrames]
    BY <1>2 DEF Frames, ForeignTransmits, FlagInv, TypeOK
  <2>2. QED
    BY <1>2, <2>1, HearFlag DEF ForeignTransmits
<1>3. CASE ConnectionLost
  <2>1. faults' \in 0 .. MaxFaults
    BY <1>3, LoraAssumption DEF ConnectionLost, FlagInv, TypeOK
  <2>2. QED
    BY <1>3, <2>1
    DEF ConnectionLost, FlagInv, TypeOK, NoFrameForgotten, LineAnswered,
        PublishMeansRead
<1>4. CASE Gateway
  BY <1>4, GatewayFlag
<1>5. CASE UNCHANGED vars
  BY <1>5
  DEF FlagInv, TypeOK, NoFrameForgotten, LineAnswered, PublishMeansRead
<1>6. QED
  BY <1>1, <1>2, <1>3, <1>4, <1>5 DEF Next

LEMMA InitFlag == Init => FlagInv
<1> SUFFICES ASSUME Init PROVE FlagInv
  OBVIOUS
<1>1. TypeOK
  <2>1. /\ seq \in [Nodes -> 0 .. MaxFrames] /\ published \in [Nodes -> 0 .. MaxFrames]
        /\ faults \in 0 .. MaxFaults
    BY LoraAssumption DEF Init
  <2>2. QED
    BY <2>1 DEF Init, TypeOK
<1>2. QED
  BY <1>1
  DEF Init, FlagInv, NoFrameForgotten, LineAnswered, PublishMeansRead

\* Every variable keeps its type.
THEOREM TypeCorrect == Spec => []TypeOK
<1>1. FlagInv => TypeOK
  BY DEF FlagInv
<1>2. QED
  BY <1>1, InitFlag, FlagStep, PTL DEF Spec

\* No frame stays in the radio unnoticed, whenever it arrives.
THEOREM NoneForgotten == Spec => []NoFrameForgotten
<1>1. FlagInv => NoFrameForgotten
  BY DEF FlagInv
<1>2. QED
  BY <1>1, InitFlag, FlagStep, PTL DEF Spec

-----------------------------------------------------------------------------
(* The streams.                                                            *)

IsSample(f) == f \in Nodes \X (0 .. MaxFrames - 1)

\* A frame the gateway holds was sent, and nothing after it was published.
\* It may be the last one published: a flag raised while the last frame was
\* read makes loop() read the same frame again.
Current(f) == IsSample(f) => f[2] < seq[f[1]] /\ published[f[1]] <= f[2] + 1

\* The frame in the radio is not older than the one loop() has read.
InOrder ==
  IsSample(msg) /\ IsSample(buffer) /\ msg[1] = buffer[1] => msg[2] <= buffer[2]

StreamInv ==
  /\ FlagInv
  /\ \A n \in Nodes : published[n] <= seq[n]
  /\ Current(msg) /\ Current(buffer) /\ InOrder

\* No frame and a foreign one are no samples.
LEMMA NoSample == ~IsSample(None) /\ ~IsSample(Foreign)
BY LoraAssumption DEF IsSample

LEMMA SampleFields ==
  ASSUME NEW f, IsSample(f)
  PROVE  f[1] \in Nodes /\ f[2] \in Nat
BY LoraAssumption DEF IsSample

LEMMA InitStream == Init => StreamInv
<1> SUFFICES ASSUME Init PROVE StreamInv
  OBVIOUS
<1>1. FlagInv
  BY InitFlag
<1>2. \A n \in Nodes : published[n] <= seq[n]
  <2>1. /\ seq = [n \in Nodes |-> 0]
        /\ published = [n \in Nodes |-> 0]
    BY DEF Init
  <2>2. ASSUME NEW n \in Nodes PROVE published[n] <= seq[n]
    <3>1. published[n] = 0 /\ seq[n] = 0 /\ 0 <= 0
      BY <2>1
    <3>2. QED
      BY <3>1
  <2>3. QED
    BY <2>2
<1>3. Current(msg) /\ Current(buffer) /\ InOrder
  BY NoSample DEF Init, Current, InOrder
<1>4. QED
  BY <1>1, <1>2, <1>3 DEF StreamInv

\* A step that leaves the counters and what was published, and reads at most
\* what the radio holds.
LEMMA QuietStream ==
  ASSUME StreamInv, FlagInv', UNCHANGED <<seq, published>>,
         buffer' \in {buffer, Foreign}, msg' \in {msg, buffer, None}
  PROVE  StreamInv'
<1>1. \A n \in Nodes : published'[n] <= seq'[n]
  BY DEF StreamInv
<1>2. Current(msg)' /\ Current(buffer)'
  BY NoSample DEF StreamInv, Current, IsSample
<1>3. InOrder'
  BY NoSample, SampleFields DEF StreamInv, InOrder, IsSample
<1>4. QED
  BY <1>1, <1>2, <1>3 DEF StreamInv

LEMMA TransmitStream ==
  ASSUME StreamInv, FlagInv', NEW n \in Nodes, Transmit(n)
  PROVE  StreamInv' /\ Stream!Issue(n)
<1>1. /\ seq' = [seq EXCEPT ![n] = @ + 1]
      /\ UNCHANGED <<msg, published>>
      /\ buffer' \in {buffer, <<n, seq[n]>>}
  BY DEF Transmit, Hear
<1>2. /\ seq \in [Nodes -> Nat] /\ published \in [Nodes -> Nat]
  BY LoraAssumption DEF StreamInv, FlagInv, TypeOK
<1>3. \A m \in Nodes : published'[m] <= seq'[m]
  BY <1>1, <1>2 DEF StreamInv
<1>4. ASSUME NEW f, Current(f) PROVE Current(f)'
  BY <1>1, <1>2, <1>4, SampleFields DEF Current, IsSample
<1>5. ASSUME NEW f, f = <<n, seq[n]>> PROVE Current(f)'
  <2>1. f[1] = n /\ f[2] = seq[n]
    BY <1>5
  <2>2. seq'[n] = seq[n] + 1 /\ published'[n] = published[n] /\ published[n] <= seq[n]
    BY <1>1, <1>2 DEF StreamInv
  <2>3. QED
    BY <1>2, <2>1, <2>2 DEF Current
<1>6. Current(msg)' /\ Current(buffer)'
  <2>1. Current(msg)'
    BY <1>1, <1>4 DEF StreamInv, Current, IsSample
  <2>2. CASE buffer' = buffer
    BY <1>4, <2>1, <2>2 DEF StreamInv, Current, IsSample
  <2>3. CASE buffer' = <<n, seq[n]>>
    BY <1>5, <2>1, <2>3 DEF Current, IsSample
  <2>4. QED
    BY <1>1, <2>1, <2>2, <2>3
<1>7. InOrder'
  BY <1>1, <1>2, SampleFields DEF StreamInv, InOrder, Current, IsSample
<1>8. QED
  BY <1>1, <1>3, <1>6, <1>7 DEF StreamInv, Stream!Issue

LEMMA PublishStream ==
  ASSUME StreamInv, FlagInv', Publish
  PROVE  /\ StreamInv'
         /\ (\E n \in Nodes : Stream!Deliver(n)) \/ UNCHANGED <<seq, published>>
<1>1. /\ seq \in [Nodes -> Nat] /\ published \in [Nodes -> Nat]
  BY LoraAssumption DEF StreamInv, FlagInv, TypeOK
<1>2. UNCHANGED <<seq, buffer>> /\ msg' = None
  BY DEF Publish
<1>3. CASE published' = published
  BY <1>2, <1>3, QuietStream
<1>4. CASE published' # published
  <2>1. connected /\ msg # Foreign /\ msg # None
    BY <1>4 DEF Publish, StreamInv, FlagInv, PublishMeansRead
  <2>2. IsSample(msg)
    BY <2>1 DEF StreamInv, FlagInv, TypeOK, Frames, IsSample
  <2> DEFINE n == msg[1]
             k == msg[2]
  <2>3. n \in Nodes /\ k \in Nat
    BY <2>2, SampleFields
  <2>4. published' = [published EXCEPT ![n] = k + 1]
    BY <2>1 DEF Publish
  <2>5. k < seq[n] /\ published[n] <= k + 1
    BY <2>2 DEF StreamInv, Current
  <2>6. published[n] <= k
    <3>1. published[n] # k + 1
      BY <1>1, <1>4, <2>3, <2>4
    <3>2. QED
      BY <1>1, <2>3, <2>5, <3>1
  <2>7. Stream!Deliver(n)
    <3>1. k \in published[n] .. seq[n] - 1
      BY <1>1, <2>3, <2>5, <2>6
    <3>2. QED
      BY <1>2, <2>4, <3>1 DEF Stream!Deliver
  <2>8. \A m \in Nodes : published'[m] <= seq'[m]
    BY <1>1, <1>2, <2>3, <2>4, <2>5 DEF StreamInv
  <2>9. Current(msg)' /\ InOrder'
    BY <1>2, NoSample DEF Current, InOrder, IsSample
  <2>10. Current(buffer)'
    <3> SUFFICES ASSUME IsSample(buffer)
                 PROVE  buffer[2] < seq[buffer[1]] /\ published'[buffer[1]] <= buffer[2] + 1
      BY <1>2 DEF Current, IsSample
    <3>1. buffer[1] \in Nodes /\ buffer[2] \in Nat
      BY SampleFields
    <3>2. CASE buffer[1] = n
      BY <1>1, <2>2, <2>3, <2>4, <3>1, <3>2 DEF StreamInv, InOrder, Current
    <3>3. CASE buffer[1] # n
      BY <1>1, <2>4, <3>1, <3>3 DEF StreamInv, Current
    <3>4. QED
      BY <3>2, <3>3
  <2>11. QED
    BY <2>3, <2>7, <2>8, <2>9, <2>10 DEF StreamInv
<1>5. QED
  BY <1>3, <1>4

LEMMA StreamStep ==
  ASSUME StreamInv, [Next]_vars
  PROVE  StreamInv' /\ [Stream!Next]_Stream!vars
<1>1. FlagInv'
  BY FlagStep DEF StreamInv
<1>2. CASE \E n \in Nodes : Transmit(n)
  BY <1>1, <1>2, TransmitStream DEF Stream!Next
<1>3. CASE Publish
  BY <1>1, <1>3, PublishStream DEF Stream!Next, Stream!vars
<1>4. CASE ForeignTransmits \/ ConnectionLost \/ UNCHANGED vars
  <2>1. /\ UNCHANGED <<seq, published>>
        /\ buffer' \in {buffer, Foreign} /\ msg' \in {msg, buffer, None}
    BY <1>4 DEF ForeignTransmits, Hear, ConnectionLost
  <2>2. QED
    BY <1>1, <2>1, QuietStream DEF Stream!vars
<1>5. CASE Setup \/ connectAll \/ Poll \/ ClearFlag \/ ReadData \/ StartReceive
  <2>1. /\ UNCHANGED <<seq, published>>
        /\ buffer' \in {buffer, Foreign} /\ msg' \in {msg, buffer, None}
    BY <1>5 DEF Setup, connectAll, Poll, ClearFlag, ReadData, StartReceive
  <2>2. QED
    BY <1>1, <2>1, QuietStream DEF Stream!vars
<1>6. QED
  BY <1>2, <1>3, <1>4, <1>5 DEF Next, Gateway

\* Nodes, radio and gateway implement the sample stream: what is published of a
\* node is never out of order and never invented.
THEOREM Refinement == Spec => StreamSpec
<1>1. Init => StreamInv /\ Stream!Init
  BY InitStream DEF Init, Stream!Init
<1>2. StreamInv /\ [Next]_vars => StreamInv' /\ [Stream!Next]_Stream!vars
  BY StreamStep
<1>3. QED
  BY <1>1, <1>2, PTL DEF Spec, StreamSpec, Stream!Spec
=============================================================================
